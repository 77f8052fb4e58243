------------------------------ MODULE DavReads ------------------------------
(***************************************************************************)
(* GET, HEAD and PROPFIND beside the requests of DavTree, and what a sync  *)
(* client makes of the answers (handlers/webdav.go).  They take no path    *)
(* lock and no transaction: each looks at the disk and at committed rows   *)
(* in separate steps.                                                      *)
(*                                                                         *)
(* A client remembers every answer with the ETag it came with, and takes   *)
(* it for true for as long as it is shown that ETag for that name.         *)
(***************************************************************************)
EXTENDS DavTree

CONSTANTS Client,     \* sync clients, each with one read at a time
          Readable    \* the names they read

ASSUME ReadsAssumption == Readable \subseteq Path

VARIABLES reader,   \* the read each client has in progress
          known     \* what each client remembers of each name

allVars == <<fs, rows, props, inside, rootRow, req, serial, issued, crashed, faults,
             reader, known>>

NoRead == [pc |-> "idle", how |-> "none", path |-> Root, etag |-> NoETag, found |-> Dir]

ReadsInit ==
    /\ Init
    /\ reader = [c \in Client |-> NoRead]
    /\ known = [c \in Client |-> [p \in {} |-> {}]]

\* An answer reaches the client.  It is steady when the name still has the row whose
\* ETag it carries.
Learn(c, p, how, etag, data, listing) ==
    LET answer == [how |-> how, etag |-> etag, data |-> data, listing |-> listing,
                   steady |-> p \in DOMAIN rows /\ rows[p].id = etag[1]]
    IN known' = [known EXCEPT ![c] = [q \in DOMAIN known[c] \cup {p} |->
                                         IF q = p THEN answer ELSE known[c][q]]]

\* A request to read arrives; DavTree's bound on requests counts it.
Start(c) ==
    /\ reader[c].pc = "idle" /\ ~ crashed /\ issued < MaxOps
    /\ issued' = issued + 1

IsFile(p) == p \in DOMAIN fs /\ ~ IsDir(fs, p)

\* GET and HEAD look at the file first; HEAD keeps its length, which stands here
\* for the content that has it.
StatFile(c, p, how) ==
    /\ Start(c) /\ how \in {"GET", "HEAD"}
    /\ IsFile(p)
    /\ reader' = [reader EXCEPT ![c] = [pc |-> "statted", how |-> how, path |-> p,
                                        etag |-> NoETag, found |-> fs[p]]]
    /\ UNCHANGED known

ReadRowLast(c) ==    \* faulty variant: GET opens the file before it reads the row
    LET p == reader[c].path
    IN /\ reader[c].pc = "statted" /\ p \in DOMAIN rows
       /\ Learn(c, p, reader[c].how, ETag(rows[p]), reader[c].found, {})
       /\ reader' = [reader EXCEPT ![c] = NoRead]
       /\ UNCHANGED issued

\* The row gives the ETag.  HEAD has all it needs; GET opens the file next.
ReadRow(c) ==
    LET p == reader[c].path
    IN /\ reader[c].pc = "statted" /\ p \in DOMAIN rows
       /\ IF reader[c].how = "HEAD"
          THEN /\ Learn(c, p, "HEAD", ETag(rows[p]), reader[c].found, {})
               /\ reader' = [reader EXCEPT ![c] = NoRead]
          ELSE /\ reader' = [reader EXCEPT ![c].pc = "serving", ![c].etag = ETag(rows[p]),
                                           ![c].found = Dir]
               /\ UNCHANGED known
       /\ UNCHANGED issued

\* The response carries the ETag of the row and the content of the open file.
Serve(c) ==
    LET p == reader[c].path
    IN /\ reader[c].pc = "serving" /\ IsFile(p)
       /\ Learn(c, p, "GET", reader[c].etag, fs[p], {})
       /\ reader' = [reader EXCEPT ![c] = NoRead]
       /\ UNCHANGED issued

\* 404, or 500 when the file is gone before it is opened.
Miss(c) ==
    /\ \/ reader[c].pc = "statted" /\ reader[c].path \notin DOMAIN rows
       \/ reader[c].pc = "serving" /\ ~ IsFile(reader[c].path)
    /\ reader' = [reader EXCEPT ![c] = NoRead]
    /\ UNCHANGED <<known, issued>>

\* PROPFIND of a collection: its own row, then all rows below it with one statement
\* (Depth: infinity; the answer to Depth: 1 is the part that is one level down).
\* Of a file it reads one row and teaches nothing but its ETag.
ListSelf(c, p) ==
    /\ Start(c)
    /\ p \in DOMAIN rows /\ rows[p].data = Dir
    /\ reader' = [reader EXCEPT ![c] = [pc |-> "listing", how |-> "PROPFIND", path |-> p,
                                        etag |-> ETag(rows[p]), found |-> Dir]]
    /\ UNCHANGED known

ListBelow(c) ==
    LET p == reader[c].path
    IN /\ reader[c].pc = "listing"
       /\ Learn(c, p, "PROPFIND", reader[c].etag, Dir, Listing(rows, p))
       /\ reader' = [reader EXCEPT ![c] = NoRead]
       /\ UNCHANGED issued

Read ==
    \E c \in Client :
        \/ \E p \in Readable : ListSelf(c, p) \/ \E how \in {"GET", "HEAD"} : StatFile(c, p, how)
        \/ ReadRow(c) \/ Serve(c) \/ Miss(c) \/ ListBelow(c)

\* A read leaves the server as it is; a server that stops answers no more.
ReadsNext ==
    \/ /\ Next
       /\ reader' = IF crashed' # crashed THEN [c \in Client |-> NoRead] ELSE reader
       /\ UNCHANGED known
    \/ /\ Read
       /\ UNCHANGED <<fs, rows, props, inside, rootRow, req, serial, crashed, faults>>

ReadsSpec == ReadsInit /\ [][ReadsNext]_allVars

-----------------------------------------------------------------------------
(* Correctness.                                                            *)

\* What client c remembers of p is still named by the ETag p has now.
Current(c, p) == p \in DOMAIN rows /\ known[c][p].etag = ETag(rows[p])

\* A client that skips what it believes to know is never wrong for good.  A listing
\* that came with the ETag a collection still has is its listing, all the way down,
\* although the rows of the answer were read at two different times.  A download
\* that came with the ETag a file still has is its content as soon as no request
\* is at work there, although ETag and content were read without locks from
\* two stores that change at different times.  (Both for steady answers, see
\* EveryListingRight; and a lost session spoils ETags themselves.)
ListingRight(c, p) == known[c][p].listing = Listing(rows, p)
ClientInSync ==
    \A c \in Client : \A p \in DOMAIN known[c] :
        Current(c, p) /\ known[c][p].steady =>
            /\ known[c][p].how = "PROPFIND" /\ SessionsKept => ListingRight(c, p)
            /\ known[c][p].how = "GET" /\ faults = {} /\ ~ BeingChanged(p)
                  => known[c][p].data = rows[p].data

\* The same for every listing.  It is not so: a collection that is moved away between
\* the two reads and moved back later has its old ETag, and the answer was empty.
EveryListingRight ==
    \A c \in Client : \A p \in DOMAIN known[c] :
        Current(c, p) /\ known[c][p].how = "PROPFIND" => ListingRight(c, p)

\* The same of the length a HEAD request reports; it is not so.
HeadInSync ==
    \A c \in Client : \A p \in DOMAIN known[c] :
        known[c][p].how = "HEAD" /\ Current(c, p) /\ ~ BeingChanged(p)
            => known[c][p].data = rows[p].data

\* What "atomically publishes" (publishFile) promises a reader: a response that
\* carries the current ETag carries the content of the current row.
ServedMatchesETag ==
    [][\A c \in Client :
          LET p == reader[c].path
          IN Serve(c) /\ p \in DOMAIN rows /\ ETag(rows[p]) = reader[c].etag
                => fs[p] = rows[p].data]_allVars
=============================================================================
