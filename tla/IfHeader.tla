------------------------------ MODULE IfHeader ------------------------------
(***************************************************************************)
(* The If header of a request that changes the tree: its parser, its       *)
(* evaluation against one resource, and the short cut that only looks for  *)
(* a lock token in it (handlers/webdav.go).  A header is the sequence of   *)
(* its lexemes, without blanks; a name stands for what is between the      *)
(* brackets, and an ETag is named by the path of the resource that has it. *)
(***************************************************************************)
EXTENDS DavPaths

CONSTANTS Token,      \* lock tokens
          NoToken,    \* no token; as a name a URI that names no lock (DAV:no-lock)
          NoName      \* nothing between the brackets; no resource tag

ASSUME IfHeaderAssumption ==
    /\ NoToken \notin Token /\ NoName \notin Token
    /\ Token \cap Path = {}

-----------------------------------------------------------------------------
(* Lexemes (lexDAVIf) and the parser (parseDAVIfHeader), an automaton.     *)

Mark(m) == [type |-> m, name |-> NoName]          \* ( ) Not
Angle(n) == [type |-> "angle", name |-> n]        \* <n>
Square(n) == [type |-> "square", name |-> n]      \* [n]
Word(n) == [type |-> "word", name |-> n]          \* n
Stray == [type |-> "stray", name |-> NoName]      \* > or ], or a bracket that is not closed

\* A header that begins with a tag is a sequence of tagged lists.
Start == [at |-> "start", tagged |-> FALSE, tag |-> NoName, negated |-> FALSE,
          open |-> {}, lists |-> {}]

ReadCondition(s, l) ==
    [s EXCEPT !.at = "list", !.negated = FALSE,
              !.open = @ \cup {[kind |-> IF l.type = "square" THEN "etag" ELSE "token",
                                name |-> l.name, negated |-> s.negated]}]

Step(s, l) ==
    CASE s.at \in {"start", "tag", "between"} /\ l.type = "(" ->
            [s EXCEPT !.at = "list", !.open = {}]
      [] (s.at = "start" \/ (s.at = "between" /\ s.tagged)) /\ l.type = "angle" ->
            [s EXCEPT !.at = "tag", !.tagged = TRUE, !.tag = l.name]
      [] s.at = "list" /\ l.type = "Not" ->
            [s EXCEPT !.at = "not", !.negated = TRUE]
      [] s.at \in {"list", "not"} /\ l.type \in {"angle", "word", "square"} ->
            ReadCondition(s, l)
      [] s.at = "list" /\ l.type = ")" /\ s.open # {} ->
            [s EXCEPT !.at = "between", !.lists = @ \cup {[tag |-> s.tag, conditions |-> s.open]}]
      [] OTHER -> [s EXCEPT !.at = "bad"]

Parse(raw) ==
    LET read[i \in 0..Len(raw)] == IF i = 0 THEN Start ELSE Step(read[i - 1], raw[i])
    IN  read[Len(raw)]

-----------------------------------------------------------------------------
(* The same place by place: which lexeme may stand where, and which lists *)
(* and conditions a header consists of.  As conditions RFC 4918 (section   *)
(* 10.4.2) has state tokens in angle brackets and entity tags in square    *)
(* ones (Standard); this parser takes a bare word for a token, too, and    *)
(* brackets with nothing in between (WellFormed).  Otherwise what stands   *)
(* between brackets is not looked into, here or there.                     *)

Names == {"angle", "square", "word"}

\* The list that place i belongs to was opened at place j.
OpenedAt(raw, i, j) ==
    j < i /\ raw[j].type = "(" /\ \A k \in j + 1 .. i - 1 : raw[k].type \notin {"(", ")"}
Inside(raw, i) == \E j \in DOMAIN raw : OpenedAt(raw, i, j)

\* Lists of conditions, all of them under resource tags or none.
Grammar(raw, conditions) ==
    /\ raw # << >> /\ raw[Len(raw)].type = ")"
    /\ \A i \in DOMAIN raw :
          CASE raw[i].type = "(" -> ~ Inside(raw, i)
            [] raw[i].type = ")" -> Inside(raw, i) /\ raw[i - 1].type \in conditions
            [] raw[i].type = "Not" -> Inside(raw, i) /\ raw[i + 1].type \in conditions
            [] raw[i].type = "angle" ->
                  Inside(raw, i) \/ (raw[1].type = "angle" /\ raw[i + 1].type = "(")
            [] OTHER -> Inside(raw, i) /\ raw[i].type \in conditions

WellFormed(raw) == Grammar(raw, Names)

\* Whether there is something between all brackets, and no word outside of them.
Bracketed(raw) ==
    \A i \in DOMAIN raw : /\ raw[i].type # "word"
                          /\ raw[i].type \in {"angle", "square"} => raw[i].name # NoName

\* The headers RFC 4918 allows.
Standard(raw) ==
    /\ Grammar(raw, {"angle", "square"})
    /\ \A i \in DOMAIN raw : raw[i].type \in {"angle", "square"} => raw[i].name # NoName

\* The resource tag of the list that was opened at place j.
TagOf(raw, j) ==
    LET tags == {i \in 1..j : raw[i].type = "angle" /\ ~ Inside(raw, i)}
    IN  IF tags = {} THEN NoName
        ELSE raw[CHOOSE i \in tags : \A k \in tags : k <= i].name

ConditionsOf(raw, j) ==
    {[kind |-> IF raw[i].type = "square" THEN "etag" ELSE "token",
      name |-> raw[i].name, negated |-> raw[i - 1].type = "Not"] :
        i \in {k \in DOMAIN raw : OpenedAt(raw, k, j) /\ raw[k].type \in Names}}

Lists(raw) == {[tag |-> TagOf(raw, j), conditions |-> ConditionsOf(raw, j)] :
                  j \in {k \in DOMAIN raw : raw[k].type = "("}}

-----------------------------------------------------------------------------
(* Evaluation against a resource: the tokens of the locks that cover it,   *)
(* and its ETag (NoName when it has none).                                 *)

\* davIfListAppliesToRel: a tagged list is about the resource of its tag, and about
\* all that a lock on that resource covers.
Applies(list, path, lockPaths) == list.tag \in {NoName, path} \cup lockPaths

\* An empty name never holds, negated or not.
ConditionHolds(c, active, etag) ==
    /\ c.name # NoName
    /\ c.negated # IF c.kind = "token" THEN c.name \in active ELSE c.name = etag

\* evaluateDAVIfHeader: some list holds; on a locked resource it also has to name one
\* of the locks.  (Which of 412 and 423 a refusal is, is left out.)
AnyTrueList(lists, active, etag) ==    \* faulty variant: a true list need not name a lock
    \E list \in lists : \A c \in list.conditions : ConditionHolds(c, active, etag)
Allows(lists, active, etag) ==
    \E list \in lists :
        /\ \A c \in list.conditions : ConditionHolds(c, active, etag)
        /\ active # {} => \E c \in list.conditions :
                              c.kind = "token" /\ ~ c.negated /\ c.name \in active

-----------------------------------------------------------------------------
(* extractLockToken: the first lock token between angle brackets, wherever *)
(* it stands and whether or not the header can be parsed.                  *)

Places(raw) == {i \in DOMAIN raw : raw[i].type = "angle" /\ raw[i].name \in Token}

IsFirst(raw, t) == \E i \in Places(raw) : raw[i].name = t /\ \A j \in Places(raw) : i <= j

Mentioned(raw) == {raw[i].name : i \in Places(raw)}

\* The lock tokens that a condition of the header asks for.
Asserted(raw) ==
    {raw[i].name : i \in {j \in DOMAIN raw : /\ raw[j].type \in {"angle", "word"}
                                             /\ raw[j].name \in Token
                                             /\ j > 1 => raw[j - 1].type # "Not"}}
=============================================================================
