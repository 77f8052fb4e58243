----------------------------- MODULE AuthProofs -----------------------------
(***************************************************************************)
(* Proofs about the two ways into an account in handlers/auth.go.          *)
(* LoginFlow, for every set of users, every set of polls and grants, and   *)
(* any number of visits and faults: type correctness, one app password per *)
(* flow, for the user who approved, and one user asked.                    *)
(* SignIn, for every set of people, names and overlapping sign-ins and any *)
(* number of failures: type correctness with user names that are unique,   *)
(* an administrator wherever there are users, accounts that no later       *)
(* sign-in changes, and a root row for whoever is signed in.               *)
(***************************************************************************)
EXTENDS LoginFlow, SignIn, FiniteSetTheorems, TLAPS

(***************************************************************************)
(* The inductive invariant.  The three properties speak of pages, forms    *)
(* and passwords; what ties them together is the row, and the transaction  *)
(* that holds it.                                                          *)
(***************************************************************************)

Rows == [there : BOOLEAN, state : {NoState} \cup State,
         user : User \cup {NoUser}, approved : BOOLEAN]
Requests == [pc : {"idle", "begun", "holding"}, kind : {"poll", "get", "post"},
             user : User \cup {NoUser}, state : {NoState} \cup State, flow : Rows]

\* A page is asked for by a user with a token that was drawn; a form comes from
\* a page that was shown.
RequestsKnown ==
    \A r \in Request : request[r].pc # "idle" =>
        /\ request[r].kind # "poll" => request[r].user \in User /\ request[r].state \in State
        /\ request[r].kind = "post" => pages # {}

\* One transaction at a time holds the row, what it has read is what the row
\* still is, and a grant holds none but an open flow.
OneHolds ==
    /\ \A r \in Request : request[r].pc = "holding" =>
          /\ request[r].flow = row /\ row.there
          /\ request[r].kind # "poll" => ~ row.approved
    /\ \A r, q \in Request :
          request[r].pc = "holding" /\ request[q].pc = "holding" => r = q

\* While the flow stands it has served nobody, whoever was shown a page is the
\* user it is bound to, and only that user has approved.
RowBound ==
    row.there =>
        /\ passwords = << >>
        /\ \A p \in pages : p.user = row.user
        /\ approvals = IF row.approved THEN {row.user} ELSE {}
        /\ row.approved => row.user \in User /\ pages # {}

IInv ==
    /\ TypeOK
    /\ row \in Rows
    /\ request \in [Request -> Requests]
    /\ RequestsKnown
    /\ OneHolds
    /\ RowBound
    /\ ConsumedOnce
    /\ IssuedAsApproved
    /\ OneUserAsked

-----------------------------------------------------------------------------
\* A new flow satisfies the invariant.
LEMMA InitInvariant == Init => IInv
<1> SUFFICES ASSUME Init PROVE IInv
  OBVIOUS
<1> USE DEF NoState
<1>1. row \in Rows /\ Idle \in Requests /\ ~ row.approved /\ row.user = NoUser
  <2>1. NoRow \in Rows /\ ~ NoRow.approved /\ NoRow.user = NoUser
    BY DEF NoRow, Rows
  <2>2. row \in Rows /\ ~ row.approved /\ row.user = NoUser
    BY <2>1 DEF Init, Rows
  <2>3. Idle \in Requests
    BY <2>1 DEF Idle, Requests
  <2>4. QED
    BY <2>2, <2>3
<1>2. request \in [Request -> Requests] /\ \A r \in Request : request[r].pc = "idle"
  BY <1>1 DEF Init, Idle
<1>3. ToSet(passwords) = {}
  BY DEF Init, ToSet
<1>4. TypeOK
  <2>1. row.there \in BOOLEAN /\ row.state \in {NoState} \cup State
        /\ row.user \in User \cup {NoUser} /\ row.approved \in BOOLEAN
    BY <1>1 DEF Rows
  <2>2. faults \in 0..MaxFaults /\ passwords \in Seq(User) /\ pages = {} /\ approvals = {}
    BY LoginFlowAssumption DEF Init
  <2>3. expired \in BOOLEAN /\ drawn \in {NoState} \cup State
    BY DEF Init
  <2>4. QED
    BY <1>2, <2>1, <2>2, <2>3 DEF TypeOK
<1>5. RequestsKnown /\ OneHolds
  BY <1>2 DEF RequestsKnown, OneHolds
<1>6. RowBound /\ ConsumedOnce /\ IssuedAsApproved /\ OneUserAsked
  BY <1>1, <1>3 DEF Init, RowBound, ConsumedOnce, IssuedAsApproved, OneUserAsked
<1>7. QED
  BY <1>1, <1>2, <1>4, <1>5, <1>6 DEF IInv

\* A request that ends leaves the others as they are; when it held the row, no
\* other transaction has read it.
LEMMA EndedRequest ==
    ASSUME IInv, NEW r \in Request, End(r), pages \subseteq pages',
           row' = row \/ request[r].pc = "holding"
    PROVE  /\ request' \in [Request -> Requests]
           /\ RequestsKnown'
           /\ OneHolds'
<1>1. Idle \in Requests /\ Idle.pc = "idle"
  BY DEF Idle, Requests, NoRow, Rows, NoState
<1>2. /\ request' \in [Request -> Requests]
      /\ request'[r].pc = "idle"
      /\ \A q \in Request \ {r} : request'[q] = request[q]
  BY <1>1 DEF End, IInv
<1>3. RequestsKnown'
  BY <1>2 DEF IInv, RequestsKnown
<1>4. \A q \in Request : request'[q].pc = "holding" => row' = row
  BY <1>2 DEF IInv, OneHolds
<1>5. OneHolds'
  BY <1>2, <1>4 DEF IInv, OneHolds
<1>6. QED
  BY <1>2, <1>3, <1>5

\* A request that begins knows what it asks for and holds nothing yet.
LEMMA RequestStarts ==
    ASSUME IInv, NEW r \in Request, NEW kind \in {"poll", "get", "post"},
           NEW u \in User \cup {NoUser}, NEW s \in {NoState} \cup State,
           kind # "poll" => u \in User /\ s \in State,
           kind = "post" => pages # {},
           Start(r, kind, u, s)
    PROVE  IInv'
<1>1. Idle \in Requests
  BY DEF Idle, Requests, NoRow, Rows, NoState
<1> DEFINE begun == [Idle EXCEPT !.pc = "begun", !.kind = kind, !.user = u, !.state = s]
<1>2. begun \in Requests /\ begun.pc = "begun" /\ begun.kind = kind
      /\ begun.user = u /\ begun.state = s
  BY <1>1 DEF Requests
<1> HIDE DEF begun
<1>3. /\ request' \in [Request -> Requests]
      /\ request'[r] = begun
      /\ \A q \in Request \ {r} : request'[q] = request[q]
  BY <1>2 DEF Start, IInv, begun
<1>4. UNCHANGED <<row, expired, drawn, pages, passwords, approvals, faults>>
  BY DEF Start
<1>5. RequestsKnown' /\ OneHolds'
  BY <1>2, <1>3, <1>4 DEF IInv, RequestsKnown, OneHolds
<1>6. TypeOK'
  BY <1>2, <1>3, <1>4 DEF IInv, TypeOK
<1>7. QED
  BY <1>3, <1>4, <1>5, <1>6
     DEF IInv, RowBound, ConsumedOnce, IssuedAsApproved, OneUserAsked

\* A request that selects an open row is the only one that holds it.
LEMMA SelectInvariant ==
    ASSUME IInv, NEW r \in Request, Select(r)
    PROVE  IInv'
<1>1. UNCHANGED <<row, expired, drawn, pages, passwords, approvals, faults>>
  BY DEF Select
<1>2. \A q \in Request : request[q].pc # "holding"
  BY DEF Select, RowLocked
<1>3. request' \in [Request -> Requests] /\ RequestsKnown' /\ OneHolds'
  <2>1. CASE Selected(r)
    <3>1. request' = [request EXCEPT ![r].pc = "holding", ![r].flow = row]
      BY <2>1 DEF Select
    <3>2. request' \in [Request -> Requests]
      BY <3>1 DEF IInv, Requests
    <3>3. /\ request'[r].pc = "holding" /\ request'[r].flow = row
          /\ request'[r].kind = request[r].kind
          /\ request'[r].user = request[r].user
          /\ request'[r].state = request[r].state
          /\ \A q \in Request \ {r} : request'[q] = request[q]
      BY <3>1 DEF IInv, Requests
    <3>4. RequestsKnown'
      BY <1>1, <3>3 DEF IInv, RequestsKnown, Select
    <3>5. OneHolds'
      BY <1>1, <1>2, <2>1, <3>3 DEF IInv, OneHolds, Selected
    <3>6. QED
      BY <3>2, <3>4, <3>5
  <2>2. CASE ~ Selected(r)
    <3>1. End(r)
      BY <2>2 DEF Select
    <3>2. QED
      BY <1>1, <3>1, EndedRequest
  <2>3. QED
    BY <2>1, <2>2
<1>4. TypeOK'
  BY <1>1, <1>3 DEF IInv, TypeOK, OneHolds, Requests
<1>5. QED
  BY <1>1, <1>3, <1>4 DEF IInv, RowBound, ConsumedOnce, IssuedAsApproved, OneUserAsked

\* A request that ends without having changed anything but the count of faults.
LEMMA EndInvariant ==
    ASSUME IInv, NEW r \in Request, End(r), faults' \in 0..MaxFaults,
           UNCHANGED <<row, expired, drawn, pages, passwords, approvals>>
    PROVE  IInv'
<1>1. request' \in [Request -> Requests] /\ RequestsKnown' /\ OneHolds'
  BY EndedRequest
<1>2. TypeOK'
  BY <1>1 DEF IInv, TypeOK, OneHolds, Requests
<1>3. QED
  BY <1>1, <1>2 DEF IInv, RowBound, ConsumedOnce, IssuedAsApproved, OneUserAsked

\* The flow is deleted, by a poll that finds it expired or by the janitor.
LEMMA GoneInvariant ==
    ASSUME IInv, row' = NoRow, request' \in [Request -> Requests],
           RequestsKnown', OneHolds',
           UNCHANGED <<expired, drawn, pages, passwords, approvals, faults>>
    PROVE  IInv'
<1>1. row' \in Rows /\ ~ row'.there
  BY DEF NoRow, Rows, NoState
<1>2. TypeOK'
  BY <1>1 DEF IInv, TypeOK, OneHolds, Requests, Rows
<1>3. QED
  BY <1>1, <1>2 DEF IInv, RowBound, ConsumedOnce, IssuedAsApproved, OneUserAsked

\* The poll that turns the approved flow into an app password deletes it.
LEMMA ConsumeInvariant ==
    ASSUME IInv, NEW r \in Request, Consume(r)
    PROVE  IInv'
<1> DEFINE u == request[r].flow.user
<1>1. /\ row' = NoRow /\ End(r) /\ request[r].pc = "holding"
      /\ UNCHANGED <<expired, drawn, pages, approvals, faults>>
  BY DEF Consume, ConsumeAnd, Holding
<1>2. row' \in Rows /\ ~ row'.there
  BY <1>1 DEF NoRow, Rows, NoState
<1>3. request' \in [Request -> Requests] /\ RequestsKnown' /\ OneHolds'
  BY <1>1, EndedRequest
<1>4. request[r].flow = row /\ row.there /\ row.approved
  BY <1>1 DEF IInv, OneHolds, Consume, ConsumeAnd, Approved
<1>5. /\ u \in User /\ approvals = {u} /\ passwords = << >>
      /\ \E p \in pages : p.user = u
  BY <1>4 DEF IInv, RowBound
<1>6. passwords' = << u >>
  BY <1>5 DEF Consume, ConsumeAnd
<1>7. ToSet(passwords') = {u} /\ passwords' \in Seq(User) /\ Len(passwords') = 1
  BY <1>5, <1>6 DEF ToSet
<1>8. TypeOK'
  BY <1>1, <1>2, <1>3, <1>7 DEF IInv, TypeOK, OneHolds, Requests, Rows
<1>9. RowBound' /\ ConsumedOnce' /\ IssuedAsApproved' /\ OneUserAsked'
  BY <1>1, <1>2, <1>5, <1>7 DEF IInv, RowBound, ConsumedOnce, IssuedAsApproved, OneUserAsked
<1>10. QED
  BY <1>2, <1>3, <1>8, <1>9 DEF IInv

\* The grant page binds the flow to its first user: nobody was shown a page before.
LEMMA BindInvariant ==
    ASSUME IInv, NEW r \in Request, Bind(r) \/ LosePage(r)
    PROVE  IInv'
<1> DEFINE u == request[r].user
<1>1. /\ request[r].pc = "holding" /\ request[r].kind = "get" /\ MayBind(r)
      /\ row' = [row EXCEPT !.user = u] /\ End(r)
      /\ pages' \in {pages, pages \cup {[user |-> u, state |-> request[r].state]}}
      /\ UNCHANGED <<expired, drawn, passwords, approvals>>
      /\ faults' \in 0..MaxFaults
  BY LoginFlowAssumption DEF Bind, LosePage, Holding, IInv, TypeOK
<1>2. /\ u \in User /\ request[r].state \in State
      /\ row.there /\ row.user = NoUser /\ ~ row.approved
  BY <1>1 DEF IInv, RequestsKnown, OneHolds, MayBind
<1>3. pages = {}
  BY <1>2, LoginFlowAssumption DEF IInv, RowBound, TypeOK
<1>4. request' \in [Request -> Requests] /\ RequestsKnown' /\ OneHolds'
  BY <1>1, EndedRequest
<1>5. /\ row' \in Rows /\ row'.there /\ row'.user = u /\ ~ row'.approved
  BY <1>1, <1>2 DEF IInv, Rows
<1>6. pages' \subseteq [user : User, state : State] /\ \A p \in pages' : p.user = u
  BY <1>1, <1>2, <1>3
<1>7. TypeOK'
  BY <1>1, <1>4, <1>5, <1>6 DEF IInv, TypeOK, OneHolds, Requests, Rows
<1>8. passwords = << >> /\ approvals = {}
  BY <1>2 DEF IInv, RowBound
<1>9. RowBound' /\ ConsumedOnce' /\ OneUserAsked'
  BY <1>1, <1>5, <1>6, <1>8 DEF RowBound, ConsumedOnce, OneUserAsked
<1>10. IssuedAsApproved'
  BY <1>1, <1>8 DEF IssuedAsApproved, ToSet
<1>11. QED
  BY <1>4, <1>5, <1>7, <1>9, <1>10 DEF IInv

\* The form approves for the user the flow is bound to, who was shown the page.
LEMMA ApproveInvariant ==
    ASSUME IInv, NEW r \in Request, Approve(r)
    PROVE  IInv'
<1> DEFINE u == request[r].user
<1>1. /\ request[r].pc = "holding" /\ request[r].kind = "post"
      /\ row' = [row EXCEPT !.approved = TRUE, !.state = NoState] /\ End(r)
      /\ approvals' = approvals \cup {u}
      /\ UNCHANGED <<expired, drawn, pages, passwords, faults>>
  BY DEF Approve, Holding
<1>2. /\ u \in User /\ pages # {}
      /\ row.there /\ row.user = u /\ ~ row.approved
  BY <1>1 DEF IInv, RequestsKnown, OneHolds, Approve, MayApprove
<1>3. request' \in [Request -> Requests] /\ RequestsKnown' /\ OneHolds'
  BY <1>1, EndedRequest
<1>4. row' \in Rows /\ row'.there /\ row'.user = u /\ row'.approved
  BY <1>1, <1>2 DEF IInv, Rows
<1>5. TypeOK'
  BY <1>1, <1>2, <1>3, <1>4 DEF IInv, TypeOK, OneHolds, Requests, Rows
<1>6. passwords = << >> /\ approvals = {}
  BY <1>2 DEF IInv, RowBound
<1>7. RowBound' /\ ConsumedOnce' /\ OneUserAsked'
  BY <1>1, <1>2, <1>4, <1>6 DEF IInv, RowBound, ConsumedOnce, OneUserAsked
<1>8. IssuedAsApproved'
  BY <1>1, <1>6 DEF IssuedAsApproved, ToSet
<1>9. QED
  BY <1>3, <1>4, <1>5, <1>7, <1>8 DEF IInv

\* The flow's address draws a new token while no transaction holds the row.
LEMMA VisitInvariant ==
    ASSUME IInv, Visit
    PROVE  IInv'
<1>1. /\ row' = [row EXCEPT !.state = drawn'] /\ drawn' \in State
      /\ row.there /\ ~ row.approved
      /\ UNCHANGED <<expired, pages, request, passwords, approvals, faults>>
  BY LoginFlowAssumption DEF Visit, IInv, TypeOK, State, NoState
<1>2. \A q \in Request : request[q].pc # "holding"
  BY DEF Visit, RowLocked
<1>3. row' \in Rows /\ row'.there /\ row'.user = row.user /\ ~ row'.approved
  BY <1>1 DEF IInv, Rows
<1>4. RequestsKnown' /\ OneHolds'
  BY <1>1, <1>2 DEF IInv, RequestsKnown, OneHolds
<1>5. TypeOK'
  BY <1>1, <1>2, <1>3 DEF IInv, TypeOK, Rows
<1>6. QED
  BY <1>1, <1>3, <1>4, <1>5
     DEF IInv, RowBound, ConsumedOnce, IssuedAsApproved, OneUserAsked

\* Every step of a flow preserves the invariant.
LEMMA StepInvariant == IInv /\ [Next]_vars => IInv'
<1> SUFFICES ASSUME IInv, [Next]_vars PROVE IInv'
  OBVIOUS
<1>1. ASSUME UNCHANGED vars PROVE IInv'
  BY <1>1 DEF vars, IInv, TypeOK, RequestsKnown, OneHolds, RowBound,
              ConsumedOnce, IssuedAsApproved, OneUserAsked
<1>2. ASSUME Visit PROVE IInv'
  BY <1>2, VisitInvariant
<1>3. ASSUME Expire PROVE IInv'
  BY <1>3 DEF Expire, IInv, TypeOK, RequestsKnown, OneHolds, RowBound,
              ConsumedOnce, IssuedAsApproved, OneUserAsked
<1>4. ASSUME Purge PROVE IInv'
  <2>1. request' \in [Request -> Requests] /\ RequestsKnown'
    BY <1>4 DEF Purge, IInv, RequestsKnown
  <2>2. OneHolds'
    BY <1>4 DEF Purge, RowLocked, OneHolds
  <2>3. QED
    BY <1>4, <2>1, <2>2, GoneInvariant DEF Purge
<1>5. ASSUME NEW r \in Request, Poll(r) PROVE IInv'
  BY <1>5, RequestStarts DEF Poll
<1>6. ASSUME NEW r \in Request, OpenGrant(r) PROVE IInv'
  <2>1. PICK u \in User, s \in 1..drawn : Start(r, "get", u, s)
    BY <1>6 DEF OpenGrant
  <2>2. s \in State
    BY <2>1, LoginFlowAssumption DEF IInv, TypeOK, State, NoState
  <2>3. QED
    BY <2>1, <2>2, RequestStarts
<1>7. ASSUME NEW r \in Request, SendGrant(r) PROVE IInv'
  <2>1. PICK u \in User, p \in pages : Start(r, "post", u, p.state)
    BY <1>7 DEF SendGrant
  <2>2. p.state \in State /\ pages # {}
    BY <2>1 DEF IInv, TypeOK
  <2>3. QED
    BY <2>1, <2>2, RequestStarts
<1>8. ASSUME NEW r \in Request, Select(r) PROVE IInv'
  BY <1>8, SelectInvariant
<1>9. ASSUME NEW r \in Request, PollExpired(r) PROVE IInv'
  <2>1. request' \in [Request -> Requests] /\ RequestsKnown' /\ OneHolds'
    BY <1>9, EndedRequest DEF PollExpired, Holding
  <2>2. QED
    BY <1>9, <2>1, GoneInvariant DEF PollExpired
<1>10. ASSUME NEW r \in Request, PollPending(r) \/ Refuse(r) \/ Fail(r) PROVE IInv'
  <2>1. /\ End(r) /\ faults' \in 0..MaxFaults
        /\ UNCHANGED <<row, expired, drawn, pages, passwords, approvals>>
    BY <1>10, LoginFlowAssumption DEF PollPending, Refuse, Fail, IInv, TypeOK
  <2>2. QED
    BY <2>1, EndInvariant
<1>11. ASSUME NEW r \in Request, Consume(r) PROVE IInv'
  BY <1>11, ConsumeInvariant
<1>12. ASSUME NEW r \in Request, Bind(r) \/ LosePage(r) PROVE IInv'
  BY <1>12, BindInvariant
<1>13. ASSUME NEW r \in Request, Approve(r) PROVE IInv'
  BY <1>13, ApproveInvariant
<1>14. QED
  BY <1>1, <1>2, <1>3, <1>4, <1>5, <1>6, <1>7, <1>8, <1>9, <1>10, <1>11, <1>12, <1>13
     DEF Next

-----------------------------------------------------------------------------
\* The inductive invariant holds in every reachable state: a transaction that
\* holds the row knows what it is, and pages, approval and row name one user.
THEOREM Invariant == Spec => []IInv
<1>1. QED
  BY InitInvariant, StepInvariant, PTL DEF Spec

\* Rows, pages, requests and passwords keep their types, and a poll or grant
\* that holds the row has read what it still is.
THEOREM TypeCorrect == Spec => []TypeOK
<1>1. IInv => TypeOK
  BY DEF IInv
<1>2. QED
  BY <1>1, Invariant, PTL

\* LoginV2PollHandler turns a flow into one app password at most, however many
\* polls, grants and janitors run, and whichever of their transactions fail.
THEOREM OnePassword == Spec => []ConsumedOnce
<1>1. IInv => ConsumedOnce
  BY DEF IInv
<1>2. QED
  BY <1>1, Invariant, PTL

\* The app password belongs to the one user who was shown the grant page and sent
\* its form (GrantHandler), whoever else has opened the address or sent a form.
THEOREM PasswordOfApprover == Spec => []IssuedAsApproved
<1>1. IInv => IssuedAsApproved
  BY DEF IInv
<1>2. QED
  BY <1>1, Invariant, PTL

\* GrantHandler never asks two users to connect the same client, although the
\* flow's address draws a new state token at every visit.
THEOREM OneAsked == Spec => []OneUserAsked
<1>1. IInv => OneUserAsked
  BY DEF IInv
<1>2. QED
  BY <1>1, Invariant, PTL

-----------------------------------------------------------------------------
\* A step that takes the row away withdraws the grant.
LEMMA GoneWithdraws ==
    ASSUME row.there, row' = NoRow, passwords' = passwords
    PROVE  Grant!Withdraw
<1>1. Stage # "over" /\ Stage' = "over" /\ row'.user = NoUser
  BY DEF Stage, NoRow
<1>2. QED
  BY <1>1 DEF Grant!Withdraw

\* A step that leaves the row's user and approval alone leaves the grant alone.
LEMMA SameGrant ==
    ASSUME passwords' = passwords, row'.there = row.there, row'.user = row.user,
           row'.approved = row.approved
    PROVE  UNCHANGED Grant!vars
  BY DEF Grant!vars, Stage

\* Every step of the flow is a step of the grant or leaves it alone.
LEMMA StepImplements ==
    ASSUME IInv, [Next]_vars
    PROVE  Grant!Next \/ UNCHANGED Grant!vars
<1>1. row \in Rows
  BY DEF IInv
<1>2. ASSUME NEW r \in Request, request[r].pc = "holding"
      PROVE  /\ request[r].flow = row /\ row.there /\ request[r] \in Requests
             /\ request[r].kind # "poll" => ~ row.approved /\ request[r].user \in User
  BY <1>2 DEF IInv, OneHolds, RequestsKnown
<1>3. CASE \/ Expire \/ UNCHANGED vars
           \/ \E r \in Request : \/ Poll(r) \/ OpenGrant(r) \/ SendGrant(r) \/ Select(r)
                               \/ PollPending(r) \/ Refuse(r) \/ Fail(r)
  <2>1. UNCHANGED <<row, passwords>>
    BY <1>3 DEF Expire, vars, Poll, OpenGrant, SendGrant, Start, Select, PollPending, Refuse, Fail
  <2>2. QED
    BY <2>1, SameGrant
<1>4. CASE Visit
  <2>1. row' = [row EXCEPT !.state = drawn'] /\ passwords' = passwords
    BY <1>4 DEF Visit
  <2>2. row'.there = row.there /\ row'.user = row.user /\ row'.approved = row.approved
    BY <1>1, <2>1 DEF Rows
  <2>3. QED
    BY <2>1, <2>2, SameGrant
<1>5. CASE Purge
  BY <1>5, GoneWithdraws DEF Purge, Grant!Next
<1>6. ASSUME NEW r \in Request, PollExpired(r) PROVE Grant!Next
  BY <1>2, <1>6, GoneWithdraws DEF PollExpired, Holding, Grant!Next
<1>7. ASSUME NEW r \in Request, Consume(r) PROVE Grant!Next
  <2>1. /\ row' = NoRow /\ passwords' = Append(passwords, row.user)
        /\ row.there /\ row.approved /\ passwords = << >>
    BY <1>2, <1>7 DEF Consume, ConsumeAnd, Holding, Approved, IInv, RowBound
  <2>2. passwords' = <<row.user>>
    BY <2>1
  <2>3. Stage = "agreed" /\ Stage' = "over" /\ row'.user = NoUser
    BY <2>1 DEF Stage, NoRow
  <2>4. QED
    BY <2>2, <2>3 DEF Grant!Issue, Grant!Next
<1>8. ASSUME NEW r \in Request, Bind(r) \/ LosePage(r) PROVE Grant!Next
  <2>1. /\ row' = [row EXCEPT !.user = request[r].user] /\ passwords' = passwords
        /\ row.there /\ ~ row.approved /\ row.user = NoUser /\ request[r].user \in User
    BY <1>2, <1>8 DEF Bind, LosePage, Holding, MayBind
  <2>2. row'.there /\ ~ row'.approved /\ row'.user = request[r].user
    BY <1>1, <2>1 DEF Rows
  <2>3. Stage = "open" /\ Stage' = "asked"
    BY <2>1, <2>2, LoginFlowAssumption DEF Stage
  <2>4. Grant!Ask(request[r].user)
    BY <2>1, <2>2, <2>3 DEF Grant!Ask
  <2>5. QED
    BY <2>1, <2>4 DEF Grant!Next
<1>9. ASSUME NEW r \in Request, Approve(r) PROVE Grant!Next
  <2>1. /\ row' = [row EXCEPT !.approved = TRUE, !.state = NoState] /\ passwords' = passwords
        /\ row.there /\ ~ row.approved /\ row.user \in User
    BY <1>2, <1>9 DEF Approve, Holding, MayApprove
  <2>2. row'.there /\ row'.approved /\ row'.user = row.user
    BY <1>1, <2>1 DEF Rows
  <2>3. Stage = "asked" /\ Stage' = "agreed"
    BY <2>1, <2>2, LoginFlowAssumption DEF Stage
  <2>4. QED
    BY <2>1, <2>2, <2>3 DEF Grant!Agree, Grant!Next
<1>10. QED
  BY <1>3, <1>4, <1>5, <1>6, <1>7, <1>8, <1>9 DEF Next

\* The flow's handlers, run by any number of polls and browsers, implement a grant
\* that is offered to one user and can be used once.
THEOREM FlowImplementsGrant == Spec => ImplementsGrant
<1>1. Init => Grant!Init
  <2>1. SUFFICES ASSUME Init PROVE Grant!Init
    OBVIOUS
  <2>2. row.there /\ ~ row.approved /\ row.user = NoUser /\ passwords = << >>
    BY <2>1 DEF Init, NoRow
  <2>3. QED
    BY <2>2 DEF Grant!Init, Stage
<1>2. IInv /\ [Next]_vars => [Grant!Next]_Grant!vars
  BY StepImplements
<1>3. QED
  BY <1>1, <1>2, Invariant, PTL DEF Spec, ImplementsGrant, Grant!Spec

-----------------------------------------------------------------------------
(***************************************************************************)
(* Signing in.  AdminExists is not inductive: the sign-in that inserts the *)
(* first row decided on its role two statements earlier.                   *)
(***************************************************************************)

Callbacks == [pc : {"idle", "count", "name", "insert", "dir", "root", "session"},
              who : SUBSET Person, role : Role, name : Name \cup {NoName}, created : BOOLEAN]

\* Who is past an INSERT has the row; who is about to insert has drawn a name.
CallbacksKnown ==
    \A c \in Callback :
        /\ callback[c].pc \in {"dir", "root"} => callback[c].who \subseteq DOMAIN users
        /\ callback[c].pc = "session" => callback[c].who \subseteq roots
        /\ callback[c].pc = "insert" => callback[c].name \in Name

\* As long as nobody has a row, every sign-in that has counted will be an admin's.
FirstIsAdmin ==
    DOMAIN users = {} =>
        \A c \in Callback : callback[c].pc \in {"name", "insert"} => callback[c].role = "admin"

SignInInv ==
    /\ SignInTypeOK
    /\ users \in [DOMAIN users -> [name : Name, role : Role]]
    /\ callback \in [Callback -> Callbacks]
    /\ CallbacksKnown
    /\ FirstIsAdmin
    /\ AdminExists
    /\ SignedInHasRoot

-----------------------------------------------------------------------------
\* An empty system satisfies the invariant.
LEMMA SignInInitInvariant == SignInInit => SignInInv
<1> SUFFICES ASSUME SignInInit PROVE SignInInv
  OBVIOUS
<1>1. DOMAIN users = {} /\ roots = {} /\ dirs = {} /\ sessions = {} /\ failures = 0
  BY DEF SignInInit
<1>2. NotBegun \in Callbacks /\ NotBegun.pc = "idle"
  BY DEF NotBegun, Callbacks, Role
<1>3. callback \in [Callback -> Callbacks] /\ \A c \in Callback : callback[c].pc = "idle"
  BY <1>2 DEF SignInInit
<1>4. IsInjective([p \in DOMAIN users |-> users[p].name])
  BY <1>1 DEF IsInjective
<1>5. SignInTypeOK
  BY <1>1, <1>3, <1>4, SignInAssumption DEF SignInTypeOK, Callbacks
<1>6. CallbacksKnown /\ FirstIsAdmin
  BY <1>3 DEF CallbacksKnown, FirstIsAdmin
<1>7. AdminExists /\ SignedInHasRoot
  BY <1>1 DEF AdminExists, SignedInHasRoot
<1>8. users \in [DOMAIN users -> [name : Name, role : Role]]
  BY DEF SignInInit
<1>9. QED
  BY <1>3, <1>5, <1>6, <1>7, <1>8 DEF SignInInv

\* A step of one sign-in that leaves table users alone.
LEMMA CallbackStep ==
    ASSUME SignInInv, NEW c \in Callback, NEW s \in Callbacks,
           callback' = [callback EXCEPT ![c] = s], users' = users,
           s.pc \in {"dir", "root"} => s.who \subseteq DOMAIN users,
           s.pc = "session" => s.who \subseteq roots', roots \subseteq roots',
           s.pc = "insert" => s.name \in Name,
           DOMAIN users = {} /\ s.pc \in {"name", "insert"} => s.role = "admin",
           roots' \subseteq DOMAIN users, dirs' \subseteq DOMAIN users,
           sessions' \subseteq roots', failures' \in 0..MaxFailures
    PROVE  SignInInv'
<1>1. /\ callback' \in [Callback -> Callbacks] /\ callback'[c] = s
      /\ \A d \in Callback \ {c} : callback'[d] = callback[d]
  BY DEF SignInInv
<1>2. CallbacksKnown' /\ FirstIsAdmin'
  BY <1>1 DEF SignInInv, CallbacksKnown, FirstIsAdmin
<1>3. SignInTypeOK'
  BY <1>1 DEF SignInInv, SignInTypeOK, Callbacks
<1>4. AdminExists' /\ SignedInHasRoot'
  BY DEF SignInInv, AdminExists, Admins, SignedInHasRoot
<1>5. QED
  BY <1>1, <1>2, <1>3, <1>4 DEF SignInInv

\* The INSERT of a new person: the name is nobody else's, and the first one is an
\* admin.
LEMMA NewRow ==
    ASSUME SignInInv, NEW c \in Callback, NEW p \in Person \ DOMAIN users,
           callback[c].name \notin Names, Upsert(c, p, NewAccount(c))
    PROVE  SignInInv'
<1> DEFINE name == callback[c].name
           role == callback[c].role
<1>1. /\ callback[c].pc = "insert" /\ callback[c].who = {p}
      /\ name \in Name /\ role \in Role
      /\ UNCHANGED <<roots, dirs, sessions, failures>>
  BY DEF Upsert, SignInInv, SignInTypeOK, CallbacksKnown
<1>2. /\ DOMAIN users' = DOMAIN users \cup {p}
      /\ users'[p].name = name /\ users'[p].role = role
      /\ \A q \in DOMAIN users : users'[q] = users[q]
  BY DEF Upsert, NewAccount
<1>3. /\ callback' \in [Callback -> Callbacks]
      /\ callback'[c].pc = "dir" /\ callback'[c].who = {p}
      /\ \A d \in Callback \ {c} : callback'[d] = callback[d]
  BY <1>1 DEF Upsert, Goto, SignInInv, Callbacks
<1>4. \A q \in DOMAIN users : users[q].name # name
  BY DEF Names
<1>5. users' \in [DOMAIN users' -> [name : Name, role : Role]]
  BY <1>1, <1>2 DEF Upsert, NewAccount, SignInInv
<1>6. IsInjective([q \in DOMAIN users' |-> users'[q].name])
  BY <1>2, <1>4 DEF SignInInv, SignInTypeOK, IsInjective
<1>7. SignInTypeOK'
  BY <1>1, <1>2, <1>3, <1>6 DEF SignInInv, SignInTypeOK, Callbacks
<1>8. CallbacksKnown' /\ FirstIsAdmin'
  BY <1>1, <1>2, <1>3 DEF SignInInv, CallbacksKnown, FirstIsAdmin
<1>9. AdminExists'
  <2>1. CASE DOMAIN users = {}
    <3>1. role = "admin"
      BY <1>1, <2>1 DEF SignInInv, FirstIsAdmin
    <3>2. QED
      BY <1>2, <3>1 DEF AdminExists, Admins
  <2>2. CASE DOMAIN users # {}
    BY <1>2, <2>2 DEF SignInInv, AdminExists, Admins
  <2>3. QED
    BY <2>1, <2>2
<1>10. SignedInHasRoot'
  BY <1>1 DEF SignInInv, SignedInHasRoot
<1>11. QED
  BY <1>3, <1>5, <1>7, <1>8, <1>9, <1>10 DEF SignInInv

\* ON CONFLICT DO UPDATE: whoever has a row keeps it as it is.
LEMMA SameRow ==
    ASSUME SignInInv, NEW c \in Callback, NEW p \in DOMAIN users, Upsert(c, p, users[p])
    PROVE  users' = users
<1>1. DOMAIN users \cup {p} = DOMAIN users
  OBVIOUS
<1>2. users' = [q \in DOMAIN users |-> users[q]]
  BY <1>1 DEF Upsert
<1>3. QED
  BY <1>2 DEF SignInInv

\* Each statement of a sign-in preserves the invariant.
LEMMA StatementInvariant ==
    ASSUME SignInInv, NEW c \in Callback,
           \/ \E p \in Person : Begin(c, p)
           \/ Count(c) \/ Choose(c) \/ Insert(c) \/ NameTaken(c) \/ MakeDir(c) \/ InsertRoot(c)
           \/ SaveSession(c) \/ FailRoot(c) \/ FailCallback(c) \/ NoNameLeft(c)
    PROVE  SignInInv'
<1> DEFINE who == callback[c].who
<1>1. /\ callback[c] \in Callbacks /\ NotBegun \in Callbacks /\ NotBegun.pc = "idle"
      /\ roots \subseteq DOMAIN users /\ dirs \subseteq DOMAIN users
      /\ sessions \subseteq roots /\ failures \in 0..MaxFailures
      /\ callback[c].pc \in {"dir", "root"} => who \subseteq DOMAIN users
      /\ callback[c].pc = "session" => who \subseteq roots
  BY DEF SignInInv, SignInTypeOK, CallbacksKnown, SignedInHasRoot, NotBegun, Callbacks, Role
<1>2. CASE \E p \in Person : Begin(c, p)
  <2>1. PICK p \in Person : Begin(c, p)
    BY <1>2
  <2> DEFINE s == [NotBegun EXCEPT !.pc = "count", !.who = {p}]
  <2>2. s \in Callbacks /\ s.pc = "count"
    BY <1>1 DEF Callbacks
  <2>3. /\ callback' = [callback EXCEPT ![c] = s]
        /\ UNCHANGED <<users, roots, dirs, sessions, failures>>
    BY <2>1 DEF Begin
  <2> HIDE DEF s
  <2>4. QED
    BY <1>1, <2>2, <2>3, CallbackStep
<1>3. CASE Count(c)
  <2> DEFINE role == IF IsFirst(Cardinality(DOMAIN users)) THEN "admin" ELSE "user"
             s == [callback[c] EXCEPT !.pc = "name", !.role = role]
  <2>1. DOMAIN users = {} => role = "admin"
    BY FS_EmptySet DEF IsFirst
  <2>2. role \in Role
    BY DEF Role
  <2> HIDE DEF role
  <2>3. s \in Callbacks /\ s.pc = "name" /\ s.role = role
    BY <1>1, <2>2 DEF Callbacks
  <2>4. /\ callback' = [callback EXCEPT ![c] = s]
        /\ UNCHANGED <<users, roots, dirs, sessions, failures>>
    BY <1>3 DEF Count, role, SignInInv
  <2> HIDE DEF s
  <2>5. QED
    BY <1>1, <2>1, <2>3, <2>4, CallbackStep
<1>4. CASE Choose(c)
  <2>1. PICK n \in Name \ Names :
               callback' = [callback EXCEPT ![c].pc = "insert", ![c].name = n]
    BY <1>4 DEF Choose
  <2> DEFINE s == [callback[c] EXCEPT !.pc = "insert", !.name = n]
  <2>2. s \in Callbacks /\ s.pc = "insert" /\ s.name = n /\ s.role = callback[c].role
    BY <1>1 DEF Callbacks
  <2>3. /\ callback' = [callback EXCEPT ![c] = s]
        /\ UNCHANGED <<users, roots, dirs, sessions, failures>>
    BY <1>4, <2>1 DEF Choose, SignInInv
  <2>4. DOMAIN users = {} => callback[c].role = "admin"
    BY <1>4 DEF Choose, SignInInv, FirstIsAdmin
  <2> HIDE DEF s
  <2>5. QED
    BY <1>1, <2>2, <2>3, <2>4, CallbackStep
<1>5. CASE Insert(c)
  <2>1. CASE \E p \in Person \ DOMAIN users :
                callback[c].name \notin Names /\ Upsert(c, p, NewAccount(c))
    BY <2>1, NewRow
  <2>2. CASE \E p \in Person : p \in DOMAIN users /\ Upsert(c, p, users[p])
    <3>1. PICK p \in DOMAIN users : Upsert(c, p, users[p])
      BY <2>2
    <3> DEFINE s == [callback[c] EXCEPT !.pc = "dir"]
    <3>2. s \in Callbacks /\ s.pc = "dir" /\ s.who = {p}
      BY <1>1, <3>1 DEF Callbacks, Upsert
    <3>3. /\ callback' = [callback EXCEPT ![c] = s]
          /\ UNCHANGED <<users, roots, dirs, sessions, failures>>
      BY <3>1, SameRow DEF Upsert, Goto, SignInInv
    <3> HIDE DEF s
    <3>4. QED
      BY <1>1, <3>2, <3>3, CallbackStep
  <2>3. QED
    BY <1>5, <2>1, <2>2 DEF Insert
<1>6. CASE MakeDir(c)
  <2> DEFINE s == [callback[c] EXCEPT !.pc = "root", !.created = ~ who \subseteq dirs]
  <2>1. s \in Callbacks /\ s.pc = "root" /\ s.who = who
    BY <1>1 DEF Callbacks
  <2>2. /\ callback' = [callback EXCEPT ![c] = s] /\ dirs' = dirs \cup who
        /\ UNCHANGED <<users, roots, sessions, failures>> /\ who \subseteq DOMAIN users
    BY <1>1, <1>6 DEF MakeDir, SignInInv
  <2> HIDE DEF s
  <2>3. QED
    BY <1>1, <2>1, <2>2, CallbackStep
<1>7. CASE InsertRoot(c)
  <2> DEFINE s == [callback[c] EXCEPT !.pc = "session"]
  <2>1. s \in Callbacks /\ s.pc = "session" /\ s.who = who
    BY <1>1 DEF Callbacks
  <2>2. /\ callback' = [callback EXCEPT ![c] = s] /\ roots' = roots \cup who
        /\ UNCHANGED <<users, dirs, sessions, failures>> /\ who \subseteq DOMAIN users
    BY <1>1, <1>7 DEF InsertRoot, Goto, SignInInv
  <2> HIDE DEF s
  <2>3. QED
    BY <1>1, <2>1, <2>2, CallbackStep
<1>8. CASE FailRoot(c)
  <2>1. /\ callback' = [callback EXCEPT ![c] = NotBegun]
        /\ dirs' \subseteq dirs /\ UNCHANGED <<users, roots, sessions>>
    BY <1>8 DEF FailRoot, EndCallback
  <2>2. failures' \in 0..MaxFailures
    BY <1>1, <1>8, SignInAssumption DEF FailRoot
  <2>3. QED
    BY <1>1, <2>1, <2>2, CallbackStep
<1>9. CASE NameTaken(c) \/ FailCallback(c) \/ NoNameLeft(c)
  <2>1. /\ callback' = [callback EXCEPT ![c] = NotBegun]
        /\ UNCHANGED <<users, roots, dirs, sessions>>
    BY <1>9 DEF NameTaken, FailCallback, NoNameLeft, EndCallback
  <2>2. failures' \in 0..MaxFailures
    BY <1>1, <1>9, SignInAssumption DEF NameTaken, FailCallback, NoNameLeft
  <2>3. QED
    BY <1>1, <2>1, <2>2, CallbackStep
<1>10. CASE SaveSession(c)
  <2>1. /\ callback' = [callback EXCEPT ![c] = NotBegun]
        /\ sessions' = sessions \cup who /\ who \subseteq roots
        /\ UNCHANGED <<users, roots, dirs, failures>>
    BY <1>1, <1>10 DEF SaveSession, EndCallback
  <2>2. QED
    BY <1>1, <2>1, CallbackStep
<1>11. QED
  BY <1>2, <1>3, <1>4, <1>5, <1>6, <1>7, <1>8, <1>9, <1>10

\* Every step preserves the invariant.
LEMMA SignInStepInvariant == SignInInv /\ [SignInNext]_signInVars => SignInInv'
<1> SUFFICES ASSUME SignInInv, [SignInNext]_signInVars PROVE SignInInv'
  OBVIOUS
<1>1. CASE UNCHANGED signInVars
  BY <1>1 DEF signInVars, SignInInv, SignInTypeOK, CallbacksKnown, FirstIsAdmin,
              AdminExists, Admins, SignedInHasRoot
<1>2. CASE SignInNext
  BY <1>2, StatementInvariant DEF SignInNext
<1>3. QED
  BY <1>1, <1>2

\* No step changes the name or the role of a row, or removes it.
LEMMA StepKeepsAccounts ==
    SignInInv /\ [SignInNext]_signInVars
        => \A p \in DOMAIN users : p \in DOMAIN users' /\ users'[p] = users[p]
<1> SUFFICES ASSUME SignInInv, [SignInNext]_signInVars, NEW p \in DOMAIN users
             PROVE  p \in DOMAIN users' /\ users'[p] = users[p]
  OBVIOUS
<1>1. ASSUME NEW c \in Callback, Insert(c)
      PROVE  p \in DOMAIN users' /\ users'[p] = users[p]
  <2>1. CASE \E q \in Person \ DOMAIN users : Upsert(c, q, NewAccount(c))
    BY <2>1 DEF Upsert
  <2>2. CASE \E q \in DOMAIN users : Upsert(c, q, users[q])
    BY <2>2, SameRow
  <2>3. QED
    BY <1>1, <2>1, <2>2 DEF Insert
<1>2. CASE users' = users
  BY <1>2
<1>3. ASSUME NEW c \in Callback,
             \/ \E q \in Person : Begin(c, q)
             \/ Count(c) \/ Choose(c) \/ NameTaken(c) \/ MakeDir(c) \/ InsertRoot(c)
             \/ SaveSession(c) \/ FailRoot(c) \/ FailCallback(c) \/ NoNameLeft(c)
      PROVE  users' = users
  BY <1>3 DEF Begin, Count, Choose, NameTaken, MakeDir, InsertRoot, SaveSession,
              FailRoot, FailCallback, NoNameLeft
<1>4. QED
  BY <1>1, <1>2, <1>3 DEF SignInNext, signInVars

-----------------------------------------------------------------------------
\* The inductive invariant holds in every reachable state: as long as table users
\* is empty, every sign-in under way is one that has counted no user.
THEOREM SignInInvariant == SignInSpec => []SignInInv
<1>1. QED
  BY SignInInitInvariant, SignInStepInvariant, PTL DEF SignInSpec

\* Rows, directories and sessions keep their types, and no two people share a
\* user name, however many sign-ins draw the same one.
THEOREM SignInTypeCorrect == SignInSpec => []SignInTypeOK
<1>1. SignInInv => SignInTypeOK
  BY DEF SignInInv
<1>2. QED
  BY <1>1, SignInInvariant, PTL

\* AuthCallbackHandler counts the users and inserts the row in separate statements;
\* however the first sign-ins overlap and fail, some user is an administrator.
THEOREM SomeAdmin == SignInSpec => []AdminExists
<1>1. SignInInv => AdminExists
  BY DEF SignInInv
<1>2. QED
  BY <1>1, SignInInvariant, PTL

\* AuthCallbackHandler inserts the root row and saves the session in two steps, either
\* of which may fail; nobody is signed in without the row, however sign-ins of one
\* person overlap.
THEOREM RootBeforeSession == SignInSpec => []SignedInHasRoot
<1>1. SignInInv => SignedInHasRoot
  BY DEF SignInInv
<1>2. QED
  BY <1>1, SignInInvariant, PTL

\* The upsert of AuthCallbackHandler never changes or removes an account.
THEOREM AccountsUnchanged == SignInSpec => AccountsKept
<1>1. SignInInv /\ [SignInNext]_signInVars
        => [\A p \in DOMAIN users : p \in DOMAIN users' /\ users'[p] = users[p]]_signInVars
  BY StepKeepsAccounts
<1>2. QED
  BY <1>1, SignInInvariant, PTL DEF SignInSpec, AccountsKept
=============================================================================
