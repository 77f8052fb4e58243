------------------------------ MODULE LoginFlow ------------------------------
(***************************************************************************)
(* One login flow of a client (Login flow v2, handlers/auth.go): the       *)
(* client asks for a flow and polls it, the user opens the flow's address  *)
(* in a browser, is shown the grant page and approves, and the next poll   *)
(* turns the approved flow into an app password.  The flow is one row of   *)
(* login_v2_sessions; polls and grants read it FOR UPDATE, the janitor and *)
(* the flow's address change it with one statement.                        *)
(***************************************************************************)
EXTENDS Naturals, Sequences, SequencesExt

CONSTANTS User, NoUser,
          Request,      \* polls and grants that may run at the same time
          MaxVisits,    \* bound: how often the flow's address is opened
          MaxFaults     \* bound: failed transactions and lost answers

ASSUME LoginFlowAssumption == NoUser \notin User /\ MaxVisits \in Nat /\ MaxFaults \in Nat

NoState == 0            \* state_token is NULL
State == 1..MaxVisits   \* the state tokens, in the order in which they are drawn

VARIABLES row,        \* the flow's row, NoRow before it is made and once it is deleted
          expired,    \* whether expires_at is past
          drawn,      \* the last state token drawn
          pages,      \* grant pages shown: [user, state]
          request,    \* what each poll and grant is doing
          passwords,  \* the users for whom this flow was turned into an app password, in order
          approvals,  \* users who have been told that their client is connected
          faults

vars == <<row, expired, drawn, pages, request, passwords, approvals, faults>>

NoRow == [there |-> FALSE, state |-> NoState, user |-> NoUser, approved |-> FALSE]
Idle == [pc |-> "idle", kind |-> "poll", user |-> NoUser, state |-> NoState, flow |-> NoRow]

\* LoginV2Handler has inserted the row and answered.
Init ==
    /\ row = [NoRow EXCEPT !.there = TRUE]
    /\ expired = FALSE
    /\ drawn = NoState
    /\ pages = {}
    /\ request = [r \in Request |-> Idle]
    /\ passwords = << >>
    /\ approvals = {}
    /\ faults = 0

\* FOR UPDATE: the row belongs to the transaction that has read it.
NeverLocked == FALSE    \* faulty variant: without FOR UPDATE
RowLocked == \E r \in Request : request[r].pc = "holding"

End(r) == request' = [request EXCEPT ![r] = Idle]

-----------------------------------------------------------------------------
\* LoginV2FlowHandler: a fresh state token, and on to the grant page.
Visit ==
    /\ drawn < MaxVisits
    /\ row.there /\ ~ row.approved /\ ~ expired /\ ~ RowLocked
    /\ drawn' = drawn + 1
    /\ row' = [row EXCEPT !.state = drawn']
    /\ UNCHANGED <<expired, pages, request, passwords, approvals, faults>>

Start(r, kind, u, s) ==
    /\ request[r].pc = "idle"
    /\ request' = [request EXCEPT ![r] = [Idle EXCEPT !.pc = "begun", !.kind = kind,
                                                      !.user = u, !.state = s]]
    /\ UNCHANGED <<row, expired, drawn, pages, passwords, approvals, faults>>

Poll(r) == Start(r, "poll", NoUser, NoState)

\* The browser follows the redirect, or somebody reloads an old page.
OpenGrant(r) == \E u \in User, s \in 1..drawn : Start(r, "get", u, s)

\* The form of a grant page is sent, perhaps after another user has signed in.
SendGrant(r) == \E u \in User, p \in pages : Start(r, "post", u, p.state)

\* The row that a poll or a grant selects.
SelectedOpen(r) ==    \* faulty variant: a poll misses the approved row
    /\ row.there /\ ~ row.approved
    /\ request[r].kind # "poll" => row.state = request[r].state
Selected(r) ==
    /\ row.there
    /\ request[r].kind # "poll" => row.state = request[r].state /\ ~ row.approved

\* SELECT ... FOR UPDATE
Select(r) ==
    /\ request[r].pc = "begun"
    /\ ~ RowLocked
    /\ IF Selected(r)
       THEN request' = [request EXCEPT ![r].pc = "holding", ![r].flow = row]
       ELSE End(r)    \* 403, 404
    /\ UNCHANGED <<row, expired, drawn, pages, passwords, approvals, faults>>

Holding(r, kind) == request[r].pc = "holding" /\ request[r].kind = kind

-----------------------------------------------------------------------------
(* LoginV2PollHandler.                                                     *)

Approved(flow) == flow.approved /\ flow.user # NoUser

PollExpired(r) ==
    /\ Holding(r, "poll") /\ expired
    /\ row' = NoRow
    /\ End(r)
    /\ UNCHANGED <<expired, drawn, pages, passwords, approvals, faults>>

PollPending(r) ==
    /\ Holding(r, "poll") /\ ~ expired /\ ~ Approved(request[r].flow)
    /\ End(r)
    /\ UNCHANGED <<row, expired, drawn, pages, passwords, approvals, faults>>

\* DELETE, INSERT INTO app_passwords, commit.
ConsumeAnd(r, rest) ==
    /\ Holding(r, "poll") /\ ~ expired /\ Approved(request[r].flow)
    /\ row' = rest
    /\ passwords' = Append(passwords, request[r].flow.user)
    /\ End(r)
    /\ UNCHANGED <<expired, drawn, pages, approvals, faults>>
ConsumeAndKeep(r) == ConsumeAnd(r, row)    \* faulty variant: the row is not deleted
Consume(r) == ConsumeAnd(r, NoRow)

-----------------------------------------------------------------------------
(* GrantHandler.                                                           *)

\* A flow is bound to the first user who opens its page, and approved by that user.
MayBindAnew(r) == TRUE    \* faulty variant: a flow that is bound already is bound again
MayBind(r) == request[r].flow.user = NoUser
MayApproveForOther(r) == request[r].flow.user # NoUser    \* faulty variant
MayApprove(r) == request[r].flow.user = request[r].user

\* GET binds the flow to the user and shows the page.
Bind(r) ==
    /\ Holding(r, "get") /\ ~ expired /\ MayBind(r)
    /\ row' = [row EXCEPT !.user = request[r].user]
    /\ pages' = pages \cup {[user |-> request[r].user, state |-> request[r].state]}
    /\ End(r)
    /\ UNCHANGED <<expired, drawn, passwords, approvals, faults>>

\* POST
Approve(r) ==
    /\ Holding(r, "post") /\ ~ expired /\ MayApprove(r)
    /\ row' = [row EXCEPT !.approved = TRUE, !.state = NoState]
    /\ approvals' = approvals \cup {request[r].user}
    /\ End(r)
    /\ UNCHANGED <<expired, drawn, pages, passwords, faults>>

\* 403, 410
Refuse(r) ==
    /\ \/ Holding(r, "get") /\ (expired \/ ~ MayBind(r))
       \/ Holding(r, "post") /\ (expired \/ ~ MayApprove(r))
    /\ End(r)
    /\ UNCHANGED <<row, expired, drawn, pages, passwords, approvals, faults>>

-----------------------------------------------------------------------------
\* A statement fails or the client goes away: the transaction is rolled back.
Fail(r) ==
    /\ faults < MaxFaults
    /\ request[r].pc # "idle"
    /\ faults' = faults + 1
    /\ End(r)
    /\ UNCHANGED <<row, expired, drawn, pages, passwords, approvals>>

\* GET has committed and the page does not arrive (csrfToken fails, the connection
\* is gone): the flow is bound to a user who has not been asked.
LosePage(r) ==
    /\ faults < MaxFaults
    /\ Holding(r, "get") /\ ~ expired /\ MayBind(r)
    /\ faults' = faults + 1
    /\ row' = [row EXCEPT !.user = request[r].user]
    /\ End(r)
    /\ UNCHANGED <<expired, drawn, pages, passwords, approvals>>

Expire ==
    /\ ~ expired
    /\ expired' = TRUE
    /\ UNCHANGED <<row, drawn, pages, request, passwords, approvals, faults>>

\* The janitor.
Purge ==
    /\ expired /\ row.there /\ ~ RowLocked
    /\ row' = NoRow
    /\ UNCHANGED <<expired, drawn, pages, request, passwords, approvals, faults>>

Next ==
    \/ Visit \/ Expire \/ Purge
    \/ \E r \in Request :
        \/ Poll(r) \/ OpenGrant(r) \/ SendGrant(r) \/ Select(r)
        \/ PollExpired(r) \/ PollPending(r) \/ Consume(r)
        \/ Bind(r) \/ Approve(r) \/ Refuse(r) \/ Fail(r) \/ LosePage(r)

Spec == Init /\ [][Next]_vars

\* The client keeps polling, every request ends, and PostgreSQL gives the row to the
\* requests in the order in which they asked for it.
Fairness ==
    /\ \A r \in Request :
        /\ SF_vars(Poll(r))
        /\ SF_vars(Select(r))
        /\ WF_vars(PollExpired(r) \/ PollPending(r) \/ Consume(r)
                   \/ Bind(r) \/ Approve(r) \/ Refuse(r))

FairSpec == Spec /\ Fairness

-----------------------------------------------------------------------------
\* Type invariant; a transaction that holds the row has read what it still is.
TypeOK ==
    /\ row.there \in BOOLEAN /\ row.state \in {NoState} \cup State
    /\ row.user \in User \cup {NoUser} /\ row.approved \in BOOLEAN
    /\ expired \in BOOLEAN /\ drawn \in {NoState} \cup State /\ faults \in 0..MaxFaults
    /\ pages \subseteq [user : User, state : State]
    /\ passwords \in Seq(User)
    /\ approvals \subseteq User
    /\ \A r \in Request :
          /\ request[r].pc \in {"idle", "begun", "holding"}
          /\ request[r].pc = "holding" => request[r].flow = row

\* A flow is turned into at most one app password, however many polls run at once
\* ("so it can only be consumed once"), and no approval is possible afterwards.
ConsumedOnce ==
    passwords # << >> => Len(passwords) = 1 /\ ~ row.there

\* The app password belongs to the user who was shown the grant page and sent its
\* form, whoever else has opened the flow or sent a form.
IssuedAsApproved ==
    \A u \in ToSet(passwords) : approvals = {u} /\ \E p \in pages : p.user = u

\* Two users are never both asked to connect the same client.
OneUserAsked == \A p, q \in pages : p.user = q.user

\* An approved flow becomes an app password, unless it runs out first.
ApprovedIsServed == row.approved ~> passwords # << >> \/ expired

\* The flow keeps the promise of a grant that can be used once: it is bound to one user,
\* approved by that user only and turned into one app password of that user, or it ends.
Stage == IF ~ row.there THEN "over"
         ELSE IF row.approved THEN "agreed"
         ELSE IF row.user = NoUser THEN "open" ELSE "asked"
Grant == INSTANCE OneShotGrant WITH stage <- Stage, asked <- row.user, issued <- passwords
ImplementsGrant == Grant!Spec
=============================================================================
