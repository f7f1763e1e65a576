------------------------------ MODULE MCClient ------------------------------
(***************************************************************************)
(* Client on small instances: the .cfg files say which budgets a behaviour *)
(* may have.                                                               *)
(***************************************************************************)
EXTENDS Client, TLC

CONSTANTS u1, u2

TwoUrls == {u1, u2}

\* One connection, and nothing else.
Plain == [urls |-> {u1}, answers |-> {"AUTHORIZED"}, links |-> 1, channels |-> 0,
          auths |-> 0, disconnects |-> 0, fails |-> 0, stalls |-> 0,
          requests |-> FALSE, announces |-> FALSE]

\* A channel is opened and asked for, the server authorizes the user unasked,
\* and its peer stops reading, for a while or for good.
Opens == [Plain EXCEPT !.channels = 1, !.requests = TRUE, !.announces = TRUE, !.stalls = 1]

\* A change of address; one connection after the other, with a disconnect.
Moves   == [Plain EXCEPT !.urls = {u1, u2}, !.links = 2]
Returns == [Plain EXCEPT !.links = 2, !.disconnects = 1]

\* The link is lost, with a channel open, or with any answer to AUTH and a disconnect.
Loses  == [Plain EXCEPT !.auths = 1, !.channels = 1, !.fails = 1]
Leaves == [Plain EXCEPT !.answers = Answers, !.auths = 1, !.disconnects = 1, !.fails = 1]

CheckBudgets == {Opens, Moves, Returns, Loses, Leaves}

\* What each finding needs: one connection; a disconnect; a change of address; a
\* failure that the same address is dialled again after; a channel.
DialBudgets  == {Plain}
LeaveBudgets == {[Plain EXCEPT !.disconnects = 1]}
MoveBudgets  == {[Plain EXCEPT !.urls = {u1, u2}, !.links = 2]}
LoseBudgets  == {[Plain EXCEPT !.links = 2, !.auths = 1, !.fails = 1]}
CloseBudgets == {[Plain EXCEPT !.channels = 1, !.requests = TRUE]}

\* Bound: tasks spawned and not finished, where failures make many of them.
FewTasks == bound.fails > 0 => BagCardinality(pool) <= 3
=============================================================================
