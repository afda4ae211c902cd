------------------------------ MODULE ChatTurn ------------------------------
(***************************************************************************)
(* What the users of one conversation thread may rely on, with no graph,   *)
(* no checkpoint and no channels.  The thread belongs to the first who     *)
(* asks.  A question is looked up, in each of the sources it asks for      *)
(* once; then the text is told, and then one answer is given that is true  *)
(* to what was looked up.  After a failure nothing is sent.  ChatRun       *)
(* implements it.                                                          *)
(***************************************************************************)
EXTENDS Sequences

CONSTANTS
    Turns, Users, NoUser, None,
    Sources,
    Looks,    \* what may come of a look into a source: pairs <<source, result>>
    Failed,   \* those in which the source is unavailable
    Found,    \* the facts that each of them found
    Proven    \* those that it cites its own citations for

VARIABLES
    owner,    \* the user whom the thread belongs to
    phase,    \* where each turn is
    user, valid, asked,   \* its question: whose, whether it is valid, the sources it asks for
    looked,   \* what came of the looks into its sources
    answer,
    sent      \* what was sent of it

question == <<user, valid, asked>>

vars == <<owner, phase, question, looked, answer, sent>>

Event(name, t) == [event |-> name, by |-> t]

\* The turn goes on, and the user is told.
Send(t, next, name) ==
    /\ phase' = [phase EXCEPT ![t] = next]
    /\ sent' = [sent EXCEPT ![t] = Append(@, Event(name, t))]

\* All of what was vouched for is in an answer, and nothing that was not found.  The
\* sources that failed are named; it is complete if there are none, and it has failed
\* only if it is empty.
Truthful(looks) ==
    LET facts == UNION {Found[l] : l \in looks}
        unavailable == {l[1] : l \in looks \cap Failed}
    IN  {a \in [facts : SUBSET facts, unavailable : {unavailable},
                status : {"completed", "partial", "failed"}] :
           /\ \A l \in looks : Proven[l] \subseteq a.facts
           /\ a.status = "completed" <=> unavailable = {}
           /\ a.status = "failed" => a.facts = {}}

\* A question is not valid, or it asks for some sources; one that is vague asks for none.
Ask(t) ==
    /\ phase[t] = "new"
    /\ phase' = [phase EXCEPT ![t] = "asked"]
    /\ \E u \in Users : user' = [user EXCEPT ![t] = u]
    /\ \E v \in BOOLEAN, S \in SUBSET Sources :
        /\ ~v => S = {}
        /\ valid' = [valid EXCEPT ![t] = v]
        /\ asked' = [asked EXCEPT ![t] = S]
    /\ UNCHANGED <<owner, looked, answer, sent>>

Own(t) ==
    /\ phase[t] = "asked" /\ owner = NoUser
    /\ owner' = user[t]
    /\ UNCHANGED <<phase, question, looked, answer, sent>>

Start(t) ==
    /\ phase[t] = "asked" /\ owner = user[t]
    /\ Send(t, "looking", "run.started")
    /\ UNCHANGED <<owner, question, looked, answer>>

\* Nobody looks where nobody asked to, but for a vague question anywhere; and nowhere
\* twice.
Look(t, l) ==
    /\ phase[t] = "looking"
    /\ valid[t] /\ (asked[t] # {} => l[1] \in asked[t])
    /\ \A k \in looked[t] : k[1] # l[1]
    /\ looked' = [looked EXCEPT ![t] = @ \cup {l}]
    /\ UNCHANGED <<owner, phase, question, answer, sent>>

\* Every source that was asked for has been looked into.
Tell(t) ==
    /\ phase[t] = "looking"
    /\ \A s \in asked[t] : \E l \in looked[t] : l[1] = s
    /\ Send(t, "telling", "answer.delta")
    /\ UNCHANGED <<owner, question, looked, answer>>

Answer(t) ==
    /\ phase[t] = "telling"
    /\ \E a \in Truthful(looked[t]) : answer' = [answer EXCEPT ![t] = a]
    /\ Send(t, "answered", "answer.completed")
    /\ UNCHANGED <<owner, question, looked>>

\* All but what was sent is forgotten.
Forget(t) ==
    /\ valid' = [valid EXCEPT ![t] = FALSE]
    /\ asked' = [asked EXCEPT ![t] = {}]
    /\ looked' = [looked EXCEPT ![t] = {}]
    /\ answer' = [answer EXCEPT ![t] = None]
    /\ UNCHANGED <<owner, user>>

\* The turn is over, after its answer or because the user has left before.
End(t) ==
    /\ phase[t] \notin {"new", "over"}
    /\ phase' = [phase EXCEPT ![t] = "over"]
    /\ Forget(t)
    /\ UNCHANGED sent

Fail(t) ==
    /\ phase[t] \notin {"new", "over"}
    /\ Send(t, "over", "run.failed")
    /\ Forget(t)

Init ==
    /\ owner = NoUser
    /\ phase = [t \in Turns |-> "new"]
    /\ user = [t \in Turns |-> NoUser]
    /\ valid = [t \in Turns |-> FALSE]
    /\ asked = [t \in Turns |-> {}]
    /\ looked = [t \in Turns |-> {}]
    /\ answer = [t \in Turns |-> None]
    /\ sent = [t \in Turns |-> <<>>]

Next ==
    \E t \in Turns :
        \/ Ask(t) \/ Own(t) \/ Start(t) \/ Tell(t) \/ Answer(t)
        \/ \E l \in Looks : Look(t, l)
        \/ End(t) \/ Fail(t)

Spec == Init /\ [][Next]_vars
=============================================================================
