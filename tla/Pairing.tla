------------------------------ MODULE Pairing -------------------------------
(***************************************************************************)
(* Pairing: two users confirm the same code, each on its own machine       *)
(* (legato-net/src/pairing.rs, the list of peers in store.rs and lib.rs,   *)
(* and the pairing messages of legato-app/src/main.rs).                    *)
(*                                                                         *)
(* A connection is made for one attempt.  Each of its ends is an attempt   *)
(* handed to the app, which holds at most one and answers it when its user *)
(* does; the answer is sent, and the other's awaited, on a task.  The code *)
(* both show is derived from the connection, so it is the connection here. *)
(***************************************************************************)
EXTENDS Naturals, Sequences, FiniteSets

CONSTANTS
    Machines,
    MaxAttempts,    \* bound: pairings started
    MaxTroubles     \* bound: kinds of trouble that happen, once each

ASSUME PairingAssumption == MaxAttempts \in Nat /\ MaxTroubles \in Nat

VARIABLES
    app,        \* [Machines -> the attempt it holds, and its dialog]
    messages,   \* [Machines -> results of tasks the app has not handled]
    busy,       \* [Machines -> whether an incoming attempt is under way]
    conns,      \* the connections made, as a sequence
    paired,     \* [Machines -> peers saved]
    allowed,    \* [Machines -> peers that may open sessions]
    troubles    \* what went wrong, or was undone

vars == <<app, messages, busy, conns, paired, allowed, troubles>>

Ends == {"caller", "callee"}
Other(e) == IF e = "caller" THEN "callee" ELSE "caller"
Steps == {"calling", "ringing", "greeting", "held", "waiting", "declining", "refusing",
          "closing", "saving", "allowing", "over"}

NoDialog == [attempt |-> 0, open |-> FALSE, stage |-> "connecting", code |-> 0]

Init ==
    /\ app = [m \in Machines |-> NoDialog]
    /\ messages = [m \in Machines |-> {}]
    /\ busy = [m \in Machines |-> FALSE]
    /\ conns = <<>>
    /\ paired = [m \in Machines |-> {}]
    /\ allowed = [m \in Machines |-> {}]
    /\ troubles = {}

Trouble(kind) ==
    /\ kind \notin troubles /\ Cardinality(troubles) < MaxTroubles
    /\ troubles' = troubles \cup {kind}

At(c, e) == conns[c].machine[e]
Step(c, e) == conns[c].step[e]
Tell(m, msg) == messages' = [messages EXCEPT ![m] = @ \cup {msg}]
Finished(c) == [kind |-> "finished", conn |-> c]

-----------------------------------------------------------------------------
(* Starting: initiate, and the handler of incoming connections. *)

(* Message::Pair: its dialog is modal, so none is open. *)
Pair(m, p) ==
    /\ m # p /\ ~app[m].open /\ Len(conns) < MaxAttempts
    /\ app' = [app EXCEPT ![m] = [@ EXCEPT !.open = TRUE, !.stage = "connecting", !.code = 0]]
    /\ conns' = Append(conns,
         [machine |-> [e \in Ends |-> IF e = "caller" THEN m ELSE p],
          step |-> [e \in Ends |-> IF e = "caller" THEN "calling" ELSE "ringing"],
          said |-> [e \in Ends |-> "nothing"], heard |-> [e \in Ends |-> "nothing"],
          greeted |-> FALSE, open |-> TRUE])
    /\ UNCHANGED <<messages, busy, paired, allowed, troubles>>

(* One incoming pairing at a time. *)
Accept(c) ==
    /\ Step(c, "callee") = "ringing"
    /\ LET m == At(c, "callee")
           taken == conns[c].open /\ ~busy[m]
       IN  /\ busy' = [busy EXCEPT ![m] = @ \/ taken]
           /\ conns' = [conns EXCEPT
                 ![c].step["callee"] = IF taken THEN "greeting" ELSE "over",
                 ![c].open = taken]
    /\ UNCHANGED <<app, messages, paired, allowed, troubles>>

(* BusyGuard::drop, when an end that holds it goes. *)
Release(c, e) ==
    busy' = IF e = "callee" THEN [busy EXCEPT ![At(c, e)] = FALSE] ELSE busy

(* The hellos are exchanged, and the attempt handed to the app. *)
Greet(c) ==
    /\ Step(c, "callee") = "greeting" /\ conns[c].open
    /\ conns' = [conns EXCEPT ![c].step["callee"] = "held", ![c].greeted = TRUE]
    /\ Tell(At(c, "callee"), [kind |-> "offered", conn |-> c])
    /\ UNCHANGED <<app, busy, paired, allowed, troubles>>

(* The handshake fails or takes too long. *)
GreetFails(c) ==
    /\ Step(c, "callee") = "greeting"
    /\ IF conns[c].open THEN Trouble("handshake") ELSE UNCHANGED troubles
    /\ conns' = [conns EXCEPT ![c].step["callee"] = "over", ![c].open = FALSE]
    /\ Release(c, "callee")
    /\ UNCHANGED <<app, messages, paired, allowed>>

Answered(c) ==
    /\ Step(c, "caller") = "calling" /\ conns[c].greeted
    /\ conns' = [conns EXCEPT ![c].step["caller"] = "held"]
    /\ Tell(At(c, "caller"), [kind |-> "offered", conn |-> c])
    /\ UNCHANGED <<app, busy, paired, allowed, troubles>>

NotAnswered(c) ==
    /\ Step(c, "caller") = "calling"
    /\ IF conns[c].open THEN Trouble("handshake") ELSE UNCHANGED troubles
    /\ conns' = [conns EXCEPT ![c].step["caller"] = "over", ![c].open = FALSE]
    /\ Tell(At(c, "caller"), [kind |-> "failed", conn |-> c])
    /\ UNCHANGED <<app, busy, paired, allowed>>

-----------------------------------------------------------------------------
(* PairAttempt::decide. *)

(* What the other end is told of the step an end takes. *)
Decision(next) == IF next = "waiting" THEN "yes" ELSE "no"

(* The answer is written; that fails on a connection that is gone, and a     *)
(* refusal nobody asked about tells nobody (discard).                        *)
Decide(c, e, next) ==
    IF conns[c].open
    THEN /\ conns' = [conns EXCEPT ![c].said[e] = Decision(next),
                                   ![c].step[e] = next]
         /\ UNCHANGED busy
    ELSE conns' = [conns EXCEPT ![c].step[e] = "over"] /\ Release(c, e)

Report(m, c, next) == IF conns[c].open \/ next = "refusing" THEN {} ELSE {Finished(c)}

Arrive(c, e) ==
    /\ conns[c].open
    /\ conns[c].said[e] # "nothing" /\ conns[c].heard[Other(e)] = "nothing"
    /\ conns' = [conns EXCEPT ![c].heard[Other(e)] = conns[c].said[e]]
    /\ UNCHANGED <<app, messages, busy, paired, allowed, troubles>>

Read(c, e) ==
    /\ Step(c, e) = "waiting" /\ conns[c].heard[e] # "nothing"
    /\ conns' = [conns EXCEPT ![c].step[e] = "closing"]
    /\ UNCHANGED <<app, messages, busy, paired, allowed, troubles>>

End(c, e) ==
    /\ conns' = [conns EXCEPT ![c].step[e] = "over", ![c].open = FALSE]
    /\ Release(c, e)
    /\ IF Step(c, e) = "refusing" THEN UNCHANGED messages ELSE Tell(At(c, e), Finished(c))

(* No answer for DECISION_TIMEOUT, or none can come.                         *)
GiveUp(c, e) ==
    /\ Step(c, e) = "waiting" /\ conns[c].heard[e] = "nothing"
    /\ IF conns[c].open THEN Trouble("timeout") ELSE UNCHANGED troubles
    /\ End(c, e)
    /\ UNCHANGED <<app, paired, allowed>>

(* Mutant: an answer is on its way once it is written. *)
WrittenIsThere(c, e) == UNCHANGED troubles

(* The other has this end's answer, or HANDSHAKE_TIMEOUT is over.            *)
ReachedThem(c, e) ==
    IF conns[c].open /\ conns[c].heard[Other(e)] = "nothing"
    THEN Trouble("slow") ELSE UNCHANGED troubles

(* Mutant: what the other answered is not looked at. *)
AgreedAnyway(c, e) == Step(c, e) = "closing"

Agreed(c, e) == Step(c, e) = "closing" /\ conns[c].heard[e] = "yes"

Close(c, e) ==
    /\ Step(c, e) \in {"closing", "declining", "refusing"}
    /\ ReachedThem(c, e)
    /\ IF Agreed(c, e)
       THEN /\ conns' = [conns EXCEPT ![c].step[e] = "saving", ![c].open = FALSE]
            /\ UNCHANGED <<busy, messages>>
       ELSE End(c, e)
    /\ UNCHANGED <<app, paired, allowed>>

(* Store::add_peer: on disk first, then in memory.                           *)
Save(c, e) ==
    /\ Step(c, e) = "saving"
    /\ conns' = [conns EXCEPT ![c].step[e] = "allowing"]
    /\ paired' = [paired EXCEPT ![At(c, e)] = @ \cup {At(c, Other(e))}]
    /\ UNCHANGED <<app, messages, busy, allowed, troubles>>

SaveFails(c, e) ==
    /\ Step(c, e) = "saving"
    /\ Trouble("disk")
    /\ End(c, e)
    /\ UNCHANGED <<app, paired, allowed>>

(* Mutant: a new peer may connect from the next start on. *)
AllowLater(c, e) == UNCHANGED allowed

AllowPeer(c, e) == allowed' = [allowed EXCEPT ![At(c, e)] = @ \cup {At(c, Other(e))}]

(* Shared::add_paired: the peer may connect from now on.                     *)
Allow(c, e) ==
    /\ Step(c, e) = "allowing"
    /\ AllowPeer(c, e)
    /\ End(c, e)
    /\ UNCHANGED <<app, paired, troubles>>

-----------------------------------------------------------------------------
(* The app. *)

EndAt(c, m) == CHOOSE e \in Ends : At(c, e) = m

Hold(m, c) == [app[m] EXCEPT !.open = TRUE, !.stage = "confirm", !.code = c, !.attempt = c]

(* PairStarted(Ok), IncomingPair: one at a time, another is refused.         *)
OnOffered(m, c) ==
    IF app[m].attempt # 0
    THEN Decide(c, EndAt(c, m), "refusing") /\ UNCHANGED app
    ELSE app' = [app EXCEPT ![m] = Hold(m, c)] /\ UNCHANGED <<conns, busy>>

(* PairStarted(Err), PairFinished: the dialog closes.                        *)
OnOver(m) ==
    /\ app' = [app EXCEPT ![m].open = FALSE]
    /\ UNCHANGED <<conns, busy>>

Hear(m) ==
    /\ \E msg \in messages[m] :
         /\ messages' = [messages EXCEPT ![m] = @ \ {msg}]
         /\ \/ msg.kind = "offered" /\ OnOffered(m, msg.conn)
            \/ msg.kind \in {"failed", "finished"} /\ OnOver(m)
    /\ UNCHANGED <<paired, allowed, troubles>>

Shown(m, accept) ==
    [app[m] EXCEPT !.attempt = 0, !.open = accept,
                   !.stage = IF accept THEN "waiting" ELSE @]

(* ConfirmPair: the user answers the code shown, or cancels; a cancel that   *)
(* finds no attempt only closes the dialog.                                  *)
Confirm(m, accept) ==
    LET c == app[m].attempt
        next == IF accept THEN "waiting" ELSE "declining"
    IN  /\ app[m].open
        /\ accept => app[m].stage = "confirm"
        /\ IF c = 0
           THEN /\ app' = [app EXCEPT ![m].open = FALSE]
                /\ UNCHANGED <<conns, busy, messages>>
           ELSE /\ app' = [app EXCEPT ![m] = Shown(m, accept)]
                /\ Decide(c, EndAt(c, m), next)
                /\ messages' = [messages EXCEPT ![m] = @ \cup Report(m, c, next)]
        /\ UNCHANGED <<paired, allowed, troubles>>

(* Store::remove_peer. *)
RemovePeer(m, p) == paired' = [paired EXCEPT ![m] = @ \ {p}]

(* ConfirmUnpair.  Between a peer's being saved and its being allowed it     *)
(* comes too early: the peer is not saved, and may connect until a restart.  *)
Unpair(m, p) ==
    /\ p \in paired[m] /\ ~app[m].open
    /\ LET between == \E c \in 1..Len(conns), e \in Ends :
                         At(c, e) = m /\ At(c, Other(e)) = p /\ Step(c, e) = "allowing"
       IN  Trouble(IF between THEN "unpaired while pairing" ELSE "unpaired")
    /\ RemovePeer(m, p)
    /\ allowed' = [allowed EXCEPT ![m] = @ \ {p}]
    /\ UNCHANGED <<app, messages, busy, conns>>

-----------------------------------------------------------------------------
(* The app is quit or crashes, and started again; the connection breaks. *)

Restart(m) ==
    /\ Trouble("restart")
    /\ app' = [app EXCEPT ![m] = NoDialog]
    /\ messages' = [messages EXCEPT ![m] = {}]
    /\ busy' = [busy EXCEPT ![m] = FALSE]
    /\ allowed' = [allowed EXCEPT ![m] = paired[m]]
    /\ conns' = [c \in 1..Len(conns) |->
         IF m \in {At(c, e) : e \in Ends}
         THEN [conns[c] EXCEPT !.open = FALSE,
                 !.step = [e \in Ends |-> IF At(c, e) = m THEN "over" ELSE @[e]]]
         ELSE conns[c]]
    /\ UNCHANGED paired

Break(c) ==
    /\ conns[c].open
    /\ Trouble("connection")
    /\ conns' = [conns EXCEPT ![c].open = FALSE]
    /\ UNCHANGED <<app, messages, busy, paired, allowed>>

Task(c) ==
    \/ Accept(c) \/ Greet(c) \/ GreetFails(c) \/ Answered(c) \/ NotAnswered(c)
    \/ \E e \in Ends : \/ Arrive(c, e) \/ Read(c, e) \/ GiveUp(c, e) \/ Close(c, e)
                       \/ Save(c, e) \/ SaveFails(c, e) \/ Allow(c, e)

Next ==
    \/ \E c \in 1..Len(conns) : Task(c) \/ Break(c)
    \/ \E m \in Machines :
          \/ Hear(m) \/ Restart(m)
          \/ \E accept \in BOOLEAN : Confirm(m, accept)
          \/ \E p \in Machines : Pair(m, p) \/ Unpair(m, p)

Spec == Init /\ [][Next]_vars

-----------------------------------------------------------------------------

TypeOK ==
    /\ app \in [Machines -> [attempt : 0..MaxAttempts, open : BOOLEAN,
                             stage : {"connecting", "confirm", "waiting"},
                             code : 0..MaxAttempts]]
    /\ busy \in [Machines -> BOOLEAN]
    /\ paired \in [Machines -> SUBSET Machines] /\ allowed \in [Machines -> SUBSET Machines]
    /\ \A c \in 1..Len(conns), e \in Ends : Step(c, e) \in Steps

Between(c, m, p) == {At(c, e) : e \in Ends} = {m, p}

Settled(m, p) ==
    \A c \in 1..Len(conns) : Between(c, m, p) => \A e \in Ends : Step(c, e) = "over"

(* A machine has saved a peer only if both users accepted, on the same        *)
(* connection: the same code (PairAttempt::decide).                           *)
PairedByBoth ==
    \A m, p \in Machines :
        p \in paired[m] =>
            \E c \in 1..Len(conns) :
                Between(c, m, p) /\ \A e \in Ends : conns[c].said[e] = "yes"

(* Unless something fails or takes too long, two machines pair both or        *)
(* neither: neither closes the connection before its answer is there.         *)
BothOrNeither ==
    troubles = {} =>
        \A m, p \in Machines : Settled(m, p) => (p \in paired[m] <=> m \in paired[p])

(* Once nothing is under way, the peers that may connect are the saved ones,  *)
(* unless one was unpaired in the middle of being paired again.               *)
AllowedIsPaired ==
    \A m, p \in Machines :
        Settled(m, p) /\ "unpaired while pairing" \notin troubles =>
            (p \in allowed[m] <=> p \in paired[m])

(* An attempt the app holds is shown: its user can answer it                   *)
(* (docs/releases/v0.3.0-alpha.21.md: "Pairing started from the other device   *)
(* still pops up wherever you are").                                           *)
HeldIsShown == \A m \in Machines : app[m].attempt # 0 => app[m].open
=============================================================================
