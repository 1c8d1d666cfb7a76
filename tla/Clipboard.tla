------------------------------ MODULE Clipboard -----------------------------
(***************************************************************************)
(* The thread that watches the clipboard (legato-engine/src/clipboard.rs).   *)
(*                                                                         *)
(* The OS counts the changes of the clipboard; "unseen" says that the count  *)
(* is not the one the thread read last.  Users copy between any two of its   *)
(* steps.                                                                  *)
(***************************************************************************)
EXTENDS Sequences

CONSTANTS Nothing   \* no content

Watcher(content) ==
    [on |-> TRUE, content |-> content, unseen |-> FALSE, fromPeer |-> Nothing,
     step |-> "waiting", sets |-> <<>>]

(* The user copies, sharing or not.                                          *)
Copy(w, content) == [w EXCEPT !.content = content, !.unseen = w.on]

(* A clipboard manager puts the same content there once more.                *)
Rewrite(w) == [w EXCEPT !.unseen = w.on]

(* ClipboardSync::set: contents from a peer, for the thread to write.        *)
Set(w, content) == IF w.on THEN [w EXCEPT !.sets = Append(@, content)] ELSE w

CanWrite(w) == w.on /\ w.step = "waiting" /\ w.sets # <<>>

(* Mutant: what a peer put there is not remembered. *)
WriteOnly(w) ==
    [w EXCEPT !.content = Head(w.sets), !.unseen = TRUE, !.sets = Tail(@), !.step = "written"]

Write(w) ==
    [w EXCEPT !.fromPeer = Head(w.sets), !.content = Head(w.sets), !.unseen = TRUE,
              !.sets = Tail(@), !.step = "written"]

WriteFails(w) == [w EXCEPT !.fromPeer = Head(w.sets), !.sets = Tail(@), !.step = "written"]

CanCount(w) ==
    /\ w.on
    /\ \/ w.step = "written"
       \/ w.step = "waiting" /\ w.sets = <<>> /\ w.unseen

(* The count is read: after a write, or to find something new.               *)
Count(w) ==
    [w EXCEPT !.unseen = FALSE, !.step = IF @ = "written" THEN "waiting" ELSE "changed"]

CanRead(w) == w.on /\ w.step = "changed"

(* What was copied here, not put there by a peer.                            *)
Copied(w) == w.content # w.fromPeer

Read(w) == [w EXCEPT !.fromPeer = IF Copied(w) THEN Nothing ELSE @, !.step = "waiting"]

Idle(w) == w.on => w.step = "waiting" /\ w.sets = <<>> /\ ~w.unseen

(* drop and start: the old thread first does what it was told.               *)
CanStop(w) == w.on => w.step = "waiting" /\ w.sets = <<>>
Stop(w) == [w EXCEPT !.on = FALSE]
Start(w) == Watcher(w.content)
=============================================================================
