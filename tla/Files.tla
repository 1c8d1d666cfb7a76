------------------------------- MODULE Files -------------------------------
(***************************************************************************)
(* Sending files from one machine to a peer (legato-engine/src/files.rs,   *)
(* the file streams of legato-net/src/session.rs, and the parts of the run *)
(* loop that hear of them).                                                *)
(*                                                                         *)
(* A batch is sent one file after the other, each on a stream of its own,  *)
(* the next once the receiver says the one before is saved.  On the        *)
(* receiver a task per stream reads its header and posts it to the run     *)
(* loop, whose inbox reserves a path and starts a task that saves the file *)
(* and answers; the run loop hears of that later, on another channel.      *)
(* Cancellations come over the control stream, so that they may overtake a *)
(* header or be overtaken by it.                                           *)
(*                                                                         *)
(* A name is what the sender calls an entry, and has components; a path is *)
(* a sequence of <<component, number>> pairs: number 1 is the component    *)
(* itself, n > 1 stands for "component (n)".                               *)
(***************************************************************************)
EXTENDS Integers, Sequences, FiniteSets, SequencesExt, FiniteSetsExt

CONSTANTS
    Batches,            \* names of batches; the code draws them from the clock
    Manifests,          \* what may be sent: [Batches -> sequence of [name, dir]]
    Parts(_),           \* a name's components: split at / and \, without blanks and "."
    Clean(_),           \* a component without what Windows cannot store
    Refused,            \* components that clean to nothing, or lead upwards
    MaxHistory,         \* cancelled batches the inbox remembers (256)
    MaxBreaks,          \* bound: lost or replaced connections
    MaxFaults           \* bound: files that change, disks that fail, timeouts

(* What collect returns of a selection: some folders and files, not always  *)
(* of different names, since what is selected may come from several places. *)
Collected(entries) ==
    /\ entries \in Seq(Range(entries)) \ {<<>>}
    /\ \A e \in Range(entries) : e.dir \in BOOLEAN /\ Parts(e.name) \in Seq(Range(Parts(e.name)))

ASSUME FilesAssumption ==
    /\ \A manifest \in Manifests : \A b \in Batches : Collected(manifest[b])
    /\ MaxHistory \in Nat \ {0}
    /\ {MaxBreaks, MaxFaults} \subseteq Nat

VARIABLES
    items,      \* [Batches -> its entries], the manifest drawn up before sending
    send,       \* [Batches -> [pc, index]] the task that sends it
    stream,     \* [Batches -> [index -> the file's stream and its save task]]
    up,         \* the two have a connection
    control,    \* batches cancelled, on the control stream
    events,     \* the run loop's queue of session events
    known,      \* by_peer has the sender
    inbox,      \* Inbox: open batches, generation counter, cancelled batches
    disk,       \* what is under Downloads: [path, of, whole]
    reported,   \* FilesReceived: [batch, generation, roots]
    heard,      \* batches whose cancellation the receiver heard on this connection
    left        \* breaks and faults that may still happen

vars == <<items, send, stream, up, control, events, known, inbox, disk,
          reported, heard, left>>

Count(b) == Len(items[b])
Named(b, i) == Parts(items[b][i].name)
MaxCount == Max({Len(m[b]) : m \in Manifests, b \in Batches})

(* There is a largest one among what may be sent. *)
ASSUME SizesAssumption ==
    /\ MaxCount \in Nat
    /\ \A manifest \in Manifests, b \in Batches : Len(manifest[b]) \in 1..MaxCount

(* pc: where the file is.  data: whether its bytes are still coming, all   *)
(* arrived, were cut short, or may or may not have come through a break.   *)
NoStream == [pc |-> "none", data |-> "flowing", ok |-> FALSE, gen |-> 0,
             path |-> <<>>, heard |-> FALSE]
NoBatch == [gen |-> 0, done |-> 0, indices |-> {}, dirs |-> {}, roots |-> {}]
Directory == <<"directory", 0>>

(* What the receiver is told: the header of a file, a batch called off. *)
FileHeader(b, i) == [type |-> "file", batch |-> b, index |-> i]
FileCancel(b) == [type |-> "cancel", batch |-> b]

Spend(what) == left[what] > 0 /\ left' = [left EXCEPT ![what] = @ - 1]

Init ==
    /\ items \in Manifests
    /\ send = [b \in Batches |-> [pc |-> "new", index |-> 1]]
    /\ stream = [b \in Batches |-> [i \in 1..MaxCount |-> NoStream]]
    /\ up = TRUE
    /\ control = <<>>
    /\ events = <<>>
    /\ known = TRUE
    /\ inbox = [open |-> [b \in Batches |-> NoBatch], gen |-> 0, cancelled |-> <<>>]
    /\ disk = {}
    /\ reported = {}
    /\ heard = {}
    /\ left = [what \in {"break", "fault"} |->
                 IF what = "break" THEN MaxBreaks ELSE MaxFaults]

-----------------------------------------------------------------------------
(* The inbox's names. *)

Taken(d) == {entry.path : entry \in d}

(* Mutant: an existing file of the name is taken for it. *)
FirstName(d, parent, part) == Append(parent, <<Clean(part), 1>>)

(* reserve: the first of name, "name (2)", "name (3)" .. that is free. *)
Numbered(d, parent, part) ==
    LET Path(n) == Append(parent, <<Clean(part), n>>)
        free == {n \in 1..(Cardinality(d) + 1) : Path(n) \notin Taken(d)}
    IN  Path(CHOOSE n \in free : \A k \in free : n <= k)

(* What tells directories of a batch apart: the names the sender gave them. *)
Prefix(parts) == parts

(* One component of a name in Batch::reserve: its directory, made unless    *)
(* the batch has made it, or at last the file.  at: the path so far, the    *)
(* disk, and the batch's directories and top-level entries.                 *)
Within(at, b, i, k) ==
    LET parts == Named(b, i)
        key == Prefix(SubSeq(parts, 1, k))
        made == {e \in at.dirs : e.key = key}
        isDir == k < Len(parts) \/ items[b][i].dir
        path == IF made # {} /\ isDir THEN (CHOOSE e \in made : TRUE).path
                ELSE Numbered(at.disk, at.path, parts[k])
    IN  [path |-> path,
         disk |-> IF isDir /\ made # {} THEN at.disk
                  ELSE {e \in at.disk : e.path # path} \cup
                       {[path |-> path, of |-> IF isDir THEN Directory ELSE <<b, i>>,
                         whole |-> isDir]},
         dirs |-> IF isDir /\ made = {} THEN at.dirs \cup {[key |-> key, path |-> path]}
                  ELSE at.dirs,
         roots |-> IF k = 1 THEN at.roots \cup {path} ELSE at.roots]

(* Batch::reserve: component after component. *)
Reserve(batch, d, b, i) ==
    LET depth == Len(Named(b, i))
        at[k \in 0..depth] ==
            IF k = 0 THEN [path |-> <<>>, disk |-> d, dirs |-> batch.dirs,
                           roots |-> batch.roots]
                     ELSE Within(at[k - 1], b, i, k)
    IN  at[depth]

(* safe_parts refuses the name: no component is left, or one leads upwards  *)
(* or cleans to nothing.                                                    *)
Unsafe(b, i) == Named(b, i) = <<>> \/ Range(Named(b, i)) \cap Refused # {}

(* Mutant: the inbox forgets which batches were cancelled. *)
ForgetCancelled(box, b) == [box EXCEPT !.open[b] = NoBatch]

(* Inbox::cancel: the open batch goes, which stops its saves, and for a     *)
(* while its name is remembered.                                            *)
Cancel(box, b) ==
    LET longer == IF b \in Range(box.cancelled) THEN box.cancelled
                  ELSE Append(box.cancelled, b)
    IN  [box EXCEPT !.open[b] = NoBatch,
                    !.cancelled = IF Len(longer) > MaxHistory THEN Tail(longer) ELSE longer]

(* Inbox::reserve refuses: cancelled, or not an entry the batch lacks. *)
Rejects(b, i) ==
    \/ b \in Range(inbox.cancelled)
    \/ i \in inbox.open[b].indices
    \/ Unsafe(b, i)

-----------------------------------------------------------------------------
(* The sender. *)

(* prepare fails: nothing to send, a link outside, too big for a clipboard. *)
ScanFails(b) ==
    /\ send[b].pc = "new"
    /\ send' = [send EXCEPT ![b].pc = "failed"]
    /\ UNCHANGED <<items, stream, up, control, events, known, inbox, disk,
                   reported, heard, left>>

(* The next file gets its stream; the header goes first. *)
OpenStream(b) ==
    /\ send[b].pc \in {"new", "next"}
    /\ up
    /\ send' = [send EXCEPT ![b].pc = "sending"]
    /\ stream' = [stream EXCEPT ![b][send[b].index] = [NoStream EXCEPT !.pc = "header"]]
    /\ UNCHANGED <<items, up, control, events, known, inbox, disk, reported,
                   heard, left>>

(* All bytes are sent; the sender now waits for the receiver to save them. *)
Finish(b) ==
    /\ send[b].pc = "sending"
    /\ send' = [send EXCEPT ![b].pc = "waiting"]
    /\ stream' = [stream EXCEPT ![b][send[b].index].data = "whole"]
    /\ UNCHANGED <<items, up, control, events, known, inbox, disk, reported,
                   heard, left>>

(* PendingBatch::drop: what was sent is called off. *)
GiveUp(b) ==
    /\ send' = [send EXCEPT ![b].pc = "failed"]
    /\ control' = IF up THEN Append(control, b) ELSE control

(* The file changed under way, or the answer took more than 30 s. *)
SendFails(b) ==
    /\ send[b].pc \in {"sending", "waiting"}
    /\ Spend("fault")
    /\ GiveUp(b)
    /\ stream' = [stream EXCEPT ![b][send[b].index].data =
                     IF @ = "flowing" THEN "cut" ELSE @]
    /\ UNCHANGED <<items, up, events, known, inbox, disk, reported, heard>>

(* The receiver's answer: the next file, or the batch is sent. *)
HearAnswer(b) ==
    LET i == send[b].index
        s == stream[b][i]
    IN
    /\ send[b].pc \in {"sending", "waiting"}
    /\ up /\ s.pc \in {"saved", "over"} /\ ~s.heard
    /\ IF s.ok /\ send[b].pc = "waiting"
       THEN /\ send' = [send EXCEPT ![b] =
                          IF i = Count(b) THEN [pc |-> "sent", index |-> i]
                                          ELSE [pc |-> "next", index |-> i + 1]]
            /\ UNCHANGED control
       ELSE GiveUp(b)
    /\ stream' = [stream EXCEPT ![b][i].heard = TRUE]
    /\ UNCHANGED <<items, up, events, known, inbox, disk, reported, heard, left>>

-----------------------------------------------------------------------------
(* The connection. *)

(* The connection is gone: what is under way fails on both ends.  The       *)
(* receiver's run loop hears of it unless a new connection replaced it.     *)
Break(replaced) ==
    /\ up
    /\ Spend("break")
    /\ up' = replaced
    /\ control' = <<>>
    /\ send' = [b \in Batches |->
                  IF send[b].pc \in {"sending", "waiting", "next"}
                  THEN [send[b] EXCEPT !.pc = "failed"] ELSE send[b]]
    /\ stream' = [b \in Batches |-> [i \in 1..MaxCount |->
                    [stream[b][i] EXCEPT !.data = CASE @ = "flowing" -> "cut"
                                                    [] @ = "whole"   -> "maybe"
                                                    [] OTHER         -> @]]]
    /\ events' = IF replaced THEN events ELSE Append(events, [type |-> "lost"])
    /\ UNCHANGED <<items, known, inbox, disk, reported, heard>>

Reconnect ==
    /\ ~up
    /\ up' = TRUE
    /\ events' = Append(events, [type |-> "connected"])
    /\ UNCHANGED <<items, send, stream, control, known, inbox, disk, reported,
                   heard, left>>

(* The task of a stream has read its header, or could not. *)
HeaderRead(b, i) ==
    /\ stream[b][i].pc = "header"
    /\ \/ /\ stream' = [stream EXCEPT ![b][i].pc = "posted"]
          /\ events' = Append(events, FileHeader(b, i))
       \/ /\ stream[b][i].data \in {"cut", "maybe"}
          /\ stream' = [stream EXCEPT ![b][i].pc = "gone"]
          /\ UNCHANGED events
    /\ UNCHANGED <<items, send, up, control, known, inbox, disk, reported,
                   heard, left>>

(* The reader of the control stream posts a FileCancel. *)
CancelRead ==
    /\ control # <<>>
    /\ control' = Tail(control)
    /\ events' = Append(events, FileCancel(Head(control)))
    /\ UNCHANGED <<items, send, stream, up, known, inbox, disk, reported,
                   heard, left>>

-----------------------------------------------------------------------------
(* The receiver's run loop. *)

Next1(type) == events # <<>> /\ Head(events).type = type /\ events' = Tail(events)

(* Inbox::receive: reserve a path and start saving, or answer that it fails. *)
OnFile ==
    LET e == Head(events)
        b == e.batch
        i == e.index
        old == inbox.open[b]
        fresh == [NoBatch EXCEPT !.gen = inbox.gen + 1]
        batch == IF old = NoBatch THEN fresh ELSE old
        made == Reserve(batch, disk, b, i)
    IN
    /\ Next1("file")
    /\ IF ~known
       THEN /\ stream' = [stream EXCEPT ![b][i].pc = "gone"]
            /\ UNCHANGED <<inbox, disk>>
       ELSE IF Rejects(b, i)
       THEN /\ stream' = [stream EXCEPT ![b][i] = [@ EXCEPT !.pc = "saved", !.gen = old.gen]]
            /\ inbox' = IF old = NoBatch /\ b \notin Range(inbox.cancelled)
                        THEN [inbox EXCEPT !.gen = @ + 1] ELSE inbox
            /\ UNCHANGED disk
       ELSE /\ stream' = [stream EXCEPT ![b][i] =
                 [@ EXCEPT !.pc = "saving", !.gen = batch.gen, !.path = made.path]]
            /\ inbox' = [inbox EXCEPT
                 !.open[b] = [batch EXCEPT !.indices = @ \cup {i},
                                           !.dirs = made.dirs, !.roots = made.roots],
                 !.gen = IF old = NoBatch THEN @ + 1 ELSE @]
            /\ disk' = made.disk
    /\ UNCHANGED <<items, send, up, control, known, reported, heard, left>>

OnCancel ==
    /\ Next1("cancel")
    /\ inbox' = Cancel(inbox, Head(events).batch)
    /\ heard' = heard \cup {Head(events).batch}
    /\ UNCHANGED <<items, send, stream, up, control, known, disk, reported, left>>

(* Inbox::disconnected. *)
OnLost ==
    /\ Next1("lost")
    /\ known' = FALSE
    /\ inbox' = [inbox EXCEPT !.open = [b \in Batches |-> NoBatch], !.cancelled = <<>>]
    /\ heard' = {}
    /\ UNCHANGED <<items, send, stream, up, control, disk, reported, left>>

OnConnected ==
    /\ Next1("connected")
    /\ known' = TRUE
    /\ UNCHANGED <<items, send, stream, up, control, inbox, disk, reported,
                   heard, left>>

(* The batch a task saves for is still open: its watch channel has not closed. *)
StillOpen(b, i) == stream[b][i].gen = inbox.open[b].gen

(* save: the file is on disk and flushed, then the sender is told. *)
Saved(b, i) ==
    /\ stream[b][i].pc = "saving"
    /\ stream[b][i].data \in {"whole", "maybe"} /\ StillOpen(b, i)
    /\ stream' = [stream EXCEPT ![b][i] = [@ EXCEPT !.pc = "saved", !.ok = TRUE]]
    /\ disk' = {IF entry.path = stream[b][i].path THEN [entry EXCEPT !.whole = TRUE]
                ELSE entry : entry \in disk}
    /\ UNCHANGED <<items, send, up, control, events, known, inbox, reported,
                   heard, left>>

(* save: cut short, cancelled, or the disk failed; the part saved goes. *)
SaveFails(b, i) ==
    /\ stream[b][i].pc = "saving"
    /\ IF stream[b][i].data \in {"cut", "maybe"} \/ ~StillOpen(b, i)
       THEN UNCHANGED left ELSE Spend("fault")
    /\ stream' = [stream EXCEPT ![b][i] = [@ EXCEPT !.pc = "saved", !.ok = FALSE]]
    /\ disk' = {entry \in disk : entry.path # stream[b][i].path \/ entry.of = Directory}
    /\ UNCHANGED <<items, send, up, control, events, known, inbox, reported,
                   heard>>

(* Inbox::finished: this file was the last the batch lacked. *)
Complete(batch, b) == batch.done + 1 >= Count(b)

(* Mutant: a late save counts for whatever batch has the name now. *)
AnyGeneration(b, i) == inbox.open[b] # NoBatch

(* Inbox::finished, failed: the save was for the batch as it is now. *)
SameGeneration(b, i) == inbox.open[b] # NoBatch /\ stream[b][i].gen = inbox.open[b].gen

(* The run loop hears how a save ended. *)
OnDone(b, i) ==
    LET batch == inbox.open[b]
        s == stream[b][i]
    IN
    /\ s.pc = "saved"
    /\ stream' = [stream EXCEPT ![b][i].pc = "over"]
    /\ \/ /\ s.ok /\ SameGeneration(b, i) /\ Complete(batch, b)
          /\ inbox' = [inbox EXCEPT !.open[b] = NoBatch]
          /\ reported' = reported \cup {[batch |-> b, gen |-> batch.gen, roots |-> batch.roots]}
       \/ /\ s.ok /\ SameGeneration(b, i) /\ ~Complete(batch, b)
          /\ inbox' = [inbox EXCEPT !.open[b].done = @ + 1]
          /\ UNCHANGED reported
       \/ /\ s.ok /\ ~SameGeneration(b, i)
          /\ UNCHANGED <<inbox, reported>>
       \/ /\ ~s.ok /\ (SameGeneration(b, i) \/ batch = NoBatch)
          /\ inbox' = Cancel(inbox, b)
          /\ UNCHANGED reported
       \/ /\ ~s.ok /\ ~SameGeneration(b, i) /\ batch # NoBatch
          /\ UNCHANGED <<inbox, reported>>
    /\ UNCHANGED <<items, send, up, control, events, known, disk, heard, left>>

-----------------------------------------------------------------------------

Sender == \E b \in Batches :
             ScanFails(b) \/ OpenStream(b) \/ Finish(b) \/ SendFails(b) \/ HearAnswer(b)

Streams == \/ CancelRead
           \/ \E b \in Batches : \E i \in 1..MaxCount :
                 HeaderRead(b, i) \/ Saved(b, i) \/ SaveFails(b, i)

RunLoop == \/ OnFile \/ OnCancel \/ OnLost \/ OnConnected
           \/ \E b \in Batches : \E i \in 1..MaxCount : OnDone(b, i)

Connection == Reconnect \/ \E replaced \in BOOLEAN : Break(replaced)

Next == Sender \/ Streams \/ RunLoop \/ Connection

Spec == Init /\ [][Next]_vars

-----------------------------------------------------------------------------

(* The type invariant. *)
TypeOK ==
    /\ items \in Manifests
    /\ \A b \in Batches :
         /\ send[b].pc \in {"new", "sending", "waiting", "next", "sent", "failed"}
         /\ send[b].index \in 1..Count(b)
         /\ \A i \in 1..MaxCount :
              /\ stream[b][i].pc \in {"none", "header", "posted", "gone", "saving", "saved", "over"}
              /\ stream[b][i].data \in {"flowing", "whole", "cut", "maybe"}
              /\ stream[b][i].gen \in 0..inbox.gen
         /\ inbox.open[b].done \in 0..Count(b)
         /\ inbox.open[b].indices \subseteq 1..Count(b)
    /\ Range(inbox.cancelled) \subseteq Batches /\ Len(inbox.cancelled) <= MaxHistory
    /\ Cardinality(Taken(disk)) = Cardinality(disk)
    /\ up \in BOOLEAN /\ known \in BOOLEAN /\ heard \subseteq Batches

IsFolder(b, i, k) == k < Len(Named(b, i)) \/ items[b][i].dir

(* Two entries of a batch are in one folder of the receiver exactly if the  *)
(* sender's names, taken apart, put them in one, also when those clean      *)
(* alike; and a file's path is nothing else's, not even a folder's.         *)
KeepsShape(b) ==
    \A i, j \in 1..Count(b) :
        LET p == stream[b][i].path
            q == stream[b][j].path
        IN  /\ Len(p) = Len(Named(b, i))
            /\ \A k \in 1..Len(p), l \in 1..Len(q) :
                 IF IsFolder(b, i, k) /\ IsFolder(b, j, l)
                 THEN SubSeq(p, 1, k) = SubSeq(q, 1, l) <=>
                      SubSeq(Named(b, i), 1, k) = SubSeq(Named(b, j), 1, l)
                 ELSE SubSeq(p, 1, k) = SubSeq(q, 1, l) => i = j /\ k = l

(* A batch the sender was told is sent is on the receiver's disk: every     *)
(* entry whole, every file at a path of its own, in folders of the shape    *)
(* its names have, whatever was cancelled, lost or sent under the same      *)
(* names since (Inbox::receive, Batch::reserve, IncomingFile::complete).    *)
SentIsSaved ==
    \A b \in Batches : send[b].pc = "sent" =>
        /\ \A i \in 1..Count(b) :
             [path |-> stream[b][i].path, whole |-> TRUE,
              of |-> IF items[b][i].dir THEN Directory ELSE <<b, i>>] \in disk
        /\ KeepsShape(b)

(* A batch reported as received is all there: its entries were all saved    *)
(* for it and not for an earlier batch of the name, and what is reported    *)
(* are their top-level files and folders (Inbox::finished).                 *)
ReportedAreSaved ==
    \A r \in reported : \A i \in 1..Count(r.batch) :
        stream[r.batch][i].ok /\ stream[r.batch][i].gen = r.gen

ReportedRoots ==
    \A r \in reported :
        r.roots = {SubSeq(stream[r.batch][i].path, 1, 1) : i \in 1..Count(r.batch)}

ReportedIsWhole == ReportedAreSaved /\ ReportedRoots

(* Once the receiver heard that a batch is called off it keeps nothing open *)
(* for it on this connection, even when a header of the batch comes late    *)
(* (Inbox::cancel, Inbox::reserve).                                         *)
CancelSticks == \A b \in heard : inbox.open[b] = NoBatch
=============================================================================
