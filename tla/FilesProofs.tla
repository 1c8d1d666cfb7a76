---------------------------- MODULE FilesProofs -----------------------------
(***************************************************************************)
(* Proofs about sending files, for any batches and manifests, however      *)
(* often the connection breaks and files or disks fail: what a sender and  *)
(* a receiver conclude from the answers and the generations is so, and     *)
(* what is sent is on the receiver's disk, in the shape it had.            *)
(***************************************************************************)
EXTENDS Files, FiniteSetTheorems, SequenceTheorems, WellFoundedInduction, TLAPS

(* An entry's stream and save task, an open batch: their paths are any.     *)
IsEntry(s) ==
    /\ s = [pc |-> s.pc, data |-> s.data, ok |-> s.ok, gen |-> s.gen,
            path |-> s.path, heard |-> s.heard]
    /\ s.ok \in BOOLEAN /\ s.gen \in Nat

IsBatch(x) ==
    /\ x = [gen |-> x.gen, done |-> x.done, indices |-> x.indices,
            dirs |-> x.dirs, roots |-> x.roots]
    /\ x.gen \in Nat /\ x.done \in Nat

Events == [type : {"file"}, batch : Batches, index : 1..MaxCount]
          \cup [type : {"cancel"}, batch : Batches]
          \cup [type : {"lost", "connected"}]

StreamsTyped ==
    /\ stream = [b \in Batches |-> [i \in 1..MaxCount |-> stream[b][i]]]
    /\ \A b \in Batches, i \in 1..MaxCount : IsEntry(stream[b][i])

IsInbox(box) ==
    /\ box = [open |-> box.open, gen |-> box.gen, cancelled |-> box.cancelled]
    /\ box.open = [b \in Batches |-> box.open[b]]
    /\ \A b \in Batches : IsBatch(box.open[b])
    /\ box.gen \in Nat
    /\ box.cancelled \in Seq(Batches)

InboxTyped == IsInbox(inbox)

SendTyped ==
    /\ items \in Manifests
    /\ send \in [Batches -> [pc : {"new", "sending", "waiting", "next", "sent", "failed"},
                             index : Nat]]
    /\ \A b \in Batches : send[b].index \in 1..Count(b)

QueuesTyped ==
    /\ control \in Seq(Batches)
    /\ events \in Seq(Events)

(* Where an entry's stream is, beside how far the sender has come: nothing *)
(* of the entries ahead, and those before it are saved.                    *)
Ahead ==
    \A b \in Batches, i \in 1..MaxCount :
        \/ i > send[b].index
        \/ i = send[b].index /\ send[b].pc \in {"new", "next"}
        => stream[b][i].pc = "none"

IsSaved(b, i) == stream[b][i].ok /\ stream[b][i].pc \in {"saved", "over"}

Before ==
    \A b \in Batches, i \in 1..MaxCount :
        \/ i < send[b].index
        \/ i = send[b].index /\ send[b].pc = "sent"
        => IsSaved(b, i)

SentAll == \A b \in Batches : send[b].pc = "sent" => send[b].index = Count(b)

(* Headers in the run loop's queue: each once, and of a stream that waits. *)
Posted ==
    \A k \in DOMAIN events : events[k].type = "file" =>
        /\ stream[events[k].batch][events[k].index].pc = "posted"
        /\ \A l \in DOMAIN events :
              l # k /\ events[l].type = "file" =>
                  events[l].batch # events[k].batch \/ events[l].index # events[k].index

(* Only a save makes an entry good, and a save has a generation. *)
Goods ==
    \A b \in Batches, i \in 1..MaxCount :
        /\ stream[b][i].ok => stream[b][i].pc \in {"saved", "over"}
        /\ stream[b][i].ok \/ stream[b][i].pc = "saving" => stream[b][i].gen > 0
        /\ stream[b][i].gen <= inbox.gen

(* The batch of a generation counts the entries saved for it. *)
Done(b) == {i \in 1..Count(b) : /\ stream[b][i].pc = "over" /\ stream[b][i].ok
                                /\ stream[b][i].gen = inbox.open[b].gen}

Counted ==
    \A b \in Batches :
        /\ inbox.open[b].done = Cardinality(Done(b))
        /\ inbox.open[b].gen <= inbox.gen
        /\ inbox.open[b] # NoBatch => inbox.open[b].gen > 0

Reported ==
    \A r \in reported :
        /\ r.batch \in Batches
        /\ \A i \in 1..Count(r.batch) :
              /\ stream[r.batch][i].pc = "over" /\ stream[r.batch][i].ok
              /\ stream[r.batch][i].gen = r.gen

(* A batch whose name is remembered as cancelled is not open. *)
Remembered == \A b \in Range(inbox.cancelled) : inbox.open[b] = NoBatch

Shape == StreamsTyped /\ InboxTyped /\ SendTyped /\ QueuesTyped
SenderKnows == Ahead /\ Before /\ SentAll
ReceiverKnows == Goods /\ Counted /\ Reported

IInv == Shape /\ SenderKnows /\ Posted /\ ReceiverKnows /\ Remembered

(* With room for every batch: what was heard called off is remembered. *)
NoneTwice(s) == \A k, l \in DOMAIN s : s[k] = s[l] => k = l
HeardKept == heard \subseteq Range(inbox.cancelled) /\ NoneTwice(inbox.cancelled)

SentSaves == \A b \in Batches : send[b].pc = "sent" =>
                 \A i \in 1..Count(b) : stream[b][i].ok

-----------------------------------------------------------------------------
(***************************************************************************)
(* What the steps do to one entry's stream, and what they leave alone.     *)
(***************************************************************************)
At(s, pc) == [s EXCEPT !.pc = pc]
WithData(s, data) == [s EXCEPT !.data = data]
WithHeard(s, yes) == [s EXCEPT !.heard = yes]
WithOk(s, ok) == [s EXCEPT !.ok = ok]
WithGen(s, gen) == [s EXCEPT !.gen = gen]
WithPath(s, path) == [s EXCEPT !.path = path]

(* An entry's stream with another state, verdict and generation.            *)
Is(s, pc, ok, gen) == IsEntry(s) /\ s.pc = pc /\ s.ok = ok /\ s.gen = gen

(* The steps of an entry's stream change its state, its verdict or its     *)
(* generation and nothing else that counts (HeaderRead, Inbox::receive,    *)
(* save, send).                                                            *)
LEMMA EntrySteps ==
    ASSUME NEW s, IsEntry(s)
    PROVE  /\ \A pc : Is(At(s, pc), pc, s.ok, s.gen)
           /\ \A data : Is(WithData(s, data), s.pc, s.ok, s.gen)
           /\ \A yes : Is(WithHeard(s, yes), s.pc, s.ok, s.gen)
           /\ \A ok \in BOOLEAN : Is(WithOk(s, ok), s.pc, ok, s.gen)
           /\ \A gen \in Nat : Is(WithGen(s, gen), s.pc, s.ok, gen)
           /\ \A path : Is(WithPath(s, path), s.pc, s.ok, s.gen)
<1>1. \A pc : Is(At(s, pc), pc, s.ok, s.gen)
  BY DEF IsEntry, Is, At
<1>2. \A data : Is(WithData(s, data), s.pc, s.ok, s.gen)
  BY DEF IsEntry, Is, WithData
<1>3. \A yes : Is(WithHeard(s, yes), s.pc, s.ok, s.gen)
  BY DEF IsEntry, Is, WithHeard
<1>4. \A ok \in BOOLEAN : Is(WithOk(s, ok), s.pc, ok, s.gen)
  BY DEF IsEntry, Is, WithOk
<1>5. \A gen \in Nat : Is(WithGen(s, gen), s.pc, s.ok, gen)
  BY DEF IsEntry, Is, WithGen
<1>6. \A path : Is(WithPath(s, path), s.pc, s.ok, s.gen)
  BY DEF IsEntry, Is, WithPath
<1>7. QED
  BY <1>1, <1>2, <1>3, <1>4, <1>5, <1>6

Answer(s, ok) == WithOk(At(s, "saved"), ok)
Refuse(s, gen) == WithGen(At(s, "saved"), gen)
Starts(s, gen, path) == WithPath(WithGen(At(s, "saving"), gen), path)

(* What the receiver's answers and the start of a save make of it. *)
LEMMA EntrySaves ==
    ASSUME NEW s, IsEntry(s)
    PROVE  /\ \A ok \in BOOLEAN : Is(Answer(s, ok), "saved", ok, s.gen)
           /\ \A gen \in Nat : Is(Refuse(s, gen), "saved", s.ok, gen)
           /\ \A gen \in Nat : \A path : Is(Starts(s, gen, path), "saving", s.ok, gen)
<1>1. \A pc : Is(At(s, pc), pc, s.ok, s.gen)
  BY EntrySteps
<1>2. \A ok \in BOOLEAN : Is(Answer(s, ok), "saved", ok, s.gen)
  <2>1. Is(At(s, "saved"), "saved", s.ok, s.gen)
    BY <1>1
  <2>2. \A ok \in BOOLEAN : Is(WithOk(At(s, "saved"), ok), "saved", ok, s.gen)
    BY <2>1, EntrySteps DEF Is
  <2>3. QED
    BY <2>2 DEF Answer
<1>3. \A gen \in Nat : Is(Refuse(s, gen), "saved", s.ok, gen)
  <2>1. Is(At(s, "saved"), "saved", s.ok, s.gen)
    BY <1>1
  <2>2. \A gen \in Nat : Is(WithGen(At(s, "saved"), gen), "saved", s.ok, gen)
    BY <2>1, EntrySteps DEF Is
  <2>3. QED
    BY <2>2 DEF Refuse
<1>4. ASSUME NEW gen \in Nat, NEW path
      PROVE  Is(Starts(s, gen, path), "saving", s.ok, gen)
  <2>1. Is(At(s, "saving"), "saving", s.ok, s.gen)
    BY <1>1
  <2>2. Is(WithGen(At(s, "saving"), gen), "saving", s.ok, gen)
    BY <2>1, EntrySteps DEF Is
  <2>3. Is(WithPath(WithGen(At(s, "saving"), gen), path), "saving", s.ok, gen)
    BY <2>2, EntrySteps DEF Is
  <2>4. QED
    BY <2>3 DEF Starts
<1>5. QED
  BY <1>2, <1>3, <1>4

(* A new stream starts with its header, and nothing is saved of it yet.     *)
LEMMA NewEntry == Is(At(NoStream, "header"), "header", FALSE, 0) /\ Is(NoStream, "none", FALSE, 0)
<1>1. Is(NoStream, "none", FALSE, 0)
  BY DEF Is, IsEntry, NoStream
<1>2. QED
  BY <1>1, EntrySteps DEF Is

(* One entry's stream changes, the others do not. *)
Becomes(b, i, pc, ok, gen) ==
    /\ StreamsTyped'
    /\ stream'[b][i].pc = pc /\ stream'[b][i].ok = ok /\ stream'[b][i].gen = gen
    /\ \A c \in Batches, j \in 1..MaxCount :
          c # b \/ j # i => stream'[c][j] = stream[c][j]

(* No entry's stream changes in what counts. *)
Kept ==
    /\ StreamsTyped'
    /\ \A b \in Batches, i \in 1..MaxCount :
          /\ stream'[b][i].pc = stream[b][i].pc
          /\ stream'[b][i].ok = stream[b][i].ok
          /\ stream'[b][i].gen = stream[b][i].gen

(* A step of one entry's stream is a step of that entry alone. *)
LEMMA OneEntry ==
    ASSUME NEW b \in Batches, NEW i \in 1..MaxCount, NEW g, NEW pc, NEW ok, NEW gen,
           StreamsTyped, Is(g, pc, ok, gen), stream' = [stream EXCEPT ![b][i] = g]
    PROVE  Becomes(b, i, pc, ok, gen)
<1>1. stream'[b][i] = g
  BY DEF StreamsTyped
<1>2. \A c \in Batches, j \in 1..MaxCount : c # b \/ j # i => stream'[c][j] = stream[c][j]
  BY DEF StreamsTyped
<1>3. stream' = [c \in Batches |-> [j \in 1..MaxCount |-> stream'[c][j]]]
  BY DEF StreamsTyped
<1>4. IsEntry(g) /\ g.pc = pc /\ g.ok = ok /\ g.gen = gen
  BY DEF Is
<1>5. \A c \in Batches, j \in 1..MaxCount : IsEntry(stream[c][j])
  BY DEF StreamsTyped
<1>6. \A c \in Batches, j \in 1..MaxCount : IsEntry(stream'[c][j])
  BY <1>1, <1>2, <1>4, <1>5
<1>7. QED
  BY <1>1, <1>2, <1>3, <1>4, <1>6 DEF Becomes, StreamsTyped

(* If nothing that counts of it changes, nothing changes. *)
LEMMA SameEntry ==
    ASSUME NEW b \in Batches, NEW i \in 1..MaxCount, StreamsTyped,
           Becomes(b, i, stream[b][i].pc, stream[b][i].ok, stream[b][i].gen)
    PROVE  Kept
BY DEF Becomes, Kept

-----------------------------------------------------------------------------
(***************************************************************************)
(* The steps, as what they do to the streams.                              *)
(***************************************************************************)

(* Opening, feeding, answering a stream, losing the connection (send). *)
LEMMA SenderStreams ==
    ASSUME StreamsTyped, SendTyped, NEW b \in Batches, send[b].index \in 1..MaxCount
    PROVE  /\ OpenStream(b) => Becomes(b, send[b].index, "header", FALSE, 0)
           /\ Finish(b) \/ SendFails(b) \/ HearAnswer(b) => Kept
<1> DEFINE i == send[b].index
           s == stream[b][i]
<1>1. IsEntry(s)
  BY DEF StreamsTyped
<1>2. OpenStream(b) => stream' = [stream EXCEPT ![b][i] = At(NoStream, "header")]
  BY Zenon DEF OpenStream, At
<1>3. Finish(b) => stream' = [stream EXCEPT ![b][i] = WithData(s, "whole")]
  BY Zenon DEF Finish, WithData
<1>4. SendFails(b) =>
        stream' = [stream EXCEPT ![b][i] =
                     WithData(s, IF s.data = "flowing" THEN "cut" ELSE s.data)]
  BY Zenon DEF SendFails, WithData
<1>5. HearAnswer(b) => stream' = [stream EXCEPT ![b][i] = WithHeard(s, TRUE)]
  BY Zenon DEF HearAnswer, WithHeard
<1> HIDE DEF s
<1>6. OpenStream(b) => Becomes(b, i, "header", FALSE, 0)
  BY <1>2, NewEntry, OneEntry
<1>7. \A g : stream' = [stream EXCEPT ![b][i] = g] /\ Is(g, s.pc, s.ok, s.gen) => Kept
  <2>1. SUFFICES ASSUME NEW g, stream' = [stream EXCEPT ![b][i] = g], Is(g, s.pc, s.ok, s.gen)
                 PROVE  Kept
    OBVIOUS
  <2>2. Becomes(b, i, s.pc, s.ok, s.gen)
    BY <2>1, OneEntry
  <2>3. QED
    BY <2>2, SameEntry DEF s
<1>8. \A data : Is(WithData(s, data), s.pc, s.ok, s.gen)
  BY <1>1, EntrySteps
<1>9. \A yes : Is(WithHeard(s, yes), s.pc, s.ok, s.gen)
  BY <1>1, EntrySteps
<1>10. Finish(b) => Kept
  BY <1>3, <1>7, <1>8
<1>11. SendFails(b) => Kept
  BY <1>4, <1>7, <1>8
<1>12. HearAnswer(b) => Kept
  BY <1>5, <1>7, <1>9
<1>13. QED
  BY <1>6, <1>10, <1>11, <1>12

(* A break cuts the bytes that are on the way and nothing else. *)
LEMMA BreakStreams ==
    ASSUME StreamsTyped, NEW replaced, Break(replaced)
    PROVE  Kept
<1> DEFINE D(s) == CASE s.data = "flowing" -> "cut"
                     [] s.data = "whole"   -> "maybe"
                     [] OTHER              -> s.data
           W(s) == WithData(s, D(s))
<1>1. stream' = [b \in Batches |-> [i \in 1..MaxCount |-> W(stream[b][i])]]
  BY Zenon DEF Break, WithData
<1>2. \A b \in Batches, i \in 1..MaxCount :
        Is(W(stream[b][i]), stream[b][i].pc, stream[b][i].ok, stream[b][i].gen)
  BY EntrySteps DEF StreamsTyped
<1> HIDE DEF W
<1>3. \A b \in Batches, i \in 1..MaxCount : stream'[b][i] = W(stream[b][i])
  BY <1>1
<1>4. stream' = [b \in Batches |-> [i \in 1..MaxCount |-> stream'[b][i]]]
  BY <1>1
<1>5. QED
  BY <1>2, <1>3, <1>4 DEF Kept, StreamsTyped, Is

(* The steps of a stream's task on the receiver (the readers, save). *)
LEMMA TaskStreams ==
    ASSUME StreamsTyped, NEW b \in Batches, NEW i \in 1..MaxCount
    PROVE  /\ HeaderRead(b, i) =>
                 \/ /\ Becomes(b, i, "posted", stream[b][i].ok, stream[b][i].gen)
                    /\ events' = Append(events, FileHeader(b, i))
                 \/ /\ Becomes(b, i, "gone", stream[b][i].ok, stream[b][i].gen)
                    /\ UNCHANGED events
           /\ Saved(b, i) => Becomes(b, i, "saved", TRUE, stream[b][i].gen)
           /\ SaveFails(b, i) => Becomes(b, i, "saved", FALSE, stream[b][i].gen)
           /\ OnDone(b, i) => Becomes(b, i, "over", stream[b][i].ok, stream[b][i].gen)
<1> DEFINE s == stream[b][i]
<1>1. IsEntry(s)
  BY DEF StreamsTyped
<1>2. HeaderRead(b, i) =>
        \/ stream' = [stream EXCEPT ![b][i] = At(s, "posted")]
           /\ events' = Append(events, FileHeader(b, i))
        \/ stream' = [stream EXCEPT ![b][i] = At(s, "gone")] /\ UNCHANGED events
  BY Zenon DEF HeaderRead, At
<1>3. Saved(b, i) => stream' = [stream EXCEPT ![b][i] = Answer(s, TRUE)]
  BY Zenon DEF Saved, At, WithOk, Answer
<1>4. SaveFails(b, i) => stream' = [stream EXCEPT ![b][i] = Answer(s, FALSE)]
  BY Zenon DEF SaveFails, At, WithOk, Answer
<1>5. OnDone(b, i) => stream' = [stream EXCEPT ![b][i] = At(s, "over")]
  BY Zenon DEF OnDone, At
<1> HIDE DEF s
<1>6. HeaderRead(b, i) =>
        \/ Becomes(b, i, "posted", s.ok, s.gen) /\ events' = Append(events, FileHeader(b, i))
        \/ Becomes(b, i, "gone", s.ok, s.gen) /\ UNCHANGED events
  BY <1>1, <1>2, EntrySteps, OneEntry
<1>7. Saved(b, i) => Becomes(b, i, "saved", TRUE, s.gen)
  BY <1>1, <1>3, EntrySaves, OneEntry
<1>8. SaveFails(b, i) => Becomes(b, i, "saved", FALSE, s.gen)
  BY <1>1, <1>4, EntrySaves, OneEntry
<1>9. OnDone(b, i) => Becomes(b, i, "over", s.ok, s.gen)
  BY <1>1, <1>5, EntrySteps, OneEntry
<1>10. QED
  BY <1>6, <1>7, <1>8, <1>9 DEF s

-----------------------------------------------------------------------------
(***************************************************************************)
(* What the steps do to the inbox.                                         *)
(***************************************************************************)
WithDone(x, done) == [x EXCEPT !.done = done]
WithIndices(x, indices) == [x EXCEPT !.indices = indices]
WithDirs(x, dirs) == [x EXCEPT !.dirs = dirs]
WithRoots(x, roots) == [x EXCEPT !.roots = roots]
OfGen(x, gen) == [x EXCEPT !.gen = gen]
Entered(x, indices, dirs, roots) == WithRoots(WithDirs(WithIndices(x, indices), dirs), roots)

(* An open batch with a generation and a count. *)
Counts(x, gen, done) == IsBatch(x) /\ x.gen = gen /\ x.done = done

(* Only the generation and the count of a batch tell (Batch). *)
LEMMA BatchSteps ==
    ASSUME NEW x, IsBatch(x)
    PROVE  /\ \A done \in Nat : Counts(WithDone(x, done), x.gen, done)
           /\ \A indices, dirs, roots : Counts(Entered(x, indices, dirs, roots), x.gen, x.done)
           /\ \A gen \in Nat : Counts(OfGen(x, gen), gen, x.done)
<1>1. \A done \in Nat : Counts(WithDone(x, done), x.gen, done)
  BY DEF IsBatch, Counts, WithDone
<1>2. \A gen \in Nat : Counts(OfGen(x, gen), gen, x.done)
  BY DEF IsBatch, Counts, OfGen
<1>3. ASSUME NEW indices, NEW dirs, NEW roots
      PROVE  Counts(Entered(x, indices, dirs, roots), x.gen, x.done)
  <2> DEFINE y == WithIndices(x, indices)
             z == WithDirs(y, dirs)
  <2>1. Counts(y, x.gen, x.done)
    BY DEF IsBatch, Counts, WithIndices
  <2> HIDE DEF y
  <2>2. Counts(z, x.gen, x.done)
    BY <2>1 DEF IsBatch, Counts, WithDirs
  <2> HIDE DEF z
  <2>3. Counts(WithRoots(z, roots), x.gen, x.done)
    BY <2>2 DEF IsBatch, Counts, WithRoots
  <2>4. QED
    BY <2>3 DEF Entered, y, z
<1>4. QED
  BY <1>1, <1>2, <1>3

(* No batch is of generation 0, with nothing in it. *)
LEMMA EmptyBatch == Counts(NoBatch, 0, 0)
BY DEF Counts, IsBatch, NoBatch

BoxOpen(box, b, x) == [box EXCEPT !.open[b] = x]
BoxGen(box, gen) == [box EXCEPT !.gen = gen]
BoxCancelled(box, s) == [box EXCEPT !.cancelled = s]

(* One batch of a box is another, the others are as they were. *)
Opens(box, new, b, x) ==
    /\ IsInbox(new)
    /\ new.open[b] = x
    /\ \A c \in Batches : c # b => new.open[c] = box.open[c]

(* A step of one batch leaves the others, and the inbox's own state. *)
LEMMA BoxSteps ==
    ASSUME NEW box, IsInbox(box)
    PROVE  /\ \A b \in Batches : \A x : IsBatch(x) =>
                 LET new == BoxOpen(box, b, x)
                 IN  /\ Opens(box, new, b, x)
                     /\ new.gen = box.gen /\ new.cancelled = box.cancelled
           /\ \A gen \in Nat :
                 LET new == BoxGen(box, gen)
                 IN  /\ IsInbox(new) /\ new.open = box.open
                     /\ new.gen = gen /\ new.cancelled = box.cancelled
           /\ \A s \in Seq(Batches) :
                 LET new == BoxCancelled(box, s)
                 IN  /\ IsInbox(new) /\ new.open = box.open
                     /\ new.gen = box.gen /\ new.cancelled = s
<1>1. ASSUME NEW b \in Batches, NEW x, IsBatch(x)
      PROVE  LET new == BoxOpen(box, b, x)
             IN  /\ Opens(box, new, b, x)
                 /\ new.gen = box.gen /\ new.cancelled = box.cancelled
  <2> DEFINE new == BoxOpen(box, b, x)
             opened == [box.open EXCEPT ![b] = x]
  <2>1. new = [box EXCEPT !.open = opened]
    BY Zenon DEF BoxOpen
  <2>2. opened = [c \in Batches |-> opened[c]] /\ opened[b] = x
        /\ \A c \in Batches : c # b => opened[c] = box.open[c]
    BY DEF IsInbox
  <2> HIDE DEF new, opened
  <2>3. new = [open |-> opened, gen |-> box.gen, cancelled |-> box.cancelled]
    BY <2>1 DEF IsInbox
  <2>4. \A c \in Batches : IsBatch(opened[c])
    BY <1>1, <2>2 DEF IsInbox
  <2>5. IsInbox(new)
    BY <2>2, <2>3, <2>4 DEF IsInbox
  <2>6. QED
    BY <2>2, <2>3, <2>5 DEF Opens, new
<1>2. \A gen \in Nat :
        LET new == BoxGen(box, gen)
        IN  /\ IsInbox(new) /\ new.open = box.open
            /\ new.gen = gen /\ new.cancelled = box.cancelled
  BY DEF IsInbox, BoxGen
<1>3. \A s \in Seq(Batches) :
        LET new == BoxCancelled(box, s)
        IN  /\ IsInbox(new) /\ new.open = box.open
            /\ new.gen = box.gen /\ new.cancelled = s
  BY DEF IsInbox, BoxCancelled
<1>4. QED
  BY <1>1, <1>2, <1>3

(* Inbox::cancel's list of names: b added unless it is there, and the      *)
(* oldest forgotten when it is too long.                                   *)
Longer(s, b) == IF b \in Range(s) THEN s ELSE Append(s, b)
Forgetting(s, b) == IF Len(Longer(s, b)) > MaxHistory THEN Tail(Longer(s, b)) ELSE Longer(s, b)

(* What is remembered is what was, and the batch. *)
LEMMA Forgets ==
    ASSUME NEW s \in Seq(Batches), NEW b \in Batches
    PROVE  /\ Forgetting(s, b) \in Seq(Batches)
           /\ Range(Forgetting(s, b)) \subseteq Range(s) \cup {b}
           /\ Longer(s, b) \in Seq(Batches)
           /\ Range(Longer(s, b)) = Range(s) \cup {b}
<1> DEFINE l == Longer(s, b)
<1>1. l \in Seq(Batches) /\ (\A k \in DOMAIN l : l[k] \in Range(s) \cup {b})
  BY DEF Longer, Range
<1>2. Range(s) \cup {b} \subseteq Range(l)
  <2>1. CASE b \in Range(s)
    BY <2>1 DEF Longer
  <2>2. CASE b \notin Range(s)
    <3>1. l = Append(s, b)
      BY <2>2 DEF Longer
    <3>2. \A k \in DOMAIN s : k \in DOMAIN l /\ l[k] = s[k]
      BY <3>1
    <3>3. Len(s) + 1 \in DOMAIN l /\ l[Len(s) + 1] = b
      BY <3>1
    <3>4. QED
      BY <3>2, <3>3 DEF Range
  <2>3. QED
    BY <2>1, <2>2
<1>3. Range(l) = Range(s) \cup {b}
  BY <1>1, <1>2 DEF Range
<1> HIDE DEF l
<1>4. Len(l) > MaxHistory => l # <<>>
  BY FilesAssumption, EmptySeq
<1>5. l # <<>> => /\ Tail(l) \in Seq(Batches)
                  /\ \A k \in DOMAIN Tail(l) : Tail(l)[k] = l[k + 1] /\ k + 1 \in DOMAIN l
  BY <1>1, HeadTailProperties
<1>6. l # <<>> => Range(Tail(l)) \subseteq Range(l)
  BY <1>5 DEF Range
<1>7. Forgetting(s, b) = IF Len(l) > MaxHistory THEN Tail(l) ELSE l
  BY DEF Forgetting, l
<1>8. QED
  BY <1>1, <1>3, <1>4, <1>5, <1>6, <1>7 DEF l

(* Inbox::cancel closes the batch and remembers its name. *)
LEMMA CancelSteps ==
    ASSUME NEW box, IsInbox(box), NEW b \in Batches
    PROVE  /\ Opens(box, Cancel(box, b), b, NoBatch)
           /\ Cancel(box, b).gen = box.gen
           /\ Cancel(box, b).cancelled = Forgetting(box.cancelled, b)
<1> DEFINE s == Forgetting(box.cancelled, b)
           mid == BoxOpen(box, b, NoBatch)
           new == BoxCancelled(mid, s)
<1>1. Cancel(box, b) = new
  BY Zenon DEF Cancel, Forgetting, Longer, BoxOpen, BoxCancelled
<1>2. IsBatch(NoBatch)
  BY EmptyBatch DEF Counts
<1>3. s \in Seq(Batches)
  BY Forgets DEF IsInbox
<1> HIDE DEF s
<1>4. Opens(box, mid, b, NoBatch) /\ mid.gen = box.gen
  BY <1>2, BoxSteps
<1> HIDE DEF mid
<1>5. IsInbox(new) /\ new.open = mid.open /\ new.gen = mid.gen /\ new.cancelled = s
  BY <1>3, <1>4, BoxSteps DEF Opens
<1> HIDE DEF new
<1>6. Opens(box, new, b, NoBatch)
  BY <1>4, <1>5 DEF Opens
<1>7. QED
  BY <1>1, <1>4, <1>5, <1>6 DEF s

(* The batch a header joins: the one of its name, or one with a new number. *)
Joined(b) ==
    IF inbox.open[b] = NoBatch THEN OfGen(NoBatch, inbox.gen + 1) ELSE inbox.open[b]

FileGone(b, i) == Becomes(b, i, "gone", stream[b][i].ok, stream[b][i].gen) /\ UNCHANGED inbox

FileRefused(b, i) ==
    /\ Becomes(b, i, "saved", stream[b][i].ok, inbox.open[b].gen)
    /\ IsInbox(inbox') /\ inbox'.open = inbox.open /\ inbox'.cancelled = inbox.cancelled
    /\ inbox'.gen \in {inbox.gen, inbox.gen + 1}

FileStarts(b, i) ==
    /\ b \notin Range(inbox.cancelled)
    /\ Becomes(b, i, "saving", stream[b][i].ok, Joined(b).gen)
    /\ \E x : Opens(inbox, inbox', b, x) /\ Counts(x, Joined(b).gen, Joined(b).done)
    /\ inbox'.cancelled = inbox.cancelled
    /\ inbox'.gen = IF inbox.open[b] = NoBatch THEN inbox.gen + 1 ELSE inbox.gen

(* The batch a header joins is a batch. *)
LEMMA JoinedIs ==
    ASSUME InboxTyped, NEW b \in Batches
    PROVE  /\ IsBatch(Joined(b))
           /\ inbox.open[b] = NoBatch => Counts(Joined(b), inbox.gen + 1, 0)
           /\ inbox.open[b] # NoBatch => Joined(b) = inbox.open[b]
<1>1. inbox.gen + 1 \in Nat /\ IsBatch(inbox.open[b])
  BY DEF InboxTyped, IsInbox
<1>2. Counts(OfGen(NoBatch, inbox.gen + 1), inbox.gen + 1, 0)
  BY <1>1, EmptyBatch, BatchSteps DEF Counts
<1>3. QED
  BY <1>1, <1>2 DEF Joined, Counts

(* Inbox::receive: the header of an unknown sender goes, one that is       *)
(* refused is answered, and the others start to be saved for their batch.  *)
LEMMA FileSteps ==
    ASSUME StreamsTyped, InboxTyped, NEW b \in Batches, NEW i \in 1..MaxCount,
           Head(events).batch = b, Head(events).index = i, OnFile
    PROVE  FileGone(b, i) \/ FileRefused(b, i) \/ FileStarts(b, i)
<1> DEFINE s == stream[b][i]
           x == Joined(b)
           made == Reserve(x, disk, b, i)
           joins == Entered(x, x.indices \cup {i}, made.dirs, made.roots)
           mid == BoxOpen(inbox, b, joins)
           gen == IF inbox.open[b] = NoBatch THEN inbox.gen + 1 ELSE inbox.gen
<1>1. IsEntry(s)
  BY DEF StreamsTyped
<1>2. CASE ~known
  <2>1. stream' = [stream EXCEPT ![b][i] = At(s, "gone")] /\ UNCHANGED inbox
    BY <1>2, Zenon DEF OnFile, At
  <2>2. QED
    BY <1>1, <2>1, EntrySteps, OneEntry DEF FileGone
<1>3. CASE known /\ Rejects(b, i)
  <2>1. stream' = [stream EXCEPT ![b][i] = Refuse(s, inbox.open[b].gen)]
    BY <1>3, Zenon DEF OnFile, At, WithGen, Refuse
  <2>2. inbox' = BoxGen(inbox, inbox.gen + 1) \/ inbox' = inbox
    BY <1>3, Zenon DEF OnFile, BoxGen
  <2>3. IsBatch(inbox.open[b]) /\ inbox.gen + 1 \in Nat
    BY DEF InboxTyped, IsInbox
  <2>4. Becomes(b, i, "saved", s.ok, inbox.open[b].gen)
    <3>1. inbox.open[b].gen \in Nat
      BY <2>3 DEF IsBatch
    <3>2. QED
      BY <1>1, <2>1, <3>1, EntrySaves, OneEntry
  <2>5. /\ IsInbox(inbox') /\ inbox'.open = inbox.open /\ inbox'.cancelled = inbox.cancelled
        /\ inbox'.gen \in {inbox.gen, inbox.gen + 1}
    <3> DEFINE new == BoxGen(inbox, inbox.gen + 1)
    <3>1. IsInbox(new) /\ new.open = inbox.open /\ new.gen = inbox.gen + 1
          /\ new.cancelled = inbox.cancelled
      BY <2>3, BoxSteps DEF InboxTyped
    <3> HIDE DEF new
    <3>2. QED
      BY <2>2, <3>1 DEF InboxTyped, new
  <2>6. QED
    BY <2>4, <2>5 DEF FileRefused
<1>4. CASE known /\ ~Rejects(b, i)
  <2>1. b \notin Range(inbox.cancelled)
    BY <1>4 DEF Rejects
  <2>2. stream' = [stream EXCEPT ![b][i] = Starts(s, x.gen, made.path)]
    BY <1>4, Zenon DEF OnFile, At, WithGen, WithPath, Starts, Joined, OfGen
  <2>3. inbox' = BoxGen(mid, gen)
    BY <1>4, Zenon DEF OnFile, BoxOpen, BoxGen, Entered, WithIndices, WithDirs, WithRoots,
                       Joined, OfGen
  <2>4. IsBatch(x) /\ x.gen \in Nat
    BY JoinedIs DEF IsBatch
  <2> HIDE DEF x, made
  <2>5. Becomes(b, i, "saving", s.ok, x.gen)
    BY <1>1, <2>2, <2>4, EntrySaves, OneEntry
  <2>6. Counts(joins, x.gen, x.done)
    BY <2>4, BatchSteps
  <2> HIDE DEF joins
  <2>7. Opens(inbox, mid, b, joins) /\ mid.gen = inbox.gen /\ mid.cancelled = inbox.cancelled
    BY <2>6, BoxSteps DEF Counts, InboxTyped
  <2> HIDE DEF mid
  <2>8. gen \in Nat
    BY DEF InboxTyped, IsInbox
  <2> HIDE DEF gen
  <2>9. /\ IsInbox(inbox') /\ inbox'.open = mid.open /\ inbox'.cancelled = inbox.cancelled
        /\ inbox'.gen = gen
    BY <2>3, <2>7, <2>8, BoxSteps DEF Opens
  <2>10. Opens(inbox, inbox', b, joins)
    BY <2>7, <2>9 DEF Opens
  <2>11. QED
    BY <2>1, <2>5, <2>6, <2>9, <2>10 DEF FileStarts, x, gen
<1>5. QED
  BY <1>2, <1>3, <1>4

(* A batch closes and its name is remembered. *)
Closes(b) ==
    /\ Opens(inbox, inbox', b, NoBatch)
    /\ inbox'.gen = inbox.gen
    /\ inbox'.cancelled = Forgetting(inbox.cancelled, b)

Completes(b, i) ==
    /\ stream[b][i].ok /\ SameGeneration(b, i) /\ Complete(inbox.open[b], b)
    /\ Opens(inbox, inbox', b, NoBatch)
    /\ inbox'.gen = inbox.gen /\ inbox'.cancelled = inbox.cancelled
    /\ reported' = reported \cup {[batch |-> b, gen |-> inbox.open[b].gen,
                                   roots |-> inbox.open[b].roots]}

CountsOne(b, i) ==
    /\ stream[b][i].ok /\ SameGeneration(b, i)
    /\ \E x : /\ Opens(inbox, inbox', b, x)
              /\ Counts(x, inbox.open[b].gen, inbox.open[b].done + 1)
    /\ inbox'.gen = inbox.gen /\ inbox'.cancelled = inbox.cancelled
    /\ UNCHANGED reported

ForAnother(b, i) ==
    /\ stream[b][i].ok => ~SameGeneration(b, i)
    /\ UNCHANGED <<inbox, reported>>

(* Inbox::finished and failed: the batch is complete, has one more, was    *)
(* another one, or is called off.                                          *)
LEMMA DoneSteps ==
    ASSUME InboxTyped, NEW b \in Batches, NEW i \in 1..MaxCount, OnDone(b, i)
    PROVE  \/ Completes(b, i)
           \/ CountsOne(b, i)
           \/ ForAnother(b, i)
           \/ ~stream[b][i].ok /\ Closes(b) /\ UNCHANGED reported
<1> DEFINE batch == inbox.open[b]
<1>1. IsBatch(batch) /\ IsInbox(inbox)
  BY DEF InboxTyped, IsInbox
<1>2. \/ /\ stream[b][i].ok /\ SameGeneration(b, i) /\ Complete(batch, b)
         /\ inbox' = BoxOpen(inbox, b, NoBatch)
         /\ reported' = reported \cup {[batch |-> b, gen |-> batch.gen, roots |-> batch.roots]}
      \/ /\ stream[b][i].ok /\ SameGeneration(b, i)
         /\ inbox' = BoxOpen(inbox, b, WithDone(batch, batch.done + 1))
         /\ UNCHANGED reported
      \/ stream[b][i].ok /\ ~SameGeneration(b, i) /\ UNCHANGED <<inbox, reported>>
      \/ ~stream[b][i].ok /\ inbox' = Cancel(inbox, b) /\ UNCHANGED reported
      \/ ~stream[b][i].ok /\ UNCHANGED <<inbox, reported>>
  BY Zenon DEF OnDone, BoxOpen, WithDone
<1>3. CASE /\ stream[b][i].ok /\ SameGeneration(b, i) /\ Complete(batch, b)
           /\ inbox' = BoxOpen(inbox, b, NoBatch)
           /\ reported' = reported \cup {[batch |-> b, gen |-> batch.gen, roots |-> batch.roots]}
  <2>1. IsBatch(NoBatch)
    BY EmptyBatch DEF Counts
  <2>2. /\ Opens(inbox, inbox', b, NoBatch)
        /\ inbox'.gen = inbox.gen /\ inbox'.cancelled = inbox.cancelled
    BY <1>1, <1>3, <2>1, BoxSteps
  <2>3. QED
    BY <1>3, <2>2 DEF Completes
<1>4. CASE /\ stream[b][i].ok /\ SameGeneration(b, i)
           /\ inbox' = BoxOpen(inbox, b, WithDone(batch, batch.done + 1))
           /\ UNCHANGED reported
  <2> DEFINE x == WithDone(batch, batch.done + 1)
  <2>1. Counts(x, batch.gen, batch.done + 1)
    <3>1. batch.done + 1 \in Nat
      BY <1>1 DEF IsBatch
    <3>2. QED
      BY <1>1, <3>1, BatchSteps
  <2>2. IsBatch(x)
    BY <2>1 DEF Counts
  <2> HIDE DEF x
  <2>3. /\ Opens(inbox, inbox', b, x)
        /\ inbox'.gen = inbox.gen /\ inbox'.cancelled = inbox.cancelled
    BY <1>1, <1>4, <2>2, BoxSteps DEF x
  <2>4. QED
    BY <1>4, <2>1, <2>3 DEF CountsOne
<1>5. CASE \/ stream[b][i].ok /\ ~SameGeneration(b, i) /\ UNCHANGED <<inbox, reported>>
           \/ ~stream[b][i].ok /\ UNCHANGED <<inbox, reported>>
  BY <1>5 DEF ForAnother
<1>6. CASE ~stream[b][i].ok /\ inbox' = Cancel(inbox, b) /\ UNCHANGED reported
  BY <1>1, <1>6, CancelSteps DEF Closes
<1>7. QED
  BY <1>2, <1>3, <1>4, <1>5, <1>6

(* Inbox::disconnected closes and forgets everything. *)
LEMMA LostSteps ==
    ASSUME InboxTyped, OnLost
    PROVE  /\ InboxTyped' /\ inbox'.gen = inbox.gen
           /\ \A b \in Batches : inbox'.open[b] = NoBatch
           /\ inbox'.cancelled = <<>>
<1> DEFINE none == [b \in Batches |-> NoBatch]
           mid == [inbox EXCEPT !.open = none]
           new == BoxCancelled(mid, <<>>)
<1>1. inbox' = new
  BY Zenon DEF OnLost, BoxCancelled
<1>2. none = [b \in Batches |-> none[b]] /\ \A b \in Batches : none[b] = NoBatch
  OBVIOUS
<1> HIDE DEF none
<1>3. mid = [open |-> none, gen |-> inbox.gen, cancelled |-> inbox.cancelled]
  BY DEF InboxTyped, IsInbox
<1>4. IsBatch(NoBatch)
  BY EmptyBatch DEF Counts
<1>5. IsInbox(mid)
  BY <1>2, <1>3, <1>4 DEF IsInbox, InboxTyped
<1>6. mid.open = none /\ mid.gen = inbox.gen
  BY <1>3
<1> HIDE DEF mid
<1>7. <<>> \in Seq(Batches)
  BY EmptySeq
<1>8. IsInbox(new) /\ new.open = mid.open /\ new.gen = mid.gen /\ new.cancelled = <<>>
  BY <1>5, <1>7, BoxSteps
<1>9. QED
  BY <1>1, <1>2, <1>6, <1>8 DEF InboxTyped

-----------------------------------------------------------------------------
(***************************************************************************)
(* What the parts of the invariant need of a step.                         *)
(***************************************************************************)
(* A batch has at least one entry, and MaxCount at most. *)
LEMMA Counting ==
    ASSUME SendTyped, NEW b \in Batches
    PROVE  /\ Count(b) \in Nat /\ Count(b) >= 1 /\ Count(b) <= MaxCount /\ MaxCount \in Nat
           /\ send[b].index \in 1..Count(b) /\ send[b].index \in 1..MaxCount
           /\ 1..Count(b) \subseteq 1..MaxCount
<1>1. items \in Manifests /\ send[b].index \in 1..Count(b)
  BY DEF SendTyped
<1>2. Len(items[b]) \in 1..MaxCount /\ MaxCount \in Nat
  BY <1>1, SizesAssumption
<1>3. QED
  BY <1>1, <1>2 DEF Count

(* The entries of a batch that count are finitely many. *)
LEMMA DoneFinite ==
    ASSUME SendTyped, NEW b \in Batches
    PROVE  IsFiniteSet(Done(b)) /\ Cardinality(Done(b)) \in Nat
<1>1. IsFiniteSet(1..Count(b))
  BY Counting, FS_Interval
<1>2. Done(b) \subseteq 1..Count(b)
  BY DEF Done
<1>3. QED
  BY <1>1, <1>2, FS_Subset, FS_CardinalityType

(* The sender, when an entry moves on that is not ahead of it: one that is *)
(* saved stays so.                                                         *)
LEMMA SenderKeeps ==
    ASSUME SenderKnows, UNCHANGED <<items, send>>,
           NEW b \in Batches, NEW i \in 1..MaxCount, NEW pc, NEW ok, NEW gen,
           Becomes(b, i, pc, ok, gen), stream[b][i].pc # "none",
           IsSaved(b, i) => ok /\ pc \in {"saved", "over"}
    PROVE  SenderKnows'
<1>1. Ahead'
  BY DEF Becomes, SenderKnows, Ahead
<1>2. Before'
  BY DEF Becomes, SenderKnows, Before, IsSaved
<1>3. SentAll'
  BY DEF SenderKnows, SentAll, Count
<1>4. QED
  BY <1>1, <1>2, <1>3 DEF SenderKnows

(* The receiver, when an entry moves on that no count has yet. *)
LEMMA ReceiverKeeps ==
    ASSUME ReceiverKnows, SendTyped, InboxTyped, UNCHANGED <<items, inbox, reported>>,
           NEW b \in Batches, NEW i \in 1..MaxCount, NEW pc, NEW ok, NEW gen \in Nat,
           Becomes(b, i, pc, ok, gen), stream[b][i].pc # "over", pc # "over",
           ok => pc = "saved", ok \/ pc = "saving" => gen > 0, gen <= inbox.gen
    PROVE  ReceiverKnows'
<1>1. Goods'
  BY DEF Becomes, ReceiverKnows, Goods
<1>2. ASSUME NEW c \in Batches
      PROVE  Done(c)' = Done(c)
  <2>1. 1..Count(c) \subseteq 1..MaxCount
    BY Counting
  <2>2. \A j \in 1..Count(c) :
          /\ stream'[c][j].pc = "over" <=> stream[c][j].pc = "over"
          /\ stream[c][j].pc = "over" => stream'[c][j] = stream[c][j]
    BY <2>1 DEF Becomes
  <2>3. QED
    BY <2>2 DEF Done, Count
<1>3. Counted'
  BY <1>2 DEF ReceiverKnows, Counted
<1>4. Reported'
  <2>1. ASSUME NEW r \in reported
        PROVE  /\ r.batch \in Batches
               /\ \A j \in 1..Count(r.batch) :
                     /\ stream'[r.batch][j].pc = "over" /\ stream'[r.batch][j].ok
                     /\ stream'[r.batch][j].gen = r.gen
    <3>1. r.batch \in Batches
      BY DEF ReceiverKnows, Reported
    <3>2. 1..Count(r.batch) \subseteq 1..MaxCount
      BY <3>1, Counting
    <3>3. QED
      BY <3>1, <3>2 DEF ReceiverKnows, Reported, Becomes
  <2>2. QED
    BY <2>1 DEF Reported, Count
<1>5. QED
  BY <1>1, <1>3, <1>4 DEF ReceiverKnows

(* The receiver, when nothing that counts changes. *)
LEMMA ReceiverStays ==
    ASSUME ReceiverKnows, SendTyped, InboxTyped, UNCHANGED <<items, inbox, reported>>, Kept
    PROVE  ReceiverKnows'
<1>1. Goods'
  BY DEF Kept, ReceiverKnows, Goods
<1>2. ASSUME NEW c \in Batches
      PROVE  Done(c)' = Done(c)
  <2>1. 1..Count(c) \subseteq 1..MaxCount
    BY Counting
  <2>2. QED
    BY <2>1 DEF Done, Count, Kept
<1>3. Counted'
  BY <1>2 DEF ReceiverKnows, Counted
<1>4. Reported'
  <2>1. ASSUME NEW r \in reported
        PROVE  /\ r.batch \in Batches
               /\ \A j \in 1..Count(r.batch) :
                     /\ stream'[r.batch][j].pc = "over" /\ stream'[r.batch][j].ok
                     /\ stream'[r.batch][j].gen = r.gen
    <3>1. r.batch \in Batches
      BY DEF ReceiverKnows, Reported
    <3>2. 1..Count(r.batch) \subseteq 1..MaxCount
      BY <3>1, Counting
    <3>3. QED
      BY <3>1, <3>2 DEF ReceiverKnows, Reported, Kept
  <2>2. QED
    BY <2>1 DEF Reported, Count
<1>5. QED
  BY <1>1, <1>3, <1>4 DEF ReceiverKnows

(* Posted headers, when another entry's stream moves on. *)
LEMMA PostedKeeps ==
    ASSUME Posted, QueuesTyped, UNCHANGED events,
           \/ Kept
           \/ \E b \in Batches, i \in 1..MaxCount : \E pc, ok, gen :
                 Becomes(b, i, pc, ok, gen) /\ stream[b][i].pc # "posted"
    PROVE  Posted'
<1>1. \A k \in DOMAIN events : events[k].type = "file" =>
        events[k].batch \in Batches /\ events[k].index \in 1..MaxCount
  BY DEF QueuesTyped, Events
<1>2. ASSUME NEW k \in DOMAIN events, events[k].type = "file"
      PROVE  stream'[events[k].batch][events[k].index].pc = "posted"
  BY <1>1, <1>2 DEF Posted, Kept, Becomes
<1>3. QED
  BY <1>2 DEF Posted

-----------------------------------------------------------------------------
(***************************************************************************)
(* The sender's steps.                                                     *)
(***************************************************************************)
Pcs == {"new", "sending", "waiting", "next", "sent", "failed"}

(* A batch's sender is elsewhere, the others are where they were. *)
Moves(b, pc, index) ==
    /\ SendTyped'
    /\ send'[b].pc = pc /\ send'[b].index = index
    /\ \A c \in Batches : c # b => send'[c] = send[c]

SendAt(x, pc) == [x EXCEPT !.pc = pc]

(* A step of one batch's sender (send). *)
LEMMA SenderMoves ==
    ASSUME SendTyped, NEW b \in Batches, NEW g, NEW pc \in Pcs, NEW index \in 1..Count(b),
           \/ g = [pc |-> pc, index |-> index]
           \/ g = SendAt(send[b], pc) /\ index = send[b].index,
           send' = [send EXCEPT ![b] = g], UNCHANGED items
    PROVE  Moves(b, pc, index)
<1>1. g \in [pc : Pcs, index : Nat] /\ g.pc = pc /\ g.index = index
  <2>1. Count(b) \in Nat
    BY Counting
  <2>2. send[b] \in [pc : Pcs, index : Nat]
    BY DEF SendTyped, Pcs
  <2>3. g = [pc |-> pc, index |-> index]
    BY <2>2 DEF SendAt
  <2>4. QED
    BY <2>1, <2>3
<1>2. send'[b] = g /\ \A c \in Batches : c # b => send'[c] = send[c]
  BY DEF SendTyped
<1>3. send' \in [Batches -> [pc : Pcs, index : Nat]]
  BY <1>1 DEF SendTyped, Pcs
<1>4. \A c \in Batches : send'[c].index \in 1..Count(c)
  BY <1>1, <1>2 DEF SendTyped
<1>5. SendTyped'
  BY <1>3, <1>4 DEF SendTyped, Pcs, Count
<1>6. QED
  BY <1>1, <1>2, <1>5 DEF Moves

(* A step that leaves the queues as they are. *)
LEMMA QueuesKeep ==
    ASSUME QueuesTyped
    PROVE  /\ UNCHANGED <<control, events>> => QueuesTyped'
           /\ \A b \in Batches, connected \in BOOLEAN :
                 /\ control' = (IF connected THEN Append(control, b) ELSE control)
                 /\ UNCHANGED events
                 => QueuesTyped'
           /\ \A e \in Events : events' = Append(events, e) /\ UNCHANGED control => QueuesTyped'
           /\ events # <<>> /\ events' = Tail(events) /\ UNCHANGED control => QueuesTyped'
<1>1. UNCHANGED <<control, events>> => QueuesTyped'
  BY DEF QueuesTyped, Events
<1>2. \A b \in Batches, connected \in BOOLEAN :
        /\ control' = (IF connected THEN Append(control, b) ELSE control)
        /\ UNCHANGED events
        => QueuesTyped'
  BY DEF QueuesTyped, Events
<1>3. \A e \in Events : events' = Append(events, e) /\ UNCHANGED control => QueuesTyped'
  BY DEF QueuesTyped, Events
<1>4. events # <<>> /\ events' = Tail(events) /\ UNCHANGED control => QueuesTyped'
  BY HeadTailProperties DEF QueuesTyped, Events
<1>5. QED
  BY <1>1, <1>2, <1>3, <1>4

(* A sender that stops where it is keeps what it knows. *)
LEMMA SenderStops ==
    ASSUME SenderKnows, UNCHANGED items, NEW b \in Batches, NEW pc,
           Moves(b, pc, send[b].index), pc \in {"sending", "waiting", "failed"},
           Kept \/ UNCHANGED stream
    PROVE  SenderKnows'
<1>1. \A c \in Batches, i \in 1..MaxCount :
        /\ stream'[c][i].pc = stream[c][i].pc /\ stream'[c][i].ok = stream[c][i].ok
  BY DEF Kept
<1>2. \A c \in Batches : /\ send'[c].index = send[c].index
                         /\ send'[c].pc \in {"new", "next", "sent"} => send'[c] = send[c]
  BY DEF Moves
<1>3. Ahead'
  BY <1>1, <1>2 DEF SenderKnows, Ahead
<1>4. Before'
  BY <1>1, <1>2 DEF SenderKnows, Before, IsSaved
<1>5. SentAll'
  BY <1>2 DEF SenderKnows, SentAll, Count
<1>6. QED
  BY <1>3, <1>4, <1>5 DEF SenderKnows

(* prepare fails: the batch is never sent. *)
LEMMA ScanFailsKeeps ==
    ASSUME IInv, NEW b \in Batches, ScanFails(b)
    PROVE  IInv'
<1>1. Shape /\ SenderKnows /\ Posted /\ ReceiverKnows /\ Remembered
  BY DEF IInv
<1>2. UNCHANGED <<items, stream, control, events, inbox, reported>>
  BY DEF ScanFails
<1>3. send' = [send EXCEPT ![b] = SendAt(send[b], "failed")]
  BY Zenon DEF ScanFails, SendAt
<1>4. send[b].index \in 1..Count(b)
  BY <1>1, Counting DEF Shape
<1>5. Moves(b, "failed", send[b].index)
  BY <1>1, <1>2, <1>3, <1>4, SenderMoves DEF Shape, Pcs
<1>6. SenderKnows'
  BY <1>1, <1>2, <1>5, SenderStops
<1>7. StreamsTyped' /\ Kept
  BY <1>1, <1>2 DEF Shape, StreamsTyped, Kept
<1>8. Shape'
  BY <1>1, <1>2, <1>5, <1>7, QueuesKeep DEF Shape, InboxTyped, Moves
<1>9. Posted'
  BY <1>1, <1>2, <1>7, PostedKeeps DEF Shape
<1>10. ReceiverKnows'
  BY <1>1, <1>2, <1>7, ReceiverStays DEF Shape
<1>11. Remembered'
  BY <1>1, <1>2 DEF Remembered
<1>12. QED
  BY <1>6, <1>8, <1>9, <1>10, <1>11 DEF IInv

(* The next file's stream opens. *)
LEMMA OpenStreamKeeps ==
    ASSUME IInv, NEW b \in Batches, OpenStream(b)
    PROVE  IInv'
<1> DEFINE i == send[b].index
<1>1. Shape /\ SenderKnows /\ Posted /\ ReceiverKnows /\ Remembered
  BY DEF IInv
<1>2. UNCHANGED <<items, control, events, inbox, reported>> /\ send[b].pc \in {"new", "next"}
  BY DEF OpenStream
<1>3. send' = [send EXCEPT ![b] = SendAt(send[b], "sending")]
  BY Zenon DEF OpenStream, SendAt
<1>4. i \in 1..Count(b) /\ i \in 1..MaxCount
  BY <1>1, Counting DEF Shape
<1>5. Moves(b, "sending", i)
  BY <1>1, <1>2, <1>3, <1>4, SenderMoves DEF Shape, Pcs
<1>6. Becomes(b, i, "header", FALSE, 0)
  BY <1>1, <1>4, SenderStreams DEF Shape
<1> HIDE DEF i
<1>7. stream[b][i].pc = "none"
  BY <1>1, <1>2, <1>4 DEF SenderKnows, Ahead, i
<1>8. Ahead'
  BY <1>1, <1>5, <1>6 DEF SenderKnows, Ahead, Moves, Becomes, i
<1>9. Before'
  <2>1. ASSUME NEW c \in Batches, NEW j \in 1..MaxCount,
               j < send'[c].index \/ (j = send'[c].index /\ send'[c].pc = "sent")
        PROVE  IsSaved(c, j) /\ stream'[c][j] = stream[c][j]
    BY <1>1, <1>5, <1>6, <1>7, <2>1 DEF SenderKnows, Before, Moves, Becomes, IsSaved, i
  <2>2. ASSUME NEW c \in Batches, NEW j \in 1..MaxCount,
               j < send'[c].index \/ (j = send'[c].index /\ send'[c].pc = "sent")
        PROVE  IsSaved(c, j)'
    BY <2>1, <2>2 DEF IsSaved
  <2>3. QED
    BY <2>2 DEF Before
<1>10. SentAll'
  BY <1>1, <1>2, <1>5 DEF SenderKnows, SentAll, Moves, Count
<1>11. Shape'
  BY <1>1, <1>2, <1>5, <1>6, QueuesKeep DEF Shape, InboxTyped, Moves, Becomes
<1>12. Posted'
  BY <1>1, <1>2, <1>4, <1>6, <1>7, PostedKeeps DEF Shape
<1>13. inbox.gen >= 0
  BY <1>1 DEF Shape, InboxTyped, IsInbox
<1>14. ReceiverKnows'
  BY <1>1, <1>2, <1>4, <1>6, <1>7, <1>13, ReceiverKeeps, Zenon DEF Shape
<1>15. Remembered'
  BY <1>1, <1>2 DEF Remembered
<1>16. QED
  BY <1>8, <1>9, <1>10, <1>11, <1>12, <1>14, <1>15 DEF IInv, SenderKnows

(* What no sender's step but OpenStream disturbs. *)
LEMMA RestKeeps ==
    ASSUME IInv, Kept, UNCHANGED <<items, inbox, reported>>
    PROVE  /\ UNCHANGED events => Posted'
           /\ ReceiverKnows' /\ Remembered' /\ StreamsTyped' /\ InboxTyped'
<1>1. Shape /\ SenderKnows /\ Posted /\ ReceiverKnows /\ Remembered
  BY DEF IInv
<1>2. UNCHANGED events => Posted'
  BY <1>1, PostedKeeps DEF Shape
<1>3. ReceiverKnows'
  BY <1>1, ReceiverStays DEF Shape
<1>4. Remembered'
  BY <1>1 DEF Remembered
<1>5. StreamsTyped' /\ InboxTyped'
  BY <1>1 DEF Kept, Shape, InboxTyped
<1>6. QED
  BY <1>2, <1>3, <1>4, <1>5

(* All bytes sent, or the file changed, or the time was out. *)
LEMMA SendingKeeps ==
    ASSUME IInv, NEW b \in Batches, Finish(b) \/ SendFails(b)
    PROVE  IInv'
<1>1. Shape /\ SenderKnows
  BY DEF IInv
<1>2. UNCHANGED <<items, events, inbox, reported>>
  BY DEF Finish, SendFails
<1>3. UNCHANGED control \/ control' = IF up THEN Append(control, b) ELSE control
  BY DEF Finish, SendFails, GiveUp
<1>4. send[b].index \in 1..Count(b) /\ send[b].index \in 1..MaxCount
  BY <1>1, Counting DEF Shape
<1>5. Kept
  BY <1>1, <1>4, SenderStreams DEF Shape
<1>6. \E pc \in {"waiting", "failed"} : send' = [send EXCEPT ![b] = SendAt(send[b], pc)]
  <2>1. Finish(b) => send' = [send EXCEPT ![b] = SendAt(send[b], "waiting")]
    BY Zenon DEF Finish, SendAt
  <2>2. SendFails(b) => send' = [send EXCEPT ![b] = SendAt(send[b], "failed")]
    BY Zenon DEF SendFails, GiveUp, SendAt
  <2>3. QED
    BY <2>1, <2>2
<1>7. PICK pc \in {"waiting", "failed"} : Moves(b, pc, send[b].index)
  BY <1>1, <1>2, <1>4, <1>6, SenderMoves DEF Shape, Pcs
<1>8. SenderKnows'
  BY <1>1, <1>2, <1>5, <1>7, SenderStops
<1>9. QueuesTyped'
  BY <1>1, <1>2, <1>3 DEF Shape, QueuesTyped, Events
<1>10. QED
  BY <1>2, <1>5, <1>7, <1>8, <1>9, RestKeeps DEF IInv, Shape, Moves

(* The receiver's answer: an entry the sender goes on from is saved. *)
LEMMA HearAnswerKeeps ==
    ASSUME IInv, NEW b \in Batches, HearAnswer(b)
    PROVE  IInv'
<1> DEFINE i == send[b].index
<1>1. Shape /\ SenderKnows
  BY DEF IInv
<1>2. UNCHANGED <<items, events, inbox, reported>>
  BY DEF HearAnswer
<1>3. UNCHANGED control \/ control' = IF up THEN Append(control, b) ELSE control
  BY DEF HearAnswer, GiveUp
<1>4. i \in 1..Count(b) /\ i \in 1..MaxCount /\ Count(b) \in Nat
  BY <1>1, Counting DEF Shape
<1>5. Kept
  BY <1>1, <1>4, SenderStreams DEF Shape
<1>6. QueuesTyped'
  BY <1>1, <1>2, <1>3 DEF Shape, QueuesTyped, Events
<1>7. \/ send' = [send EXCEPT ![b] = SendAt(send[b], "failed")]
      \/ /\ stream[b][i].ok /\ stream[b][i].pc \in {"saved", "over"}
         /\ \/ i = Count(b) /\ send' = [send EXCEPT ![b] = [pc |-> "sent", index |-> i]]
            \/ i # Count(b) /\ send' = [send EXCEPT ![b] = [pc |-> "next", index |-> i + 1]]
  BY Zenon DEF HearAnswer, GiveUp, SendAt
<1> HIDE DEF i
<1>8. CASE send' = [send EXCEPT ![b] = SendAt(send[b], "failed")]
  <2>1. Moves(b, "failed", i)
    BY <1>1, <1>2, <1>4, <1>8, SenderMoves DEF Shape, Pcs, i
  <2>2. SenderKnows'
    BY <1>1, <1>2, <1>5, <2>1, SenderStops DEF i
  <2>3. QED
    BY <1>2, <1>5, <1>6, <2>1, <2>2, RestKeeps DEF IInv, Shape, Moves
<1>9. ASSUME stream[b][i].ok, stream[b][i].pc \in {"saved", "over"},
             NEW pc \in {"sent", "next"}, NEW index \in 1..Count(b), Moves(b, pc, index),
             \/ pc = "sent" /\ index = i /\ i = Count(b)
             \/ pc = "next" /\ index = i + 1
      PROVE  IInv'
  <2>1. \A c \in Batches, j \in 1..MaxCount :
          stream'[c][j].pc = stream[c][j].pc /\ stream'[c][j].ok = stream[c][j].ok
    BY <1>5 DEF Kept
  <2>2. Ahead'
    BY <1>1, <1>4, <1>9, <2>1 DEF SenderKnows, Ahead, Moves, i
  <2>3. Before'
    <3>1. ASSUME NEW c \in Batches, NEW j \in 1..MaxCount,
                 j < send'[c].index \/ (j = send'[c].index /\ send'[c].pc = "sent")
          PROVE  IsSaved(c, j)
      <4>1. CASE c # b
        BY <1>1, <1>9, <3>1, <4>1 DEF SenderKnows, Before, Moves
      <4>2. CASE c = b /\ j < i
        BY <1>1, <4>2 DEF SenderKnows, Before, i
      <4>3. CASE c = b /\ ~(j < i)
        <5>1. j = i
          BY <1>4, <1>9, <3>1, <4>3 DEF Moves
        <5>2. QED
          BY <1>9, <4>3, <5>1 DEF IsSaved
      <4>4. QED
        BY <4>1, <4>2, <4>3
    <3>2. \A c \in Batches, j \in 1..MaxCount :
            IsSaved(c, j) => IsSaved(c, j)'
      BY <2>1, Zenon DEF IsSaved
    <3>3. QED
      BY <3>1, <3>2 DEF Before
  <2>4. SentAll'
    BY <1>1, <1>2, <1>9 DEF SenderKnows, SentAll, Moves, Count
  <2>5. QED
    BY <1>2, <1>5, <1>6, <1>9, <2>2, <2>3, <2>4, RestKeeps
    DEF IInv, Shape, Moves, SenderKnows
<1>10. CASE /\ stream[b][i].ok /\ stream[b][i].pc \in {"saved", "over"}
            /\ i = Count(b) /\ send' = [send EXCEPT ![b] = [pc |-> "sent", index |-> i]]
  <2>1. Moves(b, "sent", i)
    BY <1>1, <1>2, <1>4, <1>10, SenderMoves DEF Shape, Pcs
  <2>2. QED
    BY <1>4, <1>9, <1>10, <2>1
<1>11. CASE /\ stream[b][i].ok /\ stream[b][i].pc \in {"saved", "over"}
            /\ i # Count(b) /\ send' = [send EXCEPT ![b] = [pc |-> "next", index |-> i + 1]]
  <2>1. i + 1 \in 1..Count(b)
    BY <1>4, <1>11
  <2>2. Moves(b, "next", i + 1)
    BY <1>1, <1>2, <1>11, <2>1, SenderMoves DEF Shape, Pcs
  <2>3. QED
    BY <1>4, <1>9, <1>11, <2>1, <2>2
<1>12. QED
  BY <1>7, <1>8, <1>10, <1>11 DEF i

-----------------------------------------------------------------------------
(***************************************************************************)
(* The connection, and what is posted to the run loop.                     *)
(***************************************************************************)

(* An event that is no header. *)
LEMMA PostedAppends ==
    ASSUME Posted, QueuesTyped, Kept \/ UNCHANGED stream, NEW e \in Events,
           e.type # "file", events' = Append(events, e)
    PROVE  Posted'
<1>1. \A k \in DOMAIN events' : \/ k \in DOMAIN events /\ events'[k] = events[k]
                                \/ events'[k] = e
  BY DEF QueuesTyped
<1>2. \A k \in DOMAIN events : events[k].type = "file" =>
        events[k].batch \in Batches /\ events[k].index \in 1..MaxCount
  BY DEF QueuesTyped, Events
<1>3. \A b \in Batches, i \in 1..MaxCount : stream'[b][i].pc = stream[b][i].pc
  BY DEF Kept
<1>4. QED
  BY <1>1, <1>2, <1>3 DEF Posted

(* A break fails what is under way, on both ends. *)
LEMMA BreakKeeps ==
    ASSUME IInv, NEW replaced \in BOOLEAN, Break(replaced)
    PROVE  IInv'
<1>1. Shape /\ SenderKnows /\ Posted
  BY DEF IInv
<1>2. UNCHANGED <<items, inbox, reported>> /\ control' = <<>>
  BY DEF Break
<1>3. Kept
  BY <1>1, BreakStreams DEF Shape
<1>4. [type |-> "lost"] \in Events
  BY DEF Events
<1>5. UNCHANGED events \/ events' = Append(events, [type |-> "lost"])
  BY DEF Break
<1>6. Posted'
  BY <1>1, <1>2, <1>3, <1>4, <1>5, RestKeeps, PostedAppends DEF Shape
<1>7. QueuesTyped'
  <2>1. control' \in Seq(Batches)
    BY <1>2, EmptySeq
  <2>2. events \in Seq(Events) /\ [type |-> "lost"] \in Events
    BY <1>1 DEF Shape, QueuesTyped, Events
  <2>3. events' \in Seq(Events)
    BY <1>5, <2>2, AppendProperties
  <2>4. QED
    BY <2>1, <2>3 DEF QueuesTyped
<1> DEFINE g(b) == IF send[b].pc \in {"sending", "waiting", "next"}
                   THEN SendAt(send[b], "failed") ELSE send[b]
<1>8. send' = [b \in Batches |-> g(b)]
  BY Zenon DEF Break, SendAt
<1>9. \A b \in Batches :
        /\ g(b) \in [pc : Pcs, index : Nat] /\ g(b).index = send[b].index
        /\ g(b).pc \in {"new", "next", "sent"} => g(b) = send[b]
  BY <1>1 DEF Shape, SendTyped, SendAt, Pcs
<1> HIDE DEF g
<1>10. \A b \in Batches : send'[b] = g(b)
  BY <1>8
<1>11. SendTyped'
  BY <1>1, <1>2, <1>8, <1>9, <1>10 DEF Shape, SendTyped, Pcs, Count
<1>12. \A b \in Batches : /\ send'[b].index = send[b].index
                          /\ send'[b].pc \in {"new", "next", "sent"} => send'[b] = send[b]
  BY <1>9, <1>10
<1>13. \A b \in Batches, i \in 1..MaxCount :
         stream'[b][i].pc = stream[b][i].pc /\ stream'[b][i].ok = stream[b][i].ok
  BY <1>3 DEF Kept
<1>14. Ahead'
  BY <1>1, <1>12, <1>13 DEF SenderKnows, Ahead
<1>15. Before'
  BY <1>1, <1>12, <1>13 DEF SenderKnows, Before, IsSaved
<1>16. SentAll'
  BY <1>1, <1>2, <1>12 DEF SenderKnows, SentAll, Count
<1>17. QED
  BY <1>2, <1>3, <1>6, <1>7, <1>11, <1>14, <1>15, <1>16, RestKeeps
  DEF IInv, Shape, SenderKnows

(* A sender's knowledge, when neither it nor the streams change. *)
LEMMA SenderStays ==
    ASSUME SenderKnows, UNCHANGED <<items, send, stream>>
    PROVE  SenderKnows'
BY DEF SenderKnows, Ahead, Before, IsSaved, SentAll, Count

(* A new connection, a cancellation: one more event. *)
LEMMA PostingKeeps ==
    ASSUME IInv, Reconnect \/ CancelRead
    PROVE  IInv'
<1>1. Shape /\ SenderKnows /\ Posted
  BY DEF IInv
<1>2. UNCHANGED <<items, send, stream, inbox, reported>>
  BY DEF Reconnect, CancelRead
<1>3. Kept
  BY <1>1, <1>2 DEF Shape, StreamsTyped, Kept
<1>4. PICK e \in Events : e.type # "file" /\ events' = Append(events, e)
  <2>1. [type |-> "connected"] \in Events /\ \A b \in Batches : FileCancel(b) \in Events
    BY DEF Events, FileCancel
  <2>2. CancelRead => Head(control) \in Batches
    BY <1>1 DEF Shape, QueuesTyped, CancelRead
  <2>3. QED
    BY <2>1, <2>2 DEF Reconnect, CancelRead, FileCancel
<1>5. UNCHANGED control \/ (control # <<>> /\ control' = Tail(control))
  BY DEF Reconnect, CancelRead
<1>6. control' \in Seq(Batches)
  BY <1>1, <1>5, HeadTailProperties DEF Shape, QueuesTyped
<1>7. QueuesTyped'
  BY <1>1, <1>4, <1>6 DEF Shape, QueuesTyped, Events
<1>8. Posted'
  BY <1>1, <1>3, <1>4, PostedAppends DEF Shape
<1>9. SendTyped'
  BY <1>1, <1>2 DEF Shape, SendTyped, Count
<1>10. QED
  BY <1>1, <1>2, <1>3, <1>7, <1>8, <1>9, RestKeeps, SenderStays DEF IInv, Shape

(* A header read is posted once; one that could not be read is not. *)
LEMMA HeaderReadKeeps ==
    ASSUME IInv, NEW b \in Batches, NEW i \in 1..MaxCount, HeaderRead(b, i)
    PROVE  IInv'
<1> DEFINE s == stream[b][i]
           e == FileHeader(b, i)
<1>1. Shape /\ SenderKnows /\ Posted /\ ReceiverKnows /\ Remembered
  BY DEF IInv
<1>2. UNCHANGED <<items, send, control, inbox, reported>> /\ s.pc = "header"
  BY DEF HeaderRead
<1>3. IsEntry(s) /\ s.gen \in Nat /\ ~s.ok /\ s.gen <= inbox.gen
  BY <1>1, <1>2 DEF Shape, StreamsTyped, IsEntry, ReceiverKnows, Goods
<1>4. e \in Events /\ e.type = "file" /\ e.batch = b /\ e.index = i
  BY DEF Events, FileHeader
<1>5. \/ Becomes(b, i, "posted", s.ok, s.gen) /\ events' = Append(events, e)
      \/ Becomes(b, i, "gone", s.ok, s.gen) /\ UNCHANGED events
  BY <1>1, TaskStreams DEF Shape
<1> HIDE DEF s, e
<1>6. PICK pc \in {"posted", "gone"} : Becomes(b, i, pc, s.ok, s.gen)
  BY <1>5
<1>7. SenderKnows'
  BY <1>1, <1>2, <1>3, <1>6, SenderKeeps DEF IsSaved, s
<1>8. ReceiverKnows'
  <2>1. s.pc # "over" /\ pc # "over" /\ pc # "saving" /\ pc \notin {"saved"}
    BY <1>2
  <2>2. QED
    BY <1>1, <1>2, <1>3, <1>6, <2>1, ReceiverKeeps DEF Shape, s
<1>9. Posted'
  <2>1. CASE UNCHANGED events
    BY <1>1, <1>2, <1>6, <2>1, PostedKeeps DEF Shape, s
  <2>2. CASE Becomes(b, i, "posted", s.ok, s.gen) /\ events' = Append(events, e)
    <3>1. \A k \in DOMAIN events' :
            \/ k \in DOMAIN events /\ events'[k] = events[k]
            \/ k = Len(events) + 1 /\ k \notin DOMAIN events /\ events'[k] = e
      BY <1>1, <2>2 DEF Shape, QueuesTyped
    <3>2. \A k \in DOMAIN events : events[k].type = "file" =>
            /\ events[k].batch \in Batches /\ events[k].index \in 1..MaxCount
            /\ events[k].batch # b \/ events[k].index # i
      BY <1>1, <1>2 DEF Shape, QueuesTyped, Events, Posted, s
    <3>3. ASSUME NEW k \in DOMAIN events', events'[k].type = "file"
          PROVE  stream'[events'[k].batch][events'[k].index].pc = "posted"
      BY <1>1, <1>4, <2>2, <3>1, <3>2, <3>3 DEF Posted, Becomes
    <3>4. ASSUME NEW k \in DOMAIN events', events'[k].type = "file",
                 NEW l \in DOMAIN events', l # k, events'[l].type = "file"
          PROVE  events'[l].batch # events'[k].batch \/ events'[l].index # events'[k].index
      BY <1>1, <1>4, <3>1, <3>2, <3>4 DEF Posted
    <3>5. QED
      BY <3>3, <3>4 DEF Posted
  <2>3. QED
    BY <1>5, <2>1, <2>2
<1>10. QueuesTyped'
  BY <1>1, <1>2, <1>4, <1>5 DEF Shape, QueuesTyped, Events
<1>11. Shape' /\ Remembered'
  BY <1>1, <1>2, <1>6, <1>10 DEF Shape, SendTyped, Count, InboxTyped, Becomes, Remembered
<1>12. QED
  BY <1>7, <1>8, <1>9, <1>11 DEF IInv

-----------------------------------------------------------------------------
(***************************************************************************)
(* The receiver's steps.                                                   *)
(***************************************************************************)

(* A save ends: the entry is good or is not, and is not counted yet. *)
LEMMA SaveKeeps ==
    ASSUME IInv, NEW b \in Batches, NEW i \in 1..MaxCount, Saved(b, i) \/ SaveFails(b, i)
    PROVE  IInv'
<1> DEFINE s == stream[b][i]
<1>1. Shape /\ SenderKnows /\ Posted /\ ReceiverKnows /\ Remembered
  BY DEF IInv
<1>2. UNCHANGED <<items, send, control, events, inbox, reported>> /\ s.pc = "saving"
  BY DEF Saved, SaveFails
<1>3. IsEntry(s) /\ s.gen \in Nat /\ ~s.ok /\ s.gen <= inbox.gen /\ s.gen > 0
  BY <1>1, <1>2 DEF Shape, StreamsTyped, IsEntry, ReceiverKnows, Goods
<1>4. Becomes(b, i, "saved", TRUE, s.gen) \/ Becomes(b, i, "saved", FALSE, s.gen)
  BY <1>1, TaskStreams DEF Shape
<1> HIDE DEF s
<1>5. PICK ok : Becomes(b, i, "saved", ok, s.gen)
  BY <1>4
<1>6. SenderKnows'
  BY <1>1, <1>2, <1>3, <1>5, SenderKeeps DEF IsSaved, s
<1>7. ReceiverKnows'
  <2>1. s.pc # "over" /\ "saved" # "over"
    BY <1>2
  <2>2. QED
    BY <1>1, <1>2, <1>3, <1>5, <2>1, ReceiverKeeps DEF Shape, s
<1>8. Posted'
  BY <1>1, <1>2, <1>5, PostedKeeps DEF Shape, s
<1>9. Shape' /\ Remembered'
  BY <1>1, <1>2, <1>5, QueuesKeep
  DEF Shape, SendTyped, Count, InboxTyped, Becomes, Remembered
<1>10. QED
  BY <1>6, <1>7, <1>8, <1>9 DEF IInv

(* A queue of events without its first. *)
LEMMA PostedTail ==
    ASSUME Posted, QueuesTyped, events # <<>>, events' = Tail(events),
           \A b \in Batches, i \in 1..MaxCount :
              \/ stream'[b][i].pc = stream[b][i].pc
              \/ /\ Head(events).type = "file"
                 /\ Head(events).batch = b /\ Head(events).index = i
    PROVE  Posted'
<1>1. /\ \A k \in DOMAIN events' : k + 1 \in DOMAIN events /\ events'[k] = events[k + 1]
      /\ Head(events) = events[1] /\ 1 \in DOMAIN events
      /\ \A k \in DOMAIN events' : k + 1 # 1
      /\ \A k, l \in DOMAIN events' : k # l => k + 1 # l + 1
  BY HeadTailProperties DEF QueuesTyped
<1>2. \A k \in DOMAIN events : events[k].type = "file" =>
        events[k].batch \in Batches /\ events[k].index \in 1..MaxCount
  BY DEF QueuesTyped, Events
<1>3. ASSUME NEW k \in DOMAIN events', events'[k].type = "file"
      PROVE  stream'[events'[k].batch][events'[k].index].pc = "posted"
  <2> DEFINE e == events[k + 1]
  <2>1. e = events'[k] /\ e.type = "file" /\ e.batch \in Batches /\ e.index \in 1..MaxCount
    BY <1>1, <1>2, <1>3
  <2>2. stream[e.batch][e.index].pc = "posted"
    BY <1>1, <2>1 DEF Posted
  <2>3. Head(events).type = "file" =>
          e.batch # Head(events).batch \/ e.index # Head(events).index
    BY <1>1, <2>1 DEF Posted
  <2>4. QED
    BY <2>1, <2>2, <2>3
<1>4. ASSUME NEW k \in DOMAIN events', events'[k].type = "file",
             NEW l \in DOMAIN events', l # k, events'[l].type = "file"
      PROVE  events'[l].batch # events'[k].batch \/ events'[l].index # events'[k].index
  BY <1>1, <1>4 DEF Posted
<1>5. QED
  BY <1>3, <1>4 DEF Posted

(* A cancellation, a lost or a new connection: batches close. *)
LEMMA ClosingKeeps ==
    ASSUME IInv, InboxTyped', UNCHANGED <<items, send, stream, control, reported>>,
           events # <<>>, events' = Tail(events), inbox'.gen = inbox.gen,
           \A b \in Batches : inbox'.open[b] \in {inbox.open[b], NoBatch},
           Remembered'
    PROVE  IInv'
<1>1. Shape /\ SenderKnows /\ Posted /\ ReceiverKnows
  BY DEF IInv
<1>2. Shape'
  BY <1>1, QueuesKeep DEF Shape, SendTyped, Count, StreamsTyped
<1>3. SenderKnows'
  BY <1>1, SenderStays
<1>4. Posted'
  BY <1>1, PostedTail DEF Shape
<1>5. Goods'
  BY <1>1 DEF ReceiverKnows, Goods
<1>6. Counted'
  <2>1. ASSUME NEW b \in Batches
        PROVE  /\ inbox'.open[b].done = Cardinality(Done(b)')
               /\ inbox'.open[b].gen <= inbox'.gen
               /\ inbox'.open[b] # NoBatch => inbox'.open[b].gen > 0
    <3>1. CASE inbox'.open[b] = inbox.open[b]
      <4>1. Done(b)' = Done(b)
        BY <3>1 DEF Done, Count
      <4>2. QED
        BY <1>1, <3>1, <4>1 DEF ReceiverKnows, Counted
    <3>2. CASE inbox'.open[b] = NoBatch
      <4>1. NoBatch.gen = 0 /\ NoBatch.done = 0
        BY EmptyBatch DEF Counts
      <4>2. 1..Count(b) \subseteq 1..MaxCount
        BY <1>1, Counting DEF Shape
      <4>3. \A i \in 1..Count(b) : stream[b][i].ok => stream[b][i].gen # 0
        <5>1. \A i \in 1..Count(b) : stream[b][i].gen \in Nat
          BY <1>1, <4>2 DEF Shape, StreamsTyped, IsEntry
        <5>2. QED
          BY <1>1, <4>2, <5>1 DEF ReceiverKnows, Goods
      <4>4. Done(b)' = {}
        BY <3>2, <4>1, <4>3 DEF Done, Count
      <4>5. inbox.gen \in Nat
        BY <1>1 DEF Shape, InboxTyped, IsInbox
      <4>6. Cardinality({}) = 0
        BY FS_EmptySet
      <4>7. QED
        BY <3>2, <4>1, <4>4, <4>5, <4>6
    <3>3. QED
      BY <3>1, <3>2
  <2>2. QED
    BY <2>1 DEF Counted
<1>7. Reported'
  BY <1>1 DEF ReceiverKnows, Reported, Count
<1>8. QED
  BY <1>2, <1>3, <1>4, <1>5, <1>6, <1>7 DEF IInv, ReceiverKnows

(* Closing a batch leaves what is remembered closed. *)
LEMMA ClosesRemembers ==
    ASSUME InboxTyped, Remembered, NEW b \in Batches, Closes(b)
    PROVE  Remembered'
<1>1. Range(inbox'.cancelled) \subseteq Range(inbox.cancelled) \cup {b}
  BY Forgets DEF Closes, InboxTyped, IsInbox
<1>2. Range(inbox.cancelled) \subseteq Batches
  BY DEF InboxTyped, IsInbox, Range
<1>3. QED
  BY <1>1, <1>2 DEF Remembered, Closes, Opens

(* The run loop hears a cancellation. *)
LEMMA OnCancelKeeps ==
    ASSUME IInv, OnCancel
    PROVE  IInv'
<1> DEFINE b == Head(events).batch
<1>1. InboxTyped /\ QueuesTyped /\ Remembered
  BY DEF IInv, Shape
<1>2. /\ UNCHANGED <<items, send, stream, control, reported>>
      /\ events # <<>> /\ events' = Tail(events) /\ Head(events).type = "cancel"
      /\ inbox' = Cancel(inbox, b)
  BY DEF OnCancel, Next1
<1>3. b \in Batches
  <2>1. Head(events) \in Events
    BY <1>1, <1>2, HeadTailProperties DEF QueuesTyped
  <2>2. QED
    BY <1>2, <2>1 DEF Events
<1> HIDE DEF b
<1>4. Closes(b)
  BY <1>1, <1>2, <1>3, CancelSteps DEF Closes, InboxTyped
<1>5. Remembered'
  BY <1>1, <1>3, <1>4, ClosesRemembers
<1>6. InboxTyped' /\ \A c \in Batches : inbox'.open[c] \in {inbox.open[c], NoBatch}
  BY <1>4 DEF Closes, Opens, InboxTyped
<1>7. QED
  BY <1>2, <1>4, <1>5, <1>6, ClosingKeeps DEF Closes

(* The run loop hears that the connection is lost, or that there is one. *)
LEMMA ConnectionKeeps ==
    ASSUME IInv, OnLost \/ OnConnected
    PROVE  IInv'
<1>1. InboxTyped /\ Remembered
  BY DEF IInv, Shape
<1>2. /\ UNCHANGED <<items, send, stream, control, reported>>
      /\ events # <<>> /\ events' = Tail(events)
  BY DEF OnLost, OnConnected, Next1
<1>3. CASE OnLost
  <2>1. /\ InboxTyped' /\ inbox'.gen = inbox.gen
        /\ \A b \in Batches : inbox'.open[b] = NoBatch
        /\ inbox'.cancelled = <<>>
    BY <1>1, <1>3, LostSteps
  <2>2. Remembered'
    BY <2>1, EmptySeq DEF Remembered, Range
  <2>3. QED
    BY <1>2, <2>1, <2>2, ClosingKeeps
<1>4. CASE OnConnected
  <2>1. UNCHANGED inbox
    BY <1>4 DEF OnConnected
  <2>2. InboxTyped' /\ Remembered'
    BY <1>1, <2>1 DEF InboxTyped, Remembered
  <2>3. QED
    BY <1>2, <2>1, <2>2, ClosingKeeps
<1>5. QED
  BY <1>3, <1>4

(* A file's task leaves the queue, refused or to be saved: counts stay, or *)
(* a new generation starts, of which nothing is saved yet.                 *)
LEMMA FileCounts ==
    ASSUME ReceiverKnows, SendTyped, StreamsTyped, InboxTyped, InboxTyped',
           UNCHANGED <<items, reported>>,
           NEW b \in Batches, NEW i \in 1..MaxCount, NEW pc, NEW gen \in Nat,
           Becomes(b, i, pc, FALSE, gen), stream[b][i].pc # "over", pc \in {"saved", "saving"},
           pc = "saving" => gen > 0, gen <= inbox'.gen, inbox'.gen >= inbox.gen,
           \A c \in Batches : c # b => inbox'.open[c] = inbox.open[c],
           NEW x, x = inbox'.open[b], x # NoBatch => x.gen > 0, x.gen <= inbox'.gen,
           \/ x.gen = inbox.open[b].gen /\ x.done = inbox.open[b].done
           \/ x.gen = inbox.gen + 1 /\ x.done = 0
    PROVE  ReceiverKnows'
<1>1. inbox.gen \in Nat /\ inbox'.gen \in Nat /\ IsBatch(x)
      /\ \A c \in Batches : IsBatch(inbox.open[c])
  BY DEF InboxTyped, IsInbox
<1>2. \A c \in Batches, j \in 1..MaxCount : stream[c][j].gen \in Nat
  BY DEF StreamsTyped, IsEntry
<1>3. Goods'
  <2>1. ASSUME NEW c \in Batches, NEW j \in 1..MaxCount, c # b \/ j # i
        PROVE  /\ stream'[c][j].ok => stream'[c][j].pc \in {"saved", "over"}
               /\ stream'[c][j].ok \/ stream'[c][j].pc = "saving" => stream'[c][j].gen > 0
               /\ stream'[c][j].gen <= inbox'.gen
    <3>1. stream'[c][j] = stream[c][j]
      BY <2>1 DEF Becomes
    <3>2. stream[c][j].gen <= inbox.gen
      BY DEF ReceiverKnows, Goods
    <3>3. stream[c][j].gen <= inbox'.gen
      BY <1>1, <1>2, <3>2
    <3>4. QED
      BY <3>1, <3>3 DEF ReceiverKnows, Goods
  <2>2. /\ ~stream'[b][i].ok
        /\ stream'[b][i].pc = "saving" => stream'[b][i].gen > 0
        /\ stream'[b][i].gen <= inbox'.gen
    BY DEF Becomes
  <2>3. QED
    BY <2>1, <2>2 DEF Goods
<1>4. \A c \in Batches, j \in 1..MaxCount :
        /\ stream'[c][j].pc = "over" <=> stream[c][j].pc = "over"
        /\ stream[c][j].pc = "over" => stream'[c][j] = stream[c][j]
  BY DEF Becomes
<1>5. Counted'
  <2>1. ASSUME NEW c \in Batches, inbox'.open[c].gen = inbox.open[c].gen
        PROVE  Done(c)' = Done(c)
    <3>1. 1..Count(c) \subseteq 1..MaxCount
      BY Counting
    <3>2. QED
      BY <1>4, <2>1, <3>1 DEF Done, Count
  <2>2. ASSUME NEW c \in Batches, c # b
        PROVE  /\ inbox'.open[c].done = Cardinality(Done(c)')
               /\ inbox'.open[c].gen <= inbox'.gen
               /\ inbox'.open[c] # NoBatch => inbox'.open[c].gen > 0
    <3>1. inbox'.open[c] = inbox.open[c]
      BY <2>2
    <3>2. /\ inbox.open[c].done = Cardinality(Done(c))
          /\ inbox.open[c].gen <= inbox.gen
          /\ inbox.open[c] # NoBatch => inbox.open[c].gen > 0
      BY DEF ReceiverKnows, Counted
    <3>3. inbox.open[c].gen \in Nat
      BY <1>1 DEF IsBatch
    <3>4. inbox.open[c].gen <= inbox'.gen
      BY <1>1, <3>2, <3>3
    <3>5. QED
      BY <2>1, <3>1, <3>2, <3>4
  <2>3. x.done = Cardinality(Done(b)')
    <3>1. CASE x.gen = inbox.open[b].gen /\ x.done = inbox.open[b].done
      <4>1. Done(b)' = Done(b)
        BY <2>1, <3>1
      <4>2. QED
        BY <3>1, <4>1 DEF ReceiverKnows, Counted
    <3>2. CASE x.gen = inbox.gen + 1 /\ x.done = 0
      <4>1. 1..Count(b) \subseteq 1..MaxCount
        BY Counting
      <4>2. \A j \in 1..Count(b) : stream[b][j].gen # x.gen
        <5>1. \A j \in 1..Count(b) : stream[b][j].gen <= inbox.gen
          BY <4>1 DEF ReceiverKnows, Goods
        <5>2. QED
          BY <1>1, <1>2, <3>2, <4>1, <5>1
      <4>3. Done(b)' = {}
        BY <1>4, <4>1, <4>2 DEF Done, Count
      <4>4. QED
        BY <3>2, <4>3, FS_EmptySet
    <3>3. QED
      BY <3>1, <3>2
  <2>4. QED
    BY <2>2, <2>3 DEF Counted
<1>6. Reported'
  <2>1. ASSUME NEW r \in reported
        PROVE  /\ r.batch \in Batches
               /\ \A j \in 1..Count(r.batch) :
                     /\ stream'[r.batch][j].pc = "over" /\ stream'[r.batch][j].ok
                     /\ stream'[r.batch][j].gen = r.gen
    <3>1. r.batch \in Batches
      BY DEF ReceiverKnows, Reported
    <3>2. 1..Count(r.batch) \subseteq 1..MaxCount
      BY <3>1, Counting
    <3>3. QED
      BY <1>4, <3>1, <3>2 DEF ReceiverKnows, Reported
  <2>2. QED
    BY <2>1 DEF Reported, Count
<1>7. QED
  BY <1>3, <1>5, <1>6 DEF ReceiverKnows

(* Inbox::receive: a header is answered or its save starts. *)
LEMMA OnFileKeeps ==
    ASSUME IInv, OnFile
    PROVE  IInv'
<1> DEFINE b == Head(events).batch
           i == Head(events).index
<1>1. Shape /\ SenderKnows /\ Posted /\ ReceiverKnows /\ Remembered
  BY DEF IInv
<1>2. /\ UNCHANGED <<items, send, control, reported>>
      /\ events # <<>> /\ events' = Tail(events) /\ Head(events).type = "file"
  BY DEF OnFile, Next1
<1>3. b \in Batches /\ i \in 1..MaxCount /\ Head(events) = events[1] /\ 1 \in DOMAIN events
  <2>1. Head(events) \in Events /\ Head(events) = events[1] /\ 1 \in DOMAIN events
    BY <1>1, <1>2, HeadTailProperties DEF Shape, QueuesTyped
  <2>2. QED
    BY <1>2, <2>1 DEF Events
<1>4. stream[b][i].pc = "posted"
  BY <1>1, <1>2, <1>3 DEF Posted
<1>5. FileGone(b, i) \/ FileRefused(b, i) \/ FileStarts(b, i)
  BY <1>1, <1>3, FileSteps DEF Shape
<1>6. Head(events).batch = b /\ Head(events).index = i
  OBVIOUS
<1> HIDE DEF b, i
<1>7. IsEntry(stream[b][i]) /\ stream[b][i].gen \in Nat /\ ~stream[b][i].ok
      /\ stream[b][i].gen <= inbox.gen /\ stream[b][i].ok = FALSE
  BY <1>1, <1>3, <1>4 DEF Shape, StreamsTyped, IsEntry, ReceiverKnows, Goods
<1>8. ASSUME NEW pc, NEW gen, Becomes(b, i, pc, FALSE, gen), InboxTyped',
             ReceiverKnows', Remembered'
      PROVE  IInv'
  <2>1. SenderKnows'
    BY <1>1, <1>2, <1>3, <1>4, <1>7, <1>8, SenderKeeps DEF IsSaved
  <2>2. Posted'
    <3>1. \A c \in Batches, j \in 1..MaxCount :
            \/ stream'[c][j].pc = stream[c][j].pc
            \/ /\ Head(events).type = "file"
               /\ Head(events).batch = c /\ Head(events).index = j
      BY <1>2, <1>6, <1>8 DEF Becomes
    <3>2. QED
      BY <1>1, <1>2, <3>1, PostedTail DEF Shape
  <2>3. Shape'
    BY <1>1, <1>2, <1>8, QueuesKeep DEF Shape, SendTyped, Count, Becomes
  <2>4. QED
    BY <1>8, <2>1, <2>2, <2>3 DEF IInv
<1>9. CASE FileGone(b, i)
  <2>1. Becomes(b, i, "gone", FALSE, stream[b][i].gen) /\ UNCHANGED inbox
    BY <1>7, <1>9 DEF FileGone
  <2>2. ReceiverKnows'
    <3>1. stream[b][i].pc # "over" /\ "gone" # "over" /\ "gone" # "saving"
      BY <1>4
    <3>2. QED
      BY <1>1, <1>2, <1>3, <1>7, <2>1, <3>1, ReceiverKeeps DEF Shape
  <2>3. InboxTyped' /\ Remembered'
    BY <1>1, <2>1 DEF Shape, InboxTyped, Remembered
  <2>4. QED
    BY <1>8, <2>1, <2>2, <2>3
<1> DEFINE old == inbox.open[b]
<1>10. /\ inbox.gen \in Nat /\ old.gen \in Nat /\ old.gen <= inbox.gen
       /\ old # NoBatch => old.gen > 0
  BY <1>1, <1>3 DEF Shape, InboxTyped, IsInbox, IsBatch, ReceiverKnows, Counted
<1>11. CASE FileRefused(b, i)
  <2>1. Becomes(b, i, "saved", FALSE, old.gen)
    BY <1>7, <1>11 DEF FileRefused
  <2>2. InboxTyped' /\ inbox'.open = inbox.open /\ inbox'.cancelled = inbox.cancelled
    BY <1>11 DEF FileRefused, InboxTyped
  <2>3. inbox'.gen \in {inbox.gen, inbox.gen + 1}
    BY <1>11 DEF FileRefused
  <2>4. old = inbox'.open[b] /\ \A c \in Batches : inbox'.open[c] = inbox.open[c]
    BY <2>2
  <2> HIDE DEF old
  <2>5. inbox'.gen >= inbox.gen /\ old.gen <= inbox'.gen
    BY <1>10, <2>3
  <2>6. ReceiverKnows'
    <3>1. stream[b][i].pc # "over" /\ "saved" # "saving"
      BY <1>4
    <3>2. old.gen = inbox.open[b].gen /\ old.done = inbox.open[b].done
      BY DEF old
    <3>3. QED
      BY <1>1, <1>2, <1>3, <1>10, <2>1, <2>2, <2>4, <2>5, <3>1, <3>2, FileCounts DEF Shape
  <2>7. Remembered'
    BY <1>1, <2>2 DEF Remembered
  <2>8. QED
    BY <1>8, <2>1, <2>2, <2>6, <2>7
<1>12. CASE FileStarts(b, i)
  <2>1. PICK x : Opens(inbox, inbox', b, x) /\ Counts(x, Joined(b).gen, Joined(b).done)
    BY <1>12 DEF FileStarts
  <2>2. Becomes(b, i, "saving", FALSE, Joined(b).gen)
    BY <1>7, <1>12 DEF FileStarts
  <2>3. /\ InboxTyped' /\ x = inbox'.open[b] /\ IsBatch(x)
        /\ x.gen = Joined(b).gen /\ x.done = Joined(b).done
        /\ \A c \in Batches : c # b => inbox'.open[c] = inbox.open[c]
    BY <2>1 DEF Opens, InboxTyped, Counts
  <2>4. /\ inbox'.gen = IF inbox.open[b] = NoBatch THEN inbox.gen + 1 ELSE inbox.gen
        /\ inbox'.cancelled = inbox.cancelled /\ b \notin Range(inbox.cancelled)
    BY <1>12 DEF FileStarts
  <2>5. /\ x.gen \in Nat /\ x.gen > 0 /\ x.gen <= inbox'.gen /\ inbox'.gen >= inbox.gen
        /\ \/ x.gen = inbox.open[b].gen /\ x.done = inbox.open[b].done
           \/ x.gen = inbox.gen + 1 /\ x.done = 0
    <3>1. CASE old = NoBatch
      <4>1. Joined(b).gen = inbox.gen + 1 /\ Joined(b).done = 0
        BY <1>1, <1>3, <3>1, JoinedIs DEF Shape, Counts
      <4>2. x.gen = inbox.gen + 1 /\ x.done = 0 /\ inbox'.gen = inbox.gen + 1
        BY <2>3, <2>4, <3>1, <4>1
      <4>3. QED
        BY <1>10, <4>2
    <3>2. CASE old # NoBatch
      <4>1. Joined(b) = old
        BY <1>1, <1>3, <3>2, JoinedIs DEF Shape
      <4>2. x.gen = old.gen /\ x.done = old.done /\ inbox'.gen = inbox.gen
        BY <2>3, <2>4, <3>2, <4>1
      <4> HIDE DEF old
      <4>3. x.gen \in Nat /\ x.gen > 0 /\ x.gen <= inbox'.gen /\ inbox'.gen >= inbox.gen
        BY <1>10, <3>2, <4>2
      <4>4. QED
        BY <4>2, <4>3 DEF old
    <3>3. QED
      BY <3>1, <3>2
  <2>6. Becomes(b, i, "saving", FALSE, x.gen) /\ stream[b][i].pc # "over"
    BY <1>4, <2>2, <2>3
  <2>7. ReceiverKnows'
    BY <1>1, <1>2, <1>3, <2>3, <2>5, <2>6, FileCounts DEF Shape
  <2>8. Remembered'
    <3>1. Range(inbox.cancelled) \subseteq Batches
      BY <1>1 DEF Shape, InboxTyped, IsInbox, Range
    <3>2. QED
      BY <1>1, <2>3, <2>4, <3>1 DEF Remembered
  <2>9. QED
    BY <1>8, <2>3, <2>6, <2>7, <2>8
<1>13. QED
  BY <1>5, <1>9, <1>11, <1>12

(* The entries of a batch that count, when one more of it is over. *)
LEMMA OneMore ==
    ASSUME Shape, SenderKnows, Counted, UNCHANGED items,
           NEW b \in Batches, NEW i \in 1..MaxCount, stream[b][i].pc = "saved",
           stream[b][i].ok, SameGeneration(b, i)
    PROVE  /\ i \in 1..Count(b) /\ i \notin Done(b)
           /\ IsFiniteSet(Done(b) \cup {i})
           /\ Cardinality(Done(b) \cup {i}) = inbox.open[b].done + 1
           /\ Complete(inbox.open[b], b) => Done(b) \cup {i} = 1..Count(b)
<1>1. i \in 1..Count(b)
  <2>1. ~(i > send[b].index)
    BY DEF SenderKnows, Ahead
  <2>2. send[b].index \in 1..Count(b) /\ Count(b) \in Nat
    BY Counting DEF Shape
  <2>3. QED
    BY <2>1, <2>2
<1>2. i \notin Done(b) /\ Done(b) \subseteq 1..Count(b)
  BY DEF Done
<1>3. IsFiniteSet(Done(b)) /\ Cardinality(Done(b)) = inbox.open[b].done
  BY DoneFinite DEF Shape, Counted
<1>4. /\ IsFiniteSet(Done(b) \cup {i})
      /\ Cardinality(Done(b) \cup {i}) = inbox.open[b].done + 1
  BY <1>2, <1>3, FS_AddElement
<1>5. ASSUME Complete(inbox.open[b], b)
      PROVE  Done(b) \cup {i} = 1..Count(b)
  <2>1. Count(b) \in Nat
    BY Counting DEF Shape
  <2>2. IsFiniteSet(1..Count(b)) /\ Cardinality(1..Count(b)) = Count(b)
    BY <2>1, FS_Interval
  <2>3. Done(b) \cup {i} \subseteq 1..Count(b)
    BY <1>1, <1>2
  <2>4. Cardinality(Done(b) \cup {i}) \in Nat
    BY <1>4, FS_CardinalityType
  <2>5. Cardinality(Done(b) \cup {i}) <= Count(b)
    BY <2>2, <2>3, FS_Subset
  <2>6. Cardinality(Done(b) \cup {i}) >= Count(b)
    BY <1>4, <1>5 DEF Complete
  <2>7. Cardinality(Done(b) \cup {i}) = Cardinality(1..Count(b))
    BY <2>1, <2>2, <2>4, <2>5, <2>6
  <2>8. QED
    BY <2>2, <2>3, <2>7, FS_Subset
<1>6. QED
  BY <1>1, <1>2, <1>4, <1>5

(* The run loop hears of a save: what is reported has every entry.          *)
LEMMA OnDoneKeeps ==
    ASSUME IInv, NEW b \in Batches, NEW i \in 1..MaxCount, OnDone(b, i)
    PROVE  IInv'
<1> DEFINE s == stream[b][i]
           old == inbox.open[b]
<1>1. Shape /\ SenderKnows /\ Posted /\ ReceiverKnows /\ Remembered
  BY DEF IInv
<1>2. UNCHANGED <<items, send, control, events>> /\ s.pc = "saved"
  BY DEF OnDone
<1>3. Becomes(b, i, "over", s.ok, s.gen)
  BY <1>1, TaskStreams DEF Shape
<1>4. Completes(b, i) \/ CountsOne(b, i) \/ ForAnother(b, i)
      \/ (~s.ok /\ Closes(b) /\ UNCHANGED reported)
  BY <1>1, DoneSteps DEF Shape
<1>5. /\ inbox.gen \in Nat /\ old.gen \in Nat /\ old.done \in Nat /\ old.gen <= inbox.gen
      /\ old.done = Cardinality(Done(b))
      /\ old # NoBatch => old.gen > 0
  BY <1>1 DEF Shape, InboxTyped, IsInbox, IsBatch, ReceiverKnows, Counted
<1> HIDE DEF s, old
<1>6. SenderKnows'
  BY <1>1, <1>2, <1>3, SenderKeeps DEF IsSaved, s
<1>7. Posted'
  BY <1>1, <1>2, <1>3, PostedKeeps DEF Shape, s
<1>8. InboxTyped' /\ inbox'.gen = inbox.gen
      /\ \A c \in Batches : c # b => inbox'.open[c] = inbox.open[c]
  BY <1>1, <1>4 DEF Completes, CountsOne, ForAnother, Closes, Opens, Shape, InboxTyped
<1>9. Shape'
  BY <1>1, <1>2, <1>3, <1>8, QueuesKeep DEF Shape, SendTyped, Count, Becomes
<1>10. Remembered'
  <2>1. CASE Closes(b)
    BY <1>1, <2>1, ClosesRemembers DEF Shape
  <2>2. CASE ForAnother(b, i)
    BY <1>1, <2>2 DEF Remembered, ForAnother
  <2>3. CASE Completes(b, i) \/ CountsOne(b, i)
    <3>1. old # NoBatch
      BY <2>3 DEF Completes, CountsOne, SameGeneration, old
    <3>2. inbox'.cancelled = inbox.cancelled
      BY <2>3 DEF Completes, CountsOne
    <3>3. b \notin Range(inbox.cancelled)
      BY <1>1, <3>1 DEF Remembered, old
    <3>4. Range(inbox.cancelled) \subseteq Batches
      BY <1>1 DEF Shape, InboxTyped, IsInbox, Range
    <3>5. QED
      BY <1>1, <1>8, <3>2, <3>3, <3>4 DEF Remembered
  <2>4. QED
    BY <1>4, <2>1, <2>2, <2>3
<1>11. Goods'
  BY <1>1, <1>2, <1>3, <1>8 DEF ReceiverKnows, Goods, Becomes, s
<1>12. ASSUME NEW c \in Batches, c # b
       PROVE  /\ inbox'.open[c].done = Cardinality(Done(c)')
              /\ inbox'.open[c].gen <= inbox'.gen
              /\ inbox'.open[c] # NoBatch => inbox'.open[c].gen > 0
  <2>1. inbox'.open[c] = inbox.open[c]
    BY <1>8, <1>12
  <2>2. 1..Count(c) \subseteq 1..MaxCount
    BY <1>1, Counting DEF Shape
  <2>3. \A j \in 1..Count(c) : stream'[c][j] = stream[c][j]
    BY <1>3, <1>12, <2>2 DEF Becomes
  <2>4. Done(c)' = Done(c)
    BY <1>2, <2>1, <2>3 DEF Done, Count
  <2>5. QED
    BY <1>1, <1>8, <2>1, <2>4 DEF ReceiverKnows, Counted
<1>13. /\ 1..Count(b) \subseteq 1..MaxCount
       /\ stream'[b][i].pc = "over" /\ stream'[b][i].ok = s.ok /\ stream'[b][i].gen = s.gen
       /\ \A j \in 1..Count(b) : j # i => stream'[b][j] = stream[b][j]
  BY <1>1, <1>3, Counting DEF Becomes, Shape
<1>14. \A j \in 1..Count(b) : stream[b][j].ok => stream[b][j].gen # 0
  <2>1. \A j \in 1..Count(b) : stream[b][j].gen \in Nat
    BY <1>1, <1>13 DEF Shape, StreamsTyped, IsEntry
  <2>2. QED
    BY <1>1, <1>13, <2>1 DEF ReceiverKnows, Goods
<1>15. /\ inbox'.open[b].done = Cardinality(Done(b)')
       /\ inbox'.open[b].gen <= inbox'.gen
       /\ inbox'.open[b] # NoBatch => inbox'.open[b].gen > 0
  <2>1. CASE inbox'.open[b] = NoBatch
    <3>1. NoBatch.gen = 0 /\ NoBatch.done = 0
      BY EmptyBatch DEF Counts
    <3>2. \A j \in 1..Count(b) : stream'[b][j].ok => stream'[b][j].gen # 0
      BY <1>13, <1>14 DEF s
    <3>3. Done(b)' = {}
      BY <1>2, <2>1, <3>1, <3>2 DEF Done, Count
    <3>4. QED
      BY <1>5, <1>8, <2>1, <3>1, <3>3, FS_EmptySet
  <2>2. CASE CountsOne(b, i)
    <3>1. PICK x : Opens(inbox, inbox', b, x) /\ Counts(x, old.gen, old.done + 1)
      BY <2>2 DEF CountsOne, old
    <3>2. x = inbox'.open[b] /\ x.gen = old.gen /\ x.done = old.done + 1
      BY <3>1 DEF Opens, Counts
    <3>3. s.ok /\ SameGeneration(b, i) /\ s.gen = old.gen /\ old # NoBatch
      BY <2>2 DEF CountsOne, SameGeneration, s, old
    <3>4. i \in 1..Count(b) /\ Cardinality(Done(b) \cup {i}) = old.done + 1
      BY <1>1, <1>2, <3>3, OneMore DEF ReceiverKnows, s, old
    <3>5. Done(b)' = Done(b) \cup {i}
      BY <1>2, <1>13, <3>2, <3>3, <3>4 DEF Done, Count, old
    <3>6. QED
      BY <1>5, <1>8, <3>2, <3>3, <3>4, <3>5
  <2>3. CASE ForAnother(b, i)
    <3>1. inbox' = inbox
      BY <2>3 DEF ForAnother
    <3>2. s.ok /\ i \in 1..Count(b) => s.gen # old.gen
      <4>1. CASE old = NoBatch
        BY <1>14, <4>1, EmptyBatch DEF Counts, s
      <4>2. CASE old # NoBatch
        BY <2>3, <4>2 DEF ForAnother, SameGeneration, s, old
      <4>3. QED
        BY <4>1, <4>2
    <3>3. i \notin Done(b) /\ i \notin Done(b)'
      BY <1>2, <1>13, <3>1, <3>2 DEF Done, Count, s, old
    <3>4. Done(b)' = Done(b)
      BY <1>2, <1>13, <3>1, <3>3 DEF Done, Count
    <3>5. QED
      BY <1>5, <3>1, <3>4 DEF old
  <2>4. QED
    BY <1>4, <2>1, <2>2, <2>3 DEF Completes, Closes, Opens
<1>16. Counted'
  BY <1>12, <1>15 DEF Counted
<1>17. ASSUME NEW r \in reported'
       PROVE  /\ r.batch \in Batches
              /\ \A j \in 1..Count(r.batch) :
                    /\ stream'[r.batch][j].pc = "over" /\ stream'[r.batch][j].ok
                    /\ stream'[r.batch][j].gen = r.gen
  <2>1. CASE r \in reported
    <3>1. r.batch \in Batches
      BY <1>1, <2>1 DEF ReceiverKnows, Reported
    <3>2. 1..Count(r.batch) \subseteq 1..MaxCount
      BY <1>1, <3>1, Counting DEF Shape
    <3>3. \A j \in 1..Count(r.batch) :
            /\ stream[r.batch][j].pc = "over" /\ stream[r.batch][j].ok
            /\ stream[r.batch][j].gen = r.gen
      BY <1>1, <2>1 DEF ReceiverKnows, Reported
    <3>4. \A j \in 1..Count(r.batch) : stream'[r.batch][j] = stream[r.batch][j]
      BY <1>2, <1>3, <3>1, <3>2, <3>3 DEF Becomes, s
    <3>5. QED
      BY <3>1, <3>3, <3>4
  <2>2. CASE r \notin reported
    <3>1. Completes(b, i)
      BY <1>4, <2>2 DEF CountsOne, ForAnother
    <3>2. r.batch = b /\ r.gen = old.gen
      BY <2>2, <3>1 DEF Completes, old
    <3>3. s.ok /\ SameGeneration(b, i) /\ s.gen = old.gen /\ Complete(old, b)
      BY <3>1 DEF Completes, SameGeneration, s, old
    <3>4. Done(b) \cup {i} = 1..Count(b)
      BY <1>1, <1>2, <3>3, OneMore DEF ReceiverKnows, s, old
    <3>5. \A j \in Done(b) : /\ stream[b][j].pc = "over" /\ stream[b][j].ok
                             /\ stream[b][j].gen = old.gen
      BY DEF Done, old
    <3>6. \A j \in 1..Count(b) : j # i => j \in Done(b) /\ stream'[b][j] = stream[b][j]
      BY <1>13, <3>4
    <3>7. \A j \in 1..Count(b) : /\ stream'[b][j].pc = "over" /\ stream'[b][j].ok
                                 /\ stream'[b][j].gen = old.gen
      BY <1>13, <3>3, <3>5, <3>6
    <3>8. QED
      BY <3>2, <3>7
  <2>3. QED
    BY <2>1, <2>2
<1>18. Reported'
  BY <1>2, <1>17 DEF Reported, Count
<1>19. QED
  BY <1>6, <1>7, <1>9, <1>10, <1>11, <1>16, <1>18 DEF IInv, ReceiverKnows

-----------------------------------------------------------------------------
(***************************************************************************)
(* The invariant, and what it shows.                                       *)
(***************************************************************************)

(* Nothing sent, nothing received. *)
LEMMA AtFirst == Init => IInv
<1> SUFFICES ASSUME Init PROVE IInv
  OBVIOUS
<1>1. items \in Manifests /\ \A b \in Batches : Count(b) \in 1..MaxCount
  BY SizesAssumption DEF Init, Count
<1>2. \A b \in Batches, i \in 1..MaxCount : stream[b][i] = NoStream
  BY DEF Init
<1>3. Is(NoStream, "none", FALSE, 0) /\ Counts(NoBatch, 0, 0)
  BY NewEntry, EmptyBatch
<1>4. StreamsTyped
  BY <1>2, <1>3 DEF Init, StreamsTyped, Is
<1>5. SendTyped
  BY <1>1 DEF Init, SendTyped
<1>6. QueuesTyped
  BY EmptySeq DEF Init, QueuesTyped
<1>7. inbox = [open |-> [b \in Batches |-> NoBatch], gen |-> 0, cancelled |-> <<>>]
  BY DEF Init
<1>8. InboxTyped /\ inbox.gen = 0 /\ inbox.cancelled = <<>>
      /\ \A b \in Batches : inbox.open[b] = NoBatch
  BY <1>3, <1>7, EmptySeq DEF InboxTyped, IsInbox, Counts
<1>9. \A b \in Batches : send[b].pc = "new" /\ send[b].index = 1
  BY DEF Init
<1>10. SenderKnows
  BY <1>2, <1>3, <1>9 DEF SenderKnows, Ahead, Before, SentAll, Is
<1>11. Posted
  BY EmptySeq DEF Init, Posted
<1>12. \A b \in Batches : 1..Count(b) \subseteq 1..MaxCount
  BY <1>5, Counting
<1>13. Goods
  BY <1>2, <1>3, <1>8 DEF Goods, Is
<1>14. Counted
  <2>1. \A b \in Batches : Done(b) = {}
    BY <1>2, <1>3, <1>12 DEF Done, Is
  <2>2. NoBatch.gen = 0 /\ NoBatch.done = 0
    BY <1>3 DEF Counts
  <2>3. Cardinality({}) = 0
    BY FS_EmptySet
  <2>4. ASSUME NEW b \in Batches
        PROVE  /\ inbox.open[b].done = Cardinality(Done(b))
               /\ inbox.open[b].gen <= inbox.gen
               /\ inbox.open[b] # NoBatch => inbox.open[b].gen > 0
    <3>1. inbox.open[b] = NoBatch /\ Done(b) = {}
      BY <1>8, <2>1
    <3>2. inbox.open[b].done = 0 /\ inbox.open[b].gen = 0
      BY <2>2, <3>1
    <3>3. inbox.gen = 0
      BY <1>8
    <3>4. QED
      BY <2>3, <3>1, <3>2, <3>3
  <2>5. QED
    BY <2>4 DEF Counted
<1>15. Reported
  BY DEF Init, Reported
<1>16. Remembered
  BY <1>8, EmptySeq DEF Remembered, Range
<1>17. QED
  BY <1>4, <1>5, <1>6, <1>8, <1>10, <1>11, <1>13, <1>14, <1>15, <1>16
  DEF IInv, Shape, ReceiverKnows

(* A step that changes nothing. *)
LEMMA Stuttering ==
    ASSUME IInv, UNCHANGED vars
    PROVE  IInv'
<1>1. Shape /\ SenderKnows /\ Posted /\ ReceiverKnows /\ Remembered
  BY DEF IInv
<1>2. UNCHANGED <<items, send, stream, control, events, inbox, reported>>
  BY DEF vars
<1>3. Kept
  BY <1>1, <1>2 DEF Shape, StreamsTyped, Kept
<1>4. Shape'
  BY <1>1, <1>2, QueuesKeep DEF Shape, StreamsTyped, InboxTyped, SendTyped, Count
<1>5. QED
  BY <1>1, <1>2, <1>3, <1>4, RestKeeps, SenderStays DEF IInv

(* Every step keeps the invariant. *)
LEMMA EachStep ==
    ASSUME IInv, [Next]_vars
    PROVE  IInv'
<1>1. ASSUME NEW b \in Batches,
             ScanFails(b) \/ OpenStream(b) \/ Finish(b) \/ SendFails(b) \/ HearAnswer(b)
      PROVE  IInv'
  BY <1>1, ScanFailsKeeps, OpenStreamKeeps, SendingKeeps, HearAnswerKeeps
<1>2. ASSUME NEW b \in Batches, NEW i \in 1..MaxCount,
             HeaderRead(b, i) \/ Saved(b, i) \/ SaveFails(b, i) \/ OnDone(b, i)
      PROVE  IInv'
  BY <1>2, HeaderReadKeeps, SaveKeeps, OnDoneKeeps
<1>3. CASE CancelRead \/ Reconnect
  BY <1>3, PostingKeeps
<1>4. CASE OnFile \/ OnCancel \/ OnLost \/ OnConnected
  BY <1>4, OnFileKeeps, OnCancelKeeps, ConnectionKeeps
<1>5. ASSUME NEW replaced \in BOOLEAN, Break(replaced)
      PROVE  IInv'
  BY <1>5, BreakKeeps
<1>6. CASE UNCHANGED vars
  BY <1>6, Stuttering
<1>7. QED
  BY <1>1, <1>2, <1>3, <1>4, <1>5, <1>6, Zenon
  DEF Next, Sender, Streams, RunLoop, Connection

(* The invariant holds of every state of files.rs that the model reaches,  *)
(* for any batches, manifests, breaks and faults.                          *)
THEOREM Invariance == Spec => []IInv
<1>1. Init => IInv
  BY AtFirst
<1>2. IInv /\ [Next]_vars => IInv'
  BY EachStep
<1>3. QED
  BY <1>1, <1>2, PTL DEF Spec

(* A batch that is reported as received has every entry saved, and for the *)
(* generation that was open under its name, not for one called off before  *)
(* (Inbox::finished).                                                      *)
THEOREM ReportedSaved == Spec => []ReportedAreSaved
<1>1. IInv => ReportedAreSaved
  BY DEF IInv, ReceiverKnows, Reported, ReportedAreSaved
<1>2. QED
  BY <1>1, Invariance, PTL

(* A sender that takes its batch for sent has the receiver's word for      *)
(* every entry, each of them good (send, PendingBatch).                    *)
THEOREM SentSaved == Spec => []SentSaves
<1>1. IInv => SentSaves
  <2>1. SUFFICES ASSUME IInv, NEW b \in Batches, send[b].pc = "sent", NEW i \in 1..Count(b)
                 PROVE  stream[b][i].ok
    BY DEF SentSaves
  <2>2. send[b].index = Count(b) /\ i \in 1..MaxCount /\ Count(b) \in Nat
    BY <2>1, Counting DEF IInv, Shape, SenderKnows, SentAll
  <2>3. i < send[b].index \/ i = send[b].index
    BY <2>2
  <2>4. QED
    BY <2>1, <2>2, <2>3 DEF IInv, SenderKnows, Before, IsSaved
<1>2. QED
  BY <1>1, Invariance, PTL

-----------------------------------------------------------------------------
(***************************************************************************)
(* Cancellations stick as long as the inbox remembers them all.            *)
(***************************************************************************)

(* With room for every batch no name is forgotten. *)
LEMMA RoomForAll ==
    ASSUME IsFiniteSet(Batches), Cardinality(Batches) <= MaxHistory,
           NEW s \in Seq(Batches), NoneTwice(s), NEW b \in Batches
    PROVE  /\ Forgetting(s, b) = Longer(s, b)
           /\ NoneTwice(Longer(s, b))
<1> DEFINE l == Longer(s, b)
<1>1. l \in Seq(Batches)
  BY Forgets
<1>2. NoneTwice(l)
  <2>1. CASE b \in Range(s)
    BY <2>1 DEF Longer
  <2>2. CASE b \notin Range(s)
    <3>1. l = Append(s, b)
      BY <2>2 DEF Longer
    <3> HIDE DEF l
    <3>2. \A k \in DOMAIN l : \/ k \in DOMAIN s /\ l[k] = s[k]
                              \/ k = Len(s) + 1 /\ l[k] = b
      BY <3>1
    <3>3. \A k \in DOMAIN s : s[k] # b
      BY <2>2 DEF Range
    <3>4. QED
      BY <3>2, <3>3 DEF NoneTwice
  <2>3. QED
    BY <2>1, <2>2
<1> HIDE DEF l
<1>3. l \in Injection(1..Len(l), Batches)
  BY <1>1, <1>2 DEF NoneTwice, Injection, IsInjective
<1>4. Len(l) \in Nat
  BY <1>1
<1>5. Cardinality(1..Len(l)) <= Cardinality(Batches) /\ Cardinality(1..Len(l)) = Len(l)
  <2>1. Cardinality(1..Len(l)) <= Cardinality(Batches)
    BY <1>3, FS_Injection
  <2>2. \A n \in Nat : Cardinality(1..n) = n
    BY FS_Interval
  <2>3. QED
    BY <1>4, <2>1, <2>2
<1>6. Cardinality(Batches) \in Nat /\ MaxHistory \in Nat
  BY FS_CardinalityType, FilesAssumption
<1>7. ~(Len(l) > MaxHistory)
  BY <1>4, <1>5, <1>6
<1>8. QED
  BY <1>2, <1>7 DEF Forgetting, l

(* What was heard called off stays remembered. *)
LEMMA HeardStays ==
    ASSUME IsFiniteSet(Batches), Cardinality(Batches) <= MaxHistory,
           IInv, HeardKept, [Next]_vars
    PROVE  HeardKept'
<1>1. InboxTyped /\ inbox.cancelled \in Seq(Batches)
  BY DEF IInv, Shape, InboxTyped, IsInbox
<1>2. ASSUME NEW b \in Batches, inbox'.cancelled = Forgetting(inbox.cancelled, b),
             heard' \subseteq heard \cup {b}
      PROVE  HeardKept'
  <2>1. /\ inbox'.cancelled = Longer(inbox.cancelled, b)
        /\ NoneTwice(inbox'.cancelled)
    BY <1>1, <1>2, RoomForAll DEF HeardKept
  <2>2. Range(inbox'.cancelled) = Range(inbox.cancelled) \cup {b}
    BY <1>1, <2>1, Forgets
  <2>3. QED
    BY <1>2, <2>1, <2>2 DEF HeardKept
<1>3. ASSUME heard' = heard, inbox'.cancelled = inbox.cancelled
      PROVE  HeardKept'
  BY <1>3 DEF HeardKept
<1>4. ASSUME NEW b \in Batches, NEW i \in 1..MaxCount, OnDone(b, i)
      PROVE  HeardKept'
  <2>1. heard' = heard
    BY <1>4 DEF OnDone
  <2>2. \/ inbox'.cancelled = inbox.cancelled
        \/ inbox'.cancelled = Forgetting(inbox.cancelled, b)
    BY <1>1, <1>4, DoneSteps DEF Completes, CountsOne, ForAnother, Closes
  <2>3. QED
    BY <1>2, <1>3, <2>1, <2>2
<1>5. CASE OnFile
  <2>1. Head(events).batch \in Batches /\ Head(events).index \in 1..MaxCount
    <3>1. Head(events) \in Events /\ Head(events).type = "file"
      BY <1>5, HeadTailProperties DEF IInv, Shape, QueuesTyped, OnFile, Next1
    <3>2. QED
      BY <3>1 DEF Events
  <2>2. inbox'.cancelled = inbox.cancelled
    BY <1>1, <1>5, <2>1, FileSteps DEF IInv, Shape, FileGone, FileRefused, FileStarts
  <2>3. heard' = heard
    BY <1>5 DEF OnFile
  <2>4. QED
    BY <1>3, <2>2, <2>3
<1>6. CASE OnCancel
  <2>1. Head(events).batch \in Batches
    <3>1. Head(events) \in Events /\ Head(events).type = "cancel"
      BY <1>6, HeadTailProperties DEF IInv, Shape, QueuesTyped, OnCancel, Next1
    <3>2. QED
      BY <3>1 DEF Events
  <2>2. inbox'.cancelled = Forgetting(inbox.cancelled, Head(events).batch)
    BY <1>1, <1>6, <2>1, CancelSteps DEF OnCancel, InboxTyped
  <2>3. heard' = heard \cup {Head(events).batch}
    BY <1>6 DEF OnCancel
  <2>4. QED
    BY <1>2, <2>1, <2>2, <2>3
<1>7. CASE OnLost
  <2>1. inbox'.cancelled = <<>> /\ heard' = {}
    BY <1>1, <1>7, LostSteps DEF OnLost
  <2>2. QED
    BY <2>1, EmptySeq DEF HeardKept, NoneTwice
<1>8. CASE UNCHANGED <<heard, inbox>>
  BY <1>3, <1>8
<1>9. ASSUME NEW b \in Batches,
             ScanFails(b) \/ OpenStream(b) \/ Finish(b) \/ SendFails(b) \/ HearAnswer(b)
      PROVE  UNCHANGED <<heard, inbox>>
  BY <1>9 DEF ScanFails, OpenStream, Finish, SendFails, HearAnswer
<1>10. ASSUME NEW b \in Batches, NEW i \in 1..MaxCount,
              HeaderRead(b, i) \/ Saved(b, i) \/ SaveFails(b, i)
       PROVE  UNCHANGED <<heard, inbox>>
  BY <1>10 DEF HeaderRead, Saved, SaveFails
<1>11. ASSUME CancelRead \/ Reconnect \/ OnConnected \/ UNCHANGED vars
       PROVE  UNCHANGED <<heard, inbox>>
  BY <1>11 DEF CancelRead, Reconnect, OnConnected, vars
<1>12. ASSUME NEW replaced \in BOOLEAN, Break(replaced)
       PROVE  UNCHANGED <<heard, inbox>>
  BY <1>12 DEF Break
<1>13. QED
  BY <1>4, <1>5, <1>6, <1>7, <1>8, <1>9, <1>10, <1>11, <1>12, Zenon
  DEF Next, Sender, Streams, RunLoop, Connection

(* Once the receiver heard that a batch is called off it keeps nothing     *)
(* open for it, however late a header of it comes, if the inbox has room   *)
(* to remember every batch (Inbox::cancel, Inbox::reserve; the code        *)
(* leaves room for 256 of one connection).                                 *)
THEOREM CallOffSticks ==
    ASSUME IsFiniteSet(Batches), Cardinality(Batches) <= MaxHistory
    PROVE  Spec => []CancelSticks
<1>1. Init => HeardKept
  <2>1. ASSUME Init PROVE heard = {} /\ inbox.cancelled = <<>>
    BY <2>1 DEF Init
  <2>2. QED
    BY <2>1, EmptySeq DEF HeardKept, NoneTwice
<1>2. IInv /\ HeardKept /\ [Next]_vars => HeardKept'
  BY HeardStays
<1>3. IInv /\ HeardKept => CancelSticks
  BY DEF IInv, Remembered, HeardKept, CancelSticks
<1>4. QED
  BY <1>1, <1>2, <1>3, Invariance, PTL DEF Spec

-----------------------------------------------------------------------------
(***************************************************************************)
(* Where Inbox::receive puts an entry: sequences and their prefixes.       *)
(***************************************************************************)
(* The first k of a sequence. *)
LEMMA PrefixIs ==
    ASSUME NEW S, NEW s \in Seq(S), NEW k \in 0..Len(s)
    PROVE  /\ SubSeq(s, 1, k) \in Seq(S) /\ Len(SubSeq(s, 1, k)) = k
           /\ \A j \in 1..k : SubSeq(s, 1, k)[j] = s[j]
<1>1. Len(s) \in Nat /\ \A j \in 1..Len(s) : s[j] \in S
  BY ElementOfSeq, LenProperties
<1>2. \A j \in 1..k : s[j] \in S
  BY <1>1
<1>3. k \in Int /\ 1 \in Int
  BY <1>1
<1>4. /\ SubSeq(s, 1, k) \in Seq(S)
      /\ Len(SubSeq(s, 1, k)) = IF 1 <= k THEN k - 1 + 1 ELSE 0
      /\ \A j \in 1..(k - 1 + 1) : SubSeq(s, 1, k)[j] = s[1 + j - 1]
  BY <1>2, <1>3, SubSeqProperties
<1>5. Len(SubSeq(s, 1, k)) = k
  BY <1>1, <1>4
<1>6. \A j \in 1..k : SubSeq(s, 1, k)[j] = s[j]
  <2>1. ASSUME NEW j \in 1..k
        PROVE  SubSeq(s, 1, k)[j] = s[j]
    <3>1. j \in 1..(k - 1 + 1) /\ 1 + j - 1 = j
      BY <1>1
    <3>2. QED
      BY <1>4, <3>1
  <2>2. QED
    BY <2>1
<1>7. QED
  BY <1>4, <1>5, <1>6

(* PrefixesAre of prefixes, of all, and of a sequence with one more. *)
LEMMA PrefixesAre ==
    ASSUME NEW S, NEW s \in Seq(S)
    PROVE  /\ SubSeq(s, 1, Len(s)) = s
           /\ \A k \in 0..Len(s), l \in 0..Len(s) :
                 l <= k => SubSeq(SubSeq(s, 1, k), 1, l) = SubSeq(s, 1, l)
           /\ \A z \in S : \A l \in 0..Len(s) :
                 SubSeq(Append(s, z), 1, l) = SubSeq(s, 1, l)
<1>1. Len(s) \in Nat
  BY LenProperties
<1>2. SubSeq(s, 1, Len(s)) = s
  <2>1. Len(s) \in 0..Len(s)
    BY <1>1
  <2>2. /\ SubSeq(s, 1, Len(s)) \in Seq(S) /\ Len(SubSeq(s, 1, Len(s))) = Len(s)
        /\ \A j \in 1..Len(s) : SubSeq(s, 1, Len(s))[j] = s[j]
    BY <2>1, PrefixIs
  <2>3. QED
    BY <2>2, SeqEqual
<1>3. ASSUME NEW k \in 0..Len(s), NEW l \in 0..Len(s), l <= k
      PROVE  SubSeq(SubSeq(s, 1, k), 1, l) = SubSeq(s, 1, l)
  <2> DEFINE t == SubSeq(s, 1, k)
  <2>1. t \in Seq(S) /\ Len(t) = k /\ \A j \in 1..k : t[j] = s[j]
    BY PrefixIs
  <2> HIDE DEF t
  <2>2. l \in 0..Len(t) /\ 1..l \subseteq 1..k
    BY <1>1, <1>3, <2>1
  <2>3. /\ SubSeq(t, 1, l) \in Seq(S) /\ Len(SubSeq(t, 1, l)) = l
        /\ \A j \in 1..l : SubSeq(t, 1, l)[j] = t[j]
    BY <2>1, <2>2, PrefixIs
  <2>4. /\ SubSeq(s, 1, l) \in Seq(S) /\ Len(SubSeq(s, 1, l)) = l
        /\ \A j \in 1..l : SubSeq(s, 1, l)[j] = s[j]
    BY PrefixIs
  <2>5. \A j \in 1..l : SubSeq(t, 1, l)[j] = SubSeq(s, 1, l)[j]
    BY <2>1, <2>2, <2>3, <2>4
  <2>6. SubSeq(t, 1, l) = SubSeq(s, 1, l)
    BY <2>3, <2>4, <2>5, SeqEqual
  <2>7. QED
    BY <2>6 DEF t
<1>4. ASSUME NEW z \in S, NEW l \in 0..Len(s)
      PROVE  SubSeq(Append(s, z), 1, l) = SubSeq(s, 1, l)
  <2> DEFINE t == Append(s, z)
  <2>1. t \in Seq(S) /\ Len(t) = Len(s) + 1 /\ \A j \in 1..Len(s) : t[j] = s[j]
    BY AppendProperties
  <2> HIDE DEF t
  <2>2. l \in 0..Len(t) /\ 1..l \subseteq 1..Len(s)
    BY <1>1, <2>1
  <2>3. /\ SubSeq(t, 1, l) \in Seq(S) /\ Len(SubSeq(t, 1, l)) = l
        /\ \A j \in 1..l : SubSeq(t, 1, l)[j] = t[j]
    BY <2>1, <2>2, PrefixIs
  <2>4. /\ SubSeq(s, 1, l) \in Seq(S) /\ Len(SubSeq(s, 1, l)) = l
        /\ \A j \in 1..l : SubSeq(s, 1, l)[j] = s[j]
    BY PrefixIs
  <2>5. \A j \in 1..l : SubSeq(t, 1, l)[j] = SubSeq(s, 1, l)[j]
    BY <2>1, <2>2, <2>3, <2>4
  <2>6. SubSeq(t, 1, l) = SubSeq(s, 1, l)
    BY <2>3, <2>4, <2>5, SeqEqual
  <2>7. QED
    BY <2>6 DEF t
<1>5. QED
  BY <1>2, <1>3, <1>4

(* One more, and all but the last. *)
LEMMA FrontIs ==
    ASSUME NEW S, NEW s \in Seq(S)
    PROVE  /\ \A z \in S : Front(Append(s, z)) = s
           /\ \A k \in 1..Len(s) : Front(SubSeq(s, 1, k)) = SubSeq(s, 1, k - 1)
           /\ s # <<>> => /\ Len(s) >= 1 /\ Front(s) \in Seq(S) /\ Len(Front(s)) = Len(s) - 1
                          /\ s[Len(s)] \in S /\ s = Append(Front(s), s[Len(s)])
<1>1. Len(s) \in Nat /\ (s # <<>> => Len(s) # 0)
  BY LenProperties, EmptySeq
<1>2. ASSUME NEW z \in S
      PROVE  Front(Append(s, z)) = s
  <2>1. Len(Append(s, z)) - 1 = Len(s)
    BY <1>1, AppendProperties
  <2>2. SubSeq(Append(s, z), 1, Len(s)) = SubSeq(s, 1, Len(s))
    <3>1. Len(s) \in 0..Len(s)
      BY <1>1
    <3>2. QED
      BY <3>1, PrefixesAre
  <2>3. SubSeq(s, 1, Len(s)) = s
    BY PrefixesAre
  <2>4. QED
    BY <2>1, <2>2, <2>3 DEF Front
<1>3. ASSUME NEW k \in 1..Len(s)
      PROVE  Front(SubSeq(s, 1, k)) = SubSeq(s, 1, k - 1)
  <2>1. k \in 0..Len(s) /\ k - 1 \in 0..Len(s) /\ k - 1 <= k
    BY <1>1
  <2>2. Len(SubSeq(s, 1, k)) = k
    BY <2>1, PrefixIs
  <2>3. SubSeq(SubSeq(s, 1, k), 1, k - 1) = SubSeq(s, 1, k - 1)
    BY <2>1, PrefixesAre
  <2>4. QED
    BY <2>2, <2>3 DEF Front
<1>4. ASSUME s # <<>>
      PROVE  /\ Len(s) >= 1 /\ Front(s) \in Seq(S) /\ Len(Front(s)) = Len(s) - 1
             /\ s[Len(s)] \in S /\ s = Append(Front(s), s[Len(s)])
  <2>1. Len(s) >= 1 /\ Len(s) - 1 \in 0..Len(s)
    BY <1>1, <1>4
  <2>2. /\ Front(s) \in Seq(S) /\ Len(Front(s)) = Len(s) - 1
        /\ \A j \in 1..(Len(s) - 1) : Front(s)[j] = s[j]
    BY <2>1, PrefixIs DEF Front
  <2>3. s[Len(s)] \in S
    <3>1. Len(s) \in 1..Len(s)
      BY <1>1, <2>1
    <3>2. QED
      BY <3>1, ElementOfSeq
  <2> DEFINE t == Append(Front(s), s[Len(s)])
  <2>4. /\ t \in Seq(S) /\ Len(t) = Len(s)
        /\ \A j \in 1..(Len(s) - 1) : t[j] = Front(s)[j]
        /\ t[Len(s)] = s[Len(s)]
    BY <1>1, <2>2, <2>3, AppendProperties
  <2> HIDE DEF t
  <2>5. \A j \in 1..Len(s) : t[j] = s[j]
    <3>1. \A j \in 1..Len(s) : j = Len(s) \/ j \in 1..(Len(s) - 1)
      BY <1>1
    <3>2. QED
      BY <2>2, <2>4, <3>1
  <2>6. t = s
    BY <2>4, <2>5, SeqEqual
  <2>7. QED
    BY <2>1, <2>2, <2>3, <2>6 DEF t
<1>5. QED
  BY <1>2, <1>3, <1>4

LEMMA Least ==
    ASSUME NEW T \in SUBSET Nat, T # {}
    PROVE  \E n \in T : \A k \in T : n <= k
<1> DEFINE B == {s \in Nat \X Nat : s[1] < s[2]}
<1>1. IsWellFoundedOn(B, Nat)
  BY NatLessThanWellFounded DEF OpToRel
<1>2. \A k, n \in Nat : k < n => <<k, n>> \in B
  OBVIOUS
<1> HIDE DEF B
<1>3. \E n \in T : \A k \in T : ~(<<k, n>> \in B)
  BY <1>1, WFMin
<1>4. \A k, n \in Nat : k < n \/ n <= k
  OBVIOUS
<1> QED
  BY <1>2, <1>3, <1>4

-----------------------------------------------------------------------------
(***************************************************************************)
(* Names, the disk, and the directories of a batch.                        *)
(***************************************************************************)

(* The components of the names, and of the paths made of them.             *)
Components ==
    UNION {Range(Parts(e.name)) : e \in UNION {Range(m[b]) : m \in Manifests, b \in Batches}}
Places == {Clean(c) : c \in Components} \X Nat

IsThing(x) == x = [path |-> x.path, of |-> x.of, whole |-> x.whole]

IsDisk(d) ==
    /\ IsFiniteSet(d)
    /\ \A x \in d : IsThing(x)
    /\ \A x, y \in d : x.path = y.path => x = y

FolderAt(p) == [path |-> p, of |-> Directory, whole |-> TRUE]

(* The directories of a batch: each on the disk, under the one it was      *)
(* under on the sender, and one for each of the sender's.                  *)
IsFolders(dirs, d) ==
    /\ \A x \in dirs :
          /\ x = [key |-> x.key, path |-> x.path]
          /\ x.key \in Seq(Components) /\ x.path \in Seq(Places)
          /\ Len(x.path) = Len(x.key) /\ Len(x.key) >= 1
          /\ FolderAt(x.path) \in d
          /\ Len(x.key) > 1 => [key |-> Front(x.key), path |-> Front(x.path)] \in dirs
    /\ \A x, y \in dirs : x.key = y.key <=> x.path = y.path

(* What is sent has names of components. *)
LEMMA NamesAre ==
    ASSUME items \in Manifests, NEW b \in Batches
    PROVE  /\ items[b] \in Seq(Range(items[b]))
           /\ \A i \in 1..Count(b) :
                 /\ Named(b, i) \in Seq(Components) /\ Len(Named(b, i)) \in Nat
                 /\ items[b][i].dir \in BOOLEAN
<1>1. Collected(items[b])
  BY FilesAssumption
<1>2. /\ items[b] \in Seq(Range(items[b]))
      /\ \A e \in Range(items[b]) : /\ Parts(e.name) \in Seq(Range(Parts(e.name)))
                                    /\ e.dir \in BOOLEAN
  BY <1>1 DEF Collected
<1>3. DOMAIN items[b] = 1..Count(b)
  BY <1>2, LenProperties DEF Count
<1>4. ASSUME NEW i \in 1..Count(b)
      PROVE  /\ Named(b, i) \in Seq(Components) /\ Len(Named(b, i)) \in Nat
             /\ items[b][i].dir \in BOOLEAN
  <2> DEFINE e == items[b][i]
  <2>1. e \in Range(items[b])
    BY <1>3 DEF Range
  <2>2. e \in UNION {Range(m[c]) : m \in Manifests, c \in Batches}
    BY <2>1
  <2> HIDE DEF e
  <2>3. Range(Parts(e.name)) \subseteq Components
    BY <2>2 DEF Components
  <2>4. Parts(e.name) \in Seq(Range(Parts(e.name))) /\ e.dir \in BOOLEAN
    BY <1>2, <2>1
  <2>5. Parts(e.name) \in Seq(Components)
    BY <2>3, <2>4, SeqMonotonic
  <2>6. Len(Parts(e.name)) \in Nat
    BY <2>5, LenProperties
  <2>7. QED
    BY <2>4, <2>5, <2>6 DEF e, Named
<1>5. QED
  BY <1>2, <1>4

(* reserve: the path is the name with a number, in its folder, and free.   *)
LEMMA FreeName ==
    ASSUME NEW d, IsFiniteSet(d), NEW parent \in Seq(Places), NEW part \in Components
    PROVE  \E z \in Places : /\ Numbered(d, parent, part) = Append(parent, z)
                             /\ \A x \in d : x.path # Append(parent, z)
<1> DEFINE N == 1..(Cardinality(d) + 1)
           Z(n) == <<Clean(part), n>>
           P(n) == Append(parent, Z(n))
           free == {n \in N : P(n) \notin Taken(d)}
<1>1. Cardinality(d) \in Nat
  BY FS_CardinalityType
<1>2. IsFiniteSet(N) /\ Cardinality(N) = Cardinality(d) + 1 /\ N \subseteq Nat
  <2> DEFINE top == Cardinality(d) + 1
  <2>1. top \in Nat
    BY <1>1
  <2> HIDE DEF top
  <2>2. IsFiniteSet(1..top) /\ Cardinality(1..top) = top
    BY <2>1, FS_Interval
  <2>3. QED
    BY <2>1, <2>2 DEF top
<1>3. \A n \in N : Z(n) \in Places
  BY <1>2 DEF Places
<1>4. \A m, n \in N : P(m) = P(n) => m = n
  <2>1. SUFFICES ASSUME NEW m \in N, NEW n \in N, P(m) = P(n)
                 PROVE  m = n
    OBVIOUS
  <2>2. Z(m) = Z(n)
    <3> HIDE DEF Z, N
    <3>1. Z(m) \in Places /\ Z(n) \in Places
      BY <1>3
    <3>2. P(m)[Len(parent) + 1] = Z(m) /\ P(n)[Len(parent) + 1] = Z(n)
      BY <3>1, AppendProperties
    <3>3. QED
      BY <2>1, <3>2
  <2>3. QED
    BY <2>2
<1>5. free # {}
  <2>1. SUFFICES ASSUME free = {}
                 PROVE  FALSE
    OBVIOUS
  <2> DEFINE g == [n \in N |-> CHOOSE x \in d : x.path = P(n)]
  <2>2. \A n \in N : \E x \in d : x.path = P(n)
    BY <2>1 DEF Taken
  <2> HIDE DEF P, N
  <2>3. \A n \in N : g[n] \in d /\ g[n].path = P(n)
    BY <2>2
  <2>4. g \in [N -> d]
    BY <2>3
  <2> HIDE DEF g
  <2>5. \E m, n \in N : m # n /\ g[m] = g[n]
    <3>1. Cardinality(d) < Cardinality(N)
      BY <1>1, <1>2
    <3>2. QED
      BY <1>2, <2>4, <3>1, FS_PigeonHole
  <2>6. QED
    BY <1>4, <2>3, <2>5
<1>6. PICK n \in free : \A k \in free : n <= k
  <2>1. free \in SUBSET Nat
    BY <1>2
  <2> HIDE DEF free
  <2>2. QED
    BY <1>5, <2>1, Least
<1> DEFINE c == CHOOSE m \in free : \A k \in free : m <= k
<1>7. c \in free
  BY <1>6
<1>8. Numbered(d, parent, part) = P(c)
  BY DEF Numbered
<1> HIDE DEF c
<1>9. Z(c) \in Places /\ P(c) \notin Taken(d)
  BY <1>3, <1>7
<1>10. QED
  BY <1>8, <1>9 DEF Taken

(* A disk with one more entry, at a free path. *)
LEMMA DiskGrows ==
    ASSUME NEW d, IsDisk(d), NEW x, IsThing(x), \A y \in d : y.path # x.path
    PROVE  /\ IsDisk(d \cup {x})
           /\ {y \in d : y.path # x.path} = d
<1>1. IsFiniteSet(d \cup {x})
  BY FS_AddElement DEF IsDisk
<1>2. QED
  BY <1>1 DEF IsDisk

-----------------------------------------------------------------------------
(***************************************************************************)
(* Batch::reserve, one component after the other.                          *)
(***************************************************************************)

(* A batch's directories stay while the disk grows. *)
LEMMA FoldersStay ==
    ASSUME NEW dirs, NEW d, NEW e, IsFolders(dirs, d),
           \A p : FolderAt(p) \in d => FolderAt(p) \in e
    PROVE  IsFolders(dirs, e)
BY DEF IsFolders

(* A directory more: under one of the batch's, and at a path of its own.   *)
LEMMA FoldersGrow ==
    ASSUME NEW dirs, NEW d, IsFolders(dirs, d), NEW key \in Seq(Components), NEW path \in Seq(Places),
           Len(path) = Len(key), Len(key) >= 1, FolderAt(path) \in d,
           \A x \in dirs : x.key # key /\ x.path # path,
           Len(key) > 1 => [key |-> Front(key), path |-> Front(path)] \in dirs
    PROVE  IsFolders(dirs \cup {[key |-> key, path |-> path]}, d)
<1> DEFINE new == [key |-> key, path |-> path]
           all == dirs \cup {new}
<1>1. new.key = key /\ new.path = path
  OBVIOUS
<1> HIDE DEF new
<1>2. ASSUME NEW x \in all
      PROVE  /\ x = [key |-> x.key, path |-> x.path]
             /\ x.key \in Seq(Components) /\ x.path \in Seq(Places)
             /\ Len(x.path) = Len(x.key) /\ Len(x.key) >= 1
             /\ FolderAt(x.path) \in d
             /\ Len(x.key) > 1 => [key |-> Front(x.key), path |-> Front(x.path)] \in all
  <2>1. CASE x \in dirs
    BY <2>1 DEF IsFolders
  <2>2. CASE x = new
    <3>1. new = [key |-> key, path |-> path]
      BY DEF new
    <3>2. QED
      BY <1>1, <2>2, <3>1
  <2>3. QED
    BY <2>1, <2>2
<1>3. \A x, y \in all : x.key = y.key <=> x.path = y.path
  BY <1>1 DEF IsFolders
<1>4. QED
  BY <1>2, <1>3 DEF IsFolders, new

(* An entry's file, when there is nothing in it yet. *)
FileAt(p, b, i) == [path |-> p, of |-> <<b, i>>, whole |-> FALSE]

(* How far reserve has come: k components of the i-th name of b, starting  *)
(* from a disk d and a batch with the directories dirs and the roots given.*)
Descended(at, b, i, k, d, dirs, roots) ==
    /\ at.path \in Seq(Places) /\ Len(at.path) = k
    /\ IsDisk(at.disk) /\ d \subseteq at.disk
    /\ IsFolders(at.dirs, at.disk) /\ dirs \subseteq at.dirs
    /\ at.roots = IF k = 0 THEN roots ELSE roots \cup {SubSeq(at.path, 1, 1)}
    /\ \A l \in 1..k : IsFolder(b, i, l) =>
          [key |-> SubSeq(Named(b, i), 1, l), path |-> SubSeq(at.path, 1, l)] \in at.dirs
    /\ k = Len(Named(b, i)) /\ ~items[b][i].dir =>
          FileAt(at.path, b, i) \in at.disk

(* A component's directory, if the batch has it; its path, if it has not.  *)
Known(at, b, i, k) == {x \in at.dirs : x.key = SubSeq(Named(b, i), 1, k)}
Spot(at, b, i, k) == Numbered(at.disk, at.path, Named(b, i)[k])
Others(d, p) == {x \in d : x.path # p}

(* The three things a component may come to: the batch's directory, a new  *)
(* one, or the file.                                                       *)
WithinKnown(w, at, b, i, k) ==
    /\ \E x \in Known(at, b, i, k) : w.path = x.path
    /\ w.disk = at.disk /\ w.dirs = at.dirs

WithinNew(w, at, b, i, k) ==
    LET path == Spot(at, b, i, k)
    IN  /\ w.path = path
        /\ w.disk = Others(at.disk, path) \cup {FolderAt(path)}
        /\ w.dirs = at.dirs \cup {[key |-> SubSeq(Named(b, i), 1, k), path |-> path]}

WithinFile(w, at, b, i, k) ==
    LET path == Spot(at, b, i, k)
    IN  /\ w.path = path
        /\ w.disk = Others(at.disk, path) \cup {FileAt(path, b, i)}
        /\ w.dirs = at.dirs

WithinIs(w, at, b, i, k) ==
    /\ w.roots = IF k = 1 THEN at.roots \cup {w.path} ELSE at.roots
    /\ IF ~IsFolder(b, i, k) THEN WithinFile(w, at, b, i, k)
       ELSE IF Known(at, b, i, k) = {} THEN WithinNew(w, at, b, i, k)
       ELSE WithinKnown(w, at, b, i, k)

(* One round of the loop in reserve is one of the three. *)
LEMMA Rounds == \A at, b, i, k : WithinIs(Within(at, b, i, k), at, b, i, k)
<1> SUFFICES ASSUME NEW at, NEW b, NEW i, NEW k
             PROVE  WithinIs(Within(at, b, i, k), at, b, i, k)
  OBVIOUS
<1> DEFINE key == SubSeq(Named(b, i), 1, k)
           made == {x \in at.dirs : x.key = key}
           isDir == IsFolder(b, i, k)
           number == Numbered(at.disk, at.path, Named(b, i)[k])
           path == IF made # {} /\ isDir THEN (CHOOSE e \in made : TRUE).path ELSE number
           others(p) == {x \in at.disk : x.path # p}
           file == [path |-> path, of |-> IF isDir THEN Directory ELSE <<b, i>>, whole |-> isDir]
           w == [path |-> path,
                 disk |-> IF isDir /\ made # {} THEN at.disk ELSE others(path) \cup {file},
                 dirs |-> IF isDir /\ made = {} THEN at.dirs \cup {[key |-> key, path |-> path]}
                          ELSE at.dirs,
                 roots |-> IF k = 1 THEN at.roots \cup {path} ELSE at.roots]
<1>1. Within(at, b, i, k) = w
  BY DEF Within, Prefix, IsFolder
<1>2. /\ w.path = path
      /\ w.disk = IF isDir /\ made # {} THEN at.disk ELSE others(path) \cup {file}
      /\ w.dirs = IF isDir /\ made = {} THEN at.dirs \cup {[key |-> key, path |-> path]}
                  ELSE at.dirs
      /\ w.roots = IF k = 1 THEN at.roots \cup {path} ELSE at.roots
  OBVIOUS
<1>3. isDir \in BOOLEAN
  BY DEF IsFolder
<1>4. /\ isDir /\ made # {} => \E x \in made : path = x.path
      /\ ~isDir \/ made = {} => path = number
  OBVIOUS
<1>5. /\ isDir => file = FolderAt(path)
      /\ ~isDir => file = [path |-> path, of |-> <<b, i>>, whole |-> FALSE]
  BY <1>3 DEF FolderAt
<1> HIDE DEF file, w, path, number, made, isDir, key
<1>6. w.roots = IF k = 1 THEN at.roots \cup {w.path} ELSE at.roots
  BY <1>2
<1>7. isDir /\ made # {} => WithinKnown(w, at, b, i, k)
  BY <1>2, <1>4 DEF WithinKnown, Known, made, key
<1>8. isDir /\ made = {} => WithinNew(w, at, b, i, k)
  <2>1. isDir /\ made = {} =>
          /\ w.path = number
          /\ w.disk = others(number) \cup {FolderAt(number)}
          /\ w.dirs = at.dirs \cup {[key |-> key, path |-> number]}
    BY <1>2, <1>4, <1>5
  <2>2. QED
    BY <2>1 DEF WithinNew, Spot, Others, number, key
<1>9. ~isDir => WithinFile(w, at, b, i, k)
  <2>1. ~isDir =>
          /\ w.path = number
          /\ w.disk = others(number) \cup {FileAt(number, b, i)}
          /\ w.dirs = at.dirs
    BY <1>2, <1>4, <1>5 DEF FileAt
  <2>2. QED
    BY <2>1 DEF WithinFile, Spot, Others, number
<1>10. WithinIs(w, at, b, i, k)
  BY <1>6, <1>7, <1>8, <1>9 DEF WithinIs, made, isDir, Known, key
<1>11. QED
  BY <1>1, <1>10

(* Each component keeps what reserve has made so far, and adds its own     *)
(* directory or file to it.                                                *)
LEMMA WithinDescends ==
    ASSUME items \in Manifests, NEW b \in Batches, NEW i \in 1..Count(b),
           NEW k \in 1..Len(Named(b, i)), NEW at, NEW d, NEW dirs, NEW roots,
           Descended(at, b, i, k - 1, d, dirs, roots)
    PROVE  Descended(Within(at, b, i, k), b, i, k, d, dirs, roots)
<1> DEFINE n == Named(b, i)
           key == SubSeq(n, 1, k)
           w == Within(at, b, i, k)
           made == Known(at, b, i, k)
           number == Spot(at, b, i, k)
           others == Others(at.disk, number)
           file == FileAt(number, b, i)
           entry == [key |-> key, path |-> number]
<1>1. /\ n \in Seq(Components) /\ Len(n) \in Nat /\ items[b][i].dir \in BOOLEAN
      /\ k \in Nat /\ k >= 1 /\ k <= Len(n) /\ k - 1 \in 0..Len(n) /\ k \in 0..Len(n)
  BY NamesAre
<1>2. /\ key \in Seq(Components) /\ Len(key) = k /\ n[k] \in Components
      /\ Front(key) = SubSeq(n, 1, k - 1)
  BY <1>1, PrefixIs, FrontIs, ElementOfSeq
<1>3. /\ at.path \in Seq(Places) /\ Len(at.path) = k - 1
      /\ IsDisk(at.disk) /\ d \subseteq at.disk
      /\ IsFolders(at.dirs, at.disk) /\ dirs \subseteq at.dirs
      /\ at.roots = IF k - 1 = 0 THEN roots ELSE roots \cup {SubSeq(at.path, 1, 1)}
      /\ \A l \in 1..(k - 1) : IsFolder(b, i, l) =>
            [key |-> SubSeq(n, 1, l), path |-> SubSeq(at.path, 1, l)] \in at.dirs
  BY DEF Descended
<1>4. \E z \in Places : /\ number = Append(at.path, z)
                        /\ \A x \in at.disk : x.path # number
  <2>1. IsFiniteSet(at.disk)
    BY <1>3 DEF IsDisk
  <2>2. \E z \in Places : /\ Numbered(at.disk, at.path, n[k]) = Append(at.path, z)
                          /\ \A x \in at.disk : x.path # Append(at.path, z)
    <3>1. at.path \in Seq(Places) /\ n[k] \in Components
      BY <1>2, <1>3
    <3>2. QED
      BY <2>1, <3>1, FreeName
  <2>3. number = Numbered(at.disk, at.path, n[k])
    BY DEF Spot
  <2>4. QED
    BY <2>2, <2>3
<1>5. SubSeq(at.path, 1, k - 1) = at.path
  BY <1>3, PrefixesAre
<1>6. /\ w.roots = IF k = 1 THEN at.roots \cup {w.path} ELSE at.roots
      /\ IsFolder(b, i, k) /\ made # {} =>
            /\ \E x \in made : w.path = x.path
            /\ w.disk = at.disk /\ w.dirs = at.dirs
      /\ IsFolder(b, i, k) /\ made = {} =>
            /\ w.path = number
            /\ w.disk = others \cup {FolderAt(number)}
            /\ w.dirs = at.dirs \cup {entry}
      /\ ~IsFolder(b, i, k) =>
            /\ w.path = number
            /\ w.disk = others \cup {file}
            /\ w.dirs = at.dirs
  <2>1. WithinIs(w, at, b, i, k)
    BY Rounds
  <2> HIDE DEF w
  <2>2. w.roots = IF k = 1 THEN at.roots \cup {w.path} ELSE at.roots
    BY <2>1 DEF WithinIs
  <2>3. IsFolder(b, i, k) /\ made # {} => WithinKnown(w, at, b, i, k)
    BY <2>1 DEF WithinIs
  <2>4. IsFolder(b, i, k) /\ made = {} => WithinNew(w, at, b, i, k)
    BY <2>1 DEF WithinIs
  <2>5. ~IsFolder(b, i, k) => WithinFile(w, at, b, i, k)
    BY <2>1 DEF WithinIs
  <2>6. QED
    BY <2>2, <2>3, <2>4, <2>5 DEF WithinKnown, WithinNew, WithinFile
<1>k. key = SubSeq(n, 1, k)
  OBVIOUS
<1>f. file.path = number /\ IsThing(file)
  BY DEF FileAt, IsThing
<1> HIDE DEF w, number, key, file
<1>7. k > 1 => [key |-> Front(key), path |-> at.path] \in at.dirs
  <2>1. SUFFICES ASSUME k > 1
                 PROVE  [key |-> Front(key), path |-> at.path] \in at.dirs
    OBVIOUS
  <2>2. k - 1 \in 1..(k - 1) /\ k - 1 < Len(n)
    BY <1>1, <2>1
  <2>3. IsFolder(b, i, k - 1)
    BY <2>2 DEF IsFolder
  <2>4. [key |-> SubSeq(n, 1, k - 1), path |-> SubSeq(at.path, 1, k - 1)] \in at.dirs
    BY <1>3, <2>2, <2>3
  <2>5. QED
    BY <1>2, <1>5, <2>4
<1>8. /\ number \in Seq(Places) /\ Len(number) = k /\ Front(number) = at.path
  <2>1. PICK z \in Places : number = Append(at.path, z)
    BY <1>4
  <2>2. /\ Append(at.path, z) \in Seq(Places) /\ Len(Append(at.path, z)) = Len(at.path) + 1
        /\ Front(Append(at.path, z)) = at.path
    <3>1. Front(Append(at.path, z)) = at.path
      BY <1>3, FrontIs
    <3>2. QED
      BY <1>3, <3>1, AppendProperties
  <2>3. QED
    BY <1>1, <1>3, <2>1, <2>2
<1>9. others = at.disk /\ FolderAt(number).path = number /\ file.path = number
  BY <1>4, <1>f DEF FolderAt, Others
<1> DEFINE Kinds ==
             /\ \E z \in Places : w.path = Append(at.path, z)
             /\ IsDisk(w.disk) /\ at.disk \subseteq w.disk
             /\ IsFolders(w.dirs, w.disk) /\ at.dirs \subseteq w.dirs
             /\ IsFolder(b, i, k) => [key |-> key, path |-> w.path] \in w.dirs
             /\ ~IsFolder(b, i, k) =>
                   FileAt(w.path, b, i) \in w.disk
<1>10. ASSUME IsFolder(b, i, k) /\ made # {}
       PROVE  Kinds
  <2>1. PICK x \in made : w.path = x.path
    BY <1>6, <1>10
  <2>2. w.disk = at.disk /\ w.dirs = at.dirs
    BY <1>6, <1>10
  <2>3. x \in at.dirs /\ x.key = key
    BY <1>k DEF Known
  <2>4. /\ x = [key |-> key, path |-> x.path] /\ x.path \in Seq(Places) /\ Len(x.path) = k
        /\ k > 1 => [key |-> Front(key), path |-> Front(x.path)] \in at.dirs
    BY <1>2, <1>3, <2>3 DEF IsFolders
  <2>5. x.path # <<>>
    BY <1>1, <2>4
  <2>6. /\ Front(x.path) \in Seq(Places) /\ Len(Front(x.path)) = k - 1
        /\ x.path[k] \in Places /\ x.path = Append(Front(x.path), x.path[k])
    BY <2>4, <2>5, FrontIs
  <2>7. Front(x.path) = at.path
    <3>1. CASE k > 1
      <4> DEFINE y == [key |-> Front(key), path |-> at.path]
                 v == [key |-> Front(key), path |-> Front(x.path)]
      <4>1. y \in at.dirs /\ v \in at.dirs
        BY <1>7, <2>4, <3>1
      <4>2. y.key = v.key /\ y.path = at.path /\ v.path = Front(x.path)
        OBVIOUS
      <4> HIDE DEF y, v
      <4>3. QED
        BY <1>3, <4>1, <4>2 DEF IsFolders
    <3>2. CASE k = 1
      <4>1. Len(Front(x.path)) = 0 /\ Len(at.path) = 0
        BY <1>3, <2>6, <3>2
      <4>2. QED
        BY <1>3, <2>6, <4>1, LenProperties, EmptySeq
    <3>3. QED
      BY <1>1, <3>1, <3>2
  <2>8. \E z \in Places : w.path = Append(at.path, z)
    BY <2>1, <2>6, <2>7
  <2>9. [key |-> key, path |-> w.path] \in w.dirs
    BY <2>1, <2>2, <2>3, <2>4
  <2>10. QED
    BY <1>3, <1>10, <2>2, <2>8, <2>9
<1>11. ASSUME IsFolder(b, i, k) /\ made = {}
       PROVE  Kinds
  <2>1. /\ w.path = number /\ w.disk = at.disk \cup {FolderAt(number)}
        /\ w.dirs = at.dirs \cup {entry}
    BY <1>6, <1>9, <1>11
  <2>2. \A x \in at.dirs : x.key # key /\ x.path # number
    <3>1. \A x \in at.dirs : FolderAt(x.path) \in at.disk /\ FolderAt(x.path).path = x.path
      BY <1>3 DEF IsFolders, FolderAt
    <3>2. QED
      BY <1>4, <1>11, <1>k, <3>1 DEF Known
  <2>3. IsDisk(w.disk)
    <3>1. IsDisk(at.disk \cup {FolderAt(number)})
      BY <1>3, <1>4, <1>9, DiskGrows DEF IsThing, FolderAt
    <3>2. QED
      BY <2>1, <3>1
  <2>4. IsFolders(at.dirs, w.disk)
    BY <1>3, <2>1, FoldersStay
  <2>5. IsFolders(w.dirs, w.disk)
    <3>1. Len(key) > 1 => [key |-> Front(key), path |-> Front(number)] \in at.dirs
      BY <1>2, <1>7, <1>8
    <3>2. FolderAt(number) \in w.disk /\ Len(number) = Len(key) /\ Len(key) >= 1
      BY <1>1, <1>2, <1>8, <2>1
    <3>3. IsFolders(at.dirs \cup {[key |-> key, path |-> number]}, w.disk)
      BY <1>2, <1>8, <2>2, <2>4, <3>1, <3>2, FoldersGrow
    <3>4. QED
      BY <2>1, <3>3
  <2>6. \E z \in Places : w.path = Append(at.path, z)
    BY <1>4, <2>1
  <2>7. [key |-> key, path |-> w.path] \in w.dirs
    BY <2>1
  <2>8. at.disk \subseteq w.disk /\ at.dirs \subseteq w.dirs
    BY <2>1
  <2>9. QED
    BY <1>11, <2>3, <2>5, <2>6, <2>7, <2>8
<1>12. ASSUME ~IsFolder(b, i, k)
       PROVE  Kinds
  <2>1. /\ w.path = number /\ w.disk = at.disk \cup {file} /\ w.dirs = at.dirs
    BY <1>6, <1>9, <1>12
  <2>2. IsDisk(w.disk)
    <3>1. IsDisk(at.disk \cup {file})
      BY <1>3, <1>4, <1>9, <1>f, DiskGrows
    <3>2. QED
      BY <2>1, <3>1
  <2>3. IsFolders(w.dirs, w.disk)
    BY <1>3, <2>1, FoldersStay
  <2>4. \E z \in Places : w.path = Append(at.path, z)
    BY <1>4, <2>1
  <2>5. FileAt(w.path, b, i) \in w.disk
    BY <1>f, <2>1 DEF file
  <2>6. at.disk \subseteq w.disk /\ at.dirs \subseteq w.dirs
    BY <2>1
  <2>7. QED
    BY <1>12, <2>2, <2>3, <2>4, <2>5, <2>6
<1> HIDE DEF made, others, entry
<1>13. Kinds
  BY <1>10, <1>11, <1>12
<1>14. PICK z \in Places : w.path = Append(at.path, z)
  BY <1>13
<1>15. /\ w.path \in Seq(Places) /\ Len(w.path) = k
       /\ SubSeq(w.path, 1, k) = w.path
       /\ \A l \in 0..(k - 1) : SubSeq(w.path, 1, l) = SubSeq(at.path, 1, l)
  <2>1. w.path \in Seq(Places) /\ Len(w.path) = k
    BY <1>1, <1>3, <1>14, AppendProperties
  <2>2. SubSeq(w.path, 1, k) = w.path
    BY <2>1, PrefixesAre
  <2>3. \A l \in 0..(k - 1) : SubSeq(Append(at.path, z), 1, l) = SubSeq(at.path, 1, l)
    BY <1>3, PrefixesAre
  <2>4. QED
    BY <1>14, <2>1, <2>2, <2>3
<1>16. w.roots = roots \cup {SubSeq(w.path, 1, 1)}
  <2>1. CASE k = 1
    BY <1>3, <1>6, <1>15, <2>1
  <2>2. CASE k # 1
    <3>1. 1 \in 0..(k - 1) /\ k - 1 # 0
      BY <1>1, <2>2
    <3>2. QED
      BY <1>3, <1>6, <1>15, <2>2, <3>1
  <2>3. QED
    BY <2>1, <2>2
<1>17. ASSUME NEW l \in 1..k, IsFolder(b, i, l)
       PROVE  [key |-> SubSeq(n, 1, l), path |-> SubSeq(w.path, 1, l)] \in w.dirs
  <2>1. CASE l = k
    BY <1>13, <1>15, <1>17, <1>k, <2>1
  <2>2. CASE l # k
    <3>1. l \in 1..(k - 1) /\ l \in 0..(k - 1)
      BY <1>1, <2>2
    <3>2. [key |-> SubSeq(n, 1, l), path |-> SubSeq(at.path, 1, l)] \in at.dirs
      BY <1>3, <1>17, <3>1
    <3>3. SubSeq(w.path, 1, l) = SubSeq(at.path, 1, l)
      BY <1>15, <3>1
    <3>4. QED
      BY <1>13, <3>2, <3>3
  <2>3. QED
    BY <2>1, <2>2
<1>18. k = Len(n) /\ ~items[b][i].dir =>
         FileAt(w.path, b, i) \in w.disk
  <2>1. k = Len(n) /\ ~items[b][i].dir => ~IsFolder(b, i, k)
    BY <1>1 DEF IsFolder
  <2>2. QED
    BY <1>13, <2>1
<1>19. d \subseteq w.disk /\ dirs \subseteq w.dirs /\ k # 0
  BY <1>1, <1>3, <1>13
<1>20. Descended(w, b, i, k, d, dirs, roots)
  BY <1>13, <1>15, <1>16, <1>17, <1>18, <1>19 DEF Descended
<1>21. QED
  BY <1>20 DEF w

(* The rounds of reserve, as a function of the depth. *)
RoundsOf(f, base, b, i, depth) ==
    [k \in 0..depth |-> IF k = 0 THEN base ELSE Within(f[k - 1], b, i, k)]

(* There are such rounds. *)
LEMMA RoundsExist ==
    ASSUME NEW base, NEW b, NEW i, NEW depth \in Nat
    PROVE  \E f : f = RoundsOf(f, base, b, i, depth)
<1> DEFINE G(f, n) == [k \in 0..n |-> IF k = 0 THEN base ELSE Within(f[k - 1], b, i, k)]
           bad == {n \in Nat : ~ \E f : f = G(f, n)}
<1>1. ASSUME bad # {}
      PROVE  FALSE
  <2>1. bad \in SUBSET Nat
    OBVIOUS
  <2>2. PICK n \in bad : \A m \in bad : n <= m
    <3> HIDE DEF bad
    <3>1. QED
      BY <1>1, <2>1, Least
  <2>3. n \in Nat /\ ~ \E f : f = G(f, n)
    OBVIOUS
  <2>4. CASE n = 0
    <3> DEFINE f == [k \in 0..0 |-> base]
    <3>1. f = G(f, n)
      BY <2>4
    <3>2. QED
      BY <2>3, <3>1
  <2>5. CASE n > 0
    <3>1. n - 1 \in Nat /\ ~ n <= n - 1
      BY <2>3, <2>5
    <3>2. n - 1 \notin bad
      BY <2>2, <3>1
    <3>3. PICK f : f = G(f, n - 1)
      BY <3>1, <3>2
    <3> DEFINE g == G(f, n)
    <3>4. \A k \in 0..(n - 1) : g[k] = f[k]
      <4>1. ASSUME NEW k \in 0..(n - 1)
            PROVE  g[k] = f[k]
        <5>1. k \in 0..n
          BY <2>3
        <5>2. g[k] = IF k = 0 THEN base ELSE Within(f[k - 1], b, i, k)
          BY <5>1
        <5>3. f[k] = IF k = 0 THEN base ELSE Within(f[k - 1], b, i, k)
          BY <3>3
        <5>4. QED
          BY <5>2, <5>3
      <4>2. QED
        BY <4>1
    <3>5. g = [k \in 0..n |-> IF k = 0 THEN base ELSE Within(g[k - 1], b, i, k)]
      <4> HIDE DEF g
      <4>1. \A k \in 0..n : k # 0 => g[k - 1] = f[k - 1]
        <5>1. \A k \in 0..n : k # 0 => k - 1 \in 0..(n - 1)
          BY <2>3
        <5>2. QED
          BY <3>4, <5>1
      <4>2. G(f, n) = G(g, n)
        BY <4>1
      <4>3. QED
        BY <4>2 DEF g
    <3>6. QED
      BY <2>3, <3>5
  <2>6. QED
    BY <2>3, <2>4, <2>5
<1>2. \E f : f = G(f, depth)
  BY <1>1
<1>3. QED
  BY <1>2 DEF RoundsOf

(* Batch::reserve: the disk and the batch's directories grow by what the   *)
(* name still needs, and the path follows it.                              *)
LEMMA ReserveDescends ==
    ASSUME items \in Manifests, NEW b \in Batches, NEW i \in 1..Count(b),
           ~Unsafe(b, i), NEW x, NEW d, IsDisk(d), IsFolders(x.dirs, d)
    PROVE  Descended(Reserve(x, d, b, i), b, i, Len(Named(b, i)), d, x.dirs, x.roots)
<1> DEFINE depth == Len(Named(b, i))
           base == [path |-> <<>>, disk |-> d, dirs |-> x.dirs, roots |-> x.roots]
           at == CHOOSE f : f = RoundsOf(f, base, b, i, depth)
<1>1. depth \in Nat
  BY NamesAre
<1>2. Reserve(x, d, b, i) = at[depth]
  BY DEF Reserve, RoundsOf
<1>3. at = [k \in 0..depth |-> IF k = 0 THEN base ELSE Within(at[k - 1], b, i, k)]
  <2> HIDE DEF depth, base
  <2>1. \E f : f = RoundsOf(f, base, b, i, depth)
    BY <1>1, RoundsExist
  <2>2. at = RoundsOf(at, base, b, i, depth)
    BY <2>1
  <2> HIDE DEF at
  <2>3. QED
    BY <2>2 DEF RoundsOf
<1>4. Descended(base, b, i, 0, d, x.dirs, x.roots)
  <2>1. <<>> \in Seq(Places) /\ Len(<<>>) = 0
    BY EmptySeq
  <2>2. depth # 0
    BY NamesAre, EmptySeq DEF Unsafe
  <2>3. /\ base.path = <<>> /\ base.disk = d /\ base.dirs = x.dirs /\ base.roots = x.roots
    OBVIOUS
  <2> HIDE DEF base
  <2>4. QED
    BY <2>1, <2>2, <2>3 DEF Descended
<1> HIDE DEF at, base
<1> DEFINE bad == {k \in 0..depth : ~Descended(at[k], b, i, k, d, x.dirs, x.roots)}
<1>5. ASSUME bad # {}
      PROVE  FALSE
  <2>1. bad \in SUBSET Nat
    BY <1>1
  <2>2. PICK k \in bad : \A m \in bad : k <= m
    <3> HIDE DEF bad
    <3>1. QED
      BY <1>5, <2>1, Least
  <2>3. k \in 0..depth /\ ~Descended(at[k], b, i, k, d, x.dirs, x.roots)
    OBVIOUS
  <2>4. k # 0
    BY <1>3, <1>4, <2>3
  <2>5. k - 1 \in 0..depth /\ k \in 1..depth /\ ~ k <= k - 1
    BY <1>1, <2>3, <2>4
  <2>6. k - 1 \notin bad
    BY <2>2, <2>5
  <2>7. Descended(at[k - 1], b, i, k - 1, d, x.dirs, x.roots)
    BY <2>5, <2>6
  <2>8. at[k] = Within(at[k - 1], b, i, k)
    BY <1>3, <2>3, <2>4
  <2>9. Descended(Within(at[k - 1], b, i, k), b, i, k, d, x.dirs, x.roots)
    BY <2>5, <2>7, WithinDescends
  <2>10. QED
    BY <2>3, <2>8, <2>9
<1>6. Descended(at[depth], b, i, depth, d, x.dirs, x.roots)
  BY <1>1, <1>5
<1>7. QED
  BY <1>2, <1>6

-----------------------------------------------------------------------------
(***************************************************************************)
(* A batch that is sent is saved under one generation.                     *)
(***************************************************************************)

(* A path is reserved for the entry, and has not been given up. *)
Started(b, i) == stream[b][i].pc = "saving" \/ stream[b][i].ok

(* The inbox has let the entry in, or refused it. *)
Answered == {"saving", "saved", "over"}
Going == {"sending", "waiting", "next"}

(* The entry is being saved, or was, for the batch that is open now. *)
Current(b, i) == Started(b, i) /\ stream[b][i].gen = inbox.open[b].gen

(* Nothing of the batch has gone wrong yet. *)
Good(b) ==
    /\ send[b].pc # "failed"
    /\ \A i \in 1..MaxCount : stream[b][i].pc \in {"saved", "over"} => stream[b][i].ok

AllOver(b) == \A i \in 1..Count(b) : stream[b][i].pc = "over" /\ stream[b][i].ok

NewAtFirst == \A b \in Batches : send[b].pc = "new" => send[b].index = 1

(* Who calls a batch off has given it up. *)
CalledOff ==
    \A b \in Batches : b \in Range(control) \/ FileCancel(b) \in Range(events) =>
        send[b].pc = "failed"

(* While the run loop has yet to hear of a loss, nothing is saved of a     *)
(* batch that is being sent: it began after the loss.                      *)
LostBehind ==
    \A k \in DOMAIN events : events[k].type = "lost" =>
        /\ \A l \in 1..(k - 1) : events[l].type = "file" => send[events[l].batch].pc = "failed"
        /\ \A b \in Batches : send[b].pc \in Going =>
              \A i \in 1..MaxCount : stream[b][i].pc \notin Answered

OneGeneration ==
    \A b \in Batches : Good(b) =>
        /\ \A i, j \in 1..MaxCount : Started(b, i) /\ Started(b, j) =>
              stream[b][i].gen = stream[b][j].gen
        /\ \A i \in 1..MaxCount : Started(b, i) =>
              send[b].pc = "sent" \/ Current(b, i) \/ AllOver(b)

Together == NewAtFirst /\ CalledOff /\ LostBehind /\ OneGeneration

(* A sender does not come back from where it ended, nor begin again.       *)
SenderStep ==
    \A c \in Batches :
        /\ send[c].pc \in {"failed", "sent"} => send'[c].pc = send[c].pc
        /\ send'[c].pc = "new" => send'[c] = send[c]
        /\ send'[c].pc \in Going => send[c].pc \in Going \cup {"new"}

(* What was answered stays answered, with its verdict, where it is. *)
AnswersStay ==
    \A c \in Batches, j \in 1..MaxCount :
        /\ stream[c][j].pc \in Answered =>
              /\ stream'[c][j].pc \in Answered
              /\ stream'[c][j].gen = stream[c][j].gen /\ stream'[c][j].path = stream[c][j].path
        /\ stream[c][j].pc \in {"saved", "over"} =>
              stream'[c][j].pc \in {"saved", "over"} /\ stream'[c][j].ok = stream[c][j].ok
        /\ stream[c][j].pc = "over" => stream'[c][j].pc = "over"

NoneStarts == \A c \in Batches, j \in 1..MaxCount : Started(c, j)' => Started(c, j)

NoneAnswered ==
    \A c \in Batches, j \in 1..MaxCount : stream'[c][j].pc \in Answered => stream[c][j].pc \in Answered

(* An entry's stream moves on, for the batch and at the path it has; or    *)
(* none does.                                                              *)
Moved(b, i, pc, ok) ==
    Becomes(b, i, pc, ok, stream[b][i].gen) /\ stream'[b][i].path = stream[b][i].path

AllStay ==
    /\ Kept
    /\ \A c \in Batches, j \in 1..MaxCount : stream'[c][j].path = stream[c][j].path

(* The path of an entry is not touched by what happens to its stream. *)
LEMMA PathsStay ==
    ASSUME NEW s, IsEntry(s)
    PROVE  /\ \A pc : At(s, pc).path = s.path
           /\ \A data : WithData(s, data).path = s.path
           /\ \A yes : WithHeard(s, yes).path = s.path
           /\ \A ok : Answer(s, ok).path = s.path
           /\ \A gen, path : Starts(s, gen, path).path = path
<1>1. \A pc : At(s, pc).path = s.path
  BY DEF IsEntry, At
<1>2. \A data : WithData(s, data).path = s.path
  BY DEF IsEntry, WithData
<1>3. \A yes : WithHeard(s, yes).path = s.path
  BY DEF IsEntry, WithHeard
<1>4. \A ok : Answer(s, ok).path = s.path
  <2>1. SUFFICES ASSUME NEW ok PROVE Answer(s, ok).path = s.path
    OBVIOUS
  <2> DEFINE t == At(s, "saved")
  <2>2. IsEntry(t) /\ t.path = s.path
    BY <1>1, EntrySteps DEF Is
  <2> HIDE DEF t
  <2>3. WithOk(t, ok).path = t.path
    BY <2>2 DEF IsEntry, WithOk
  <2>4. QED
    BY <2>2, <2>3 DEF Answer, t
<1>5. \A gen, path : Starts(s, gen, path).path = path
  <2>1. SUFFICES ASSUME NEW gen, NEW path PROVE Starts(s, gen, path).path = path
    OBVIOUS
  <2> DEFINE t == At(s, "saving")
             u == WithGen(t, gen)
  <2>2. t = [pc |-> t.pc, data |-> t.data, ok |-> t.ok, gen |-> t.gen,
             path |-> t.path, heard |-> t.heard]
    BY DEF IsEntry, At
  <2> HIDE DEF t
  <2>3. u = [pc |-> u.pc, data |-> u.data, ok |-> u.ok, gen |-> u.gen,
             path |-> u.path, heard |-> u.heard]
    BY <2>2 DEF WithGen
  <2> HIDE DEF u
  <2>4. WithPath(u, path).path = path
    BY <2>3 DEF WithPath
  <2>5. QED
    BY <2>4 DEF Starts, t, u
<1>6. QED
  BY <1>1, <1>2, <1>3, <1>4, <1>5

(* The sender's and the connection's steps leave the paths alone. *)
LEMMA SenderPaths ==
    ASSUME StreamsTyped, SendTyped, NEW b \in Batches, send[b].index \in 1..MaxCount,
           Finish(b) \/ SendFails(b) \/ HearAnswer(b)
    PROVE  AllStay
<1> DEFINE i == send[b].index
           s == stream[b][i]
<1>1. Kept /\ IsEntry(s)
  BY SenderStreams DEF StreamsTyped
<1>2. \/ stream' = [stream EXCEPT ![b][i] = WithData(s, "whole")]
      \/ stream' = [stream EXCEPT ![b][i] =
                      WithData(s, IF s.data = "flowing" THEN "cut" ELSE s.data)]
      \/ stream' = [stream EXCEPT ![b][i] = WithHeard(s, TRUE)]
  BY Zenon DEF Finish, SendFails, HearAnswer, WithData, WithHeard
<1>3. /\ \A data : WithData(s, data).path = s.path
      /\ \A yes : WithHeard(s, yes).path = s.path
  BY <1>1, PathsStay
<1> HIDE DEF s
<1>4. \A g : g.path = s.path /\ stream' = [stream EXCEPT ![b][i] = g] =>
        \A c \in Batches, j \in 1..MaxCount : stream'[c][j].path = stream[c][j].path
  BY DEF StreamsTyped, s
<1>5. QED
  BY <1>1, <1>2, <1>3, <1>4 DEF AllStay

LEMMA BreakPaths ==
    ASSUME StreamsTyped, NEW replaced, Break(replaced)
    PROVE  AllStay
<1> DEFINE D(s) == CASE s.data = "flowing" -> "cut"
                     [] s.data = "whole"   -> "maybe"
                     [] OTHER              -> s.data
           W(s) == WithData(s, D(s))
<1>1. stream' = [b \in Batches |-> [i \in 1..MaxCount |-> W(stream[b][i])]]
  BY Zenon DEF Break, WithData
<1>2. \A b \in Batches, i \in 1..MaxCount : W(stream[b][i]).path = stream[b][i].path
  BY PathsStay DEF StreamsTyped
<1> HIDE DEF W
<1>3. \A b \in Batches, i \in 1..MaxCount : stream'[b][i] = W(stream[b][i])
  BY <1>1
<1>4. QED
  BY <1>2, <1>3, BreakStreams DEF AllStay

(* The steps of a stream's task, and of the run loop when a save ends.     *)
LEMMA TaskPaths ==
    ASSUME StreamsTyped, NEW b \in Batches, NEW i \in 1..MaxCount
    PROVE  /\ HeaderRead(b, i) => \/ Moved(b, i, "posted", stream[b][i].ok)
                                  \/ Moved(b, i, "gone", stream[b][i].ok)
           /\ Saved(b, i) => Moved(b, i, "saved", TRUE)
           /\ SaveFails(b, i) => Moved(b, i, "saved", FALSE)
           /\ OnDone(b, i) => Moved(b, i, "over", stream[b][i].ok)
<1> DEFINE s == stream[b][i]
<1>1. IsEntry(s)
  BY DEF StreamsTyped
<1>2. HeaderRead(b, i) => \E pc : stream' = [stream EXCEPT ![b][i] = At(s, pc)]
  BY Zenon DEF HeaderRead, At
<1>3. Saved(b, i) => stream' = [stream EXCEPT ![b][i] = Answer(s, TRUE)]
  BY Zenon DEF Saved, At, WithOk, Answer
<1>4. SaveFails(b, i) => stream' = [stream EXCEPT ![b][i] = Answer(s, FALSE)]
  BY Zenon DEF SaveFails, At, WithOk, Answer
<1>5. OnDone(b, i) => stream' = [stream EXCEPT ![b][i] = At(s, "over")]
  BY Zenon DEF OnDone, At
<1>6. /\ \A pc : At(s, pc).path = s.path
      /\ \A ok : Answer(s, ok).path = s.path
  BY <1>1, PathsStay
<1>7. \A g : stream' = [stream EXCEPT ![b][i] = g] => stream'[b][i] = g
  BY DEF StreamsTyped
<1> HIDE DEF s
<1>8. HeaderRead(b, i) \/ Saved(b, i) \/ SaveFails(b, i) \/ OnDone(b, i) =>
        stream'[b][i].path = s.path
  BY <1>2, <1>3, <1>4, <1>5, <1>6, <1>7
<1>9. QED
  BY <1>8, TaskStreams DEF Moved, s

(* No step brings a sender back. *)
LEMMA SenderSteps ==
    ASSUME Shape, [Next]_vars
    PROVE  SenderStep /\ UNCHANGED items
<1>1. SendTyped
  BY DEF Shape
<1> DEFINE Pc == {"new", "sending", "waiting", "next", "sent", "failed"}
<1>2. \A b \in Batches : send[b] \in [pc : Pc, index : Nat]
  BY <1>1 DEF SendTyped
<1>3. CASE UNCHANGED <<send, items>>
  <2>1. \A c \in Batches : send[c].pc \in Pc /\ send'[c] = send[c]
    BY <1>2, <1>3
  <2>2. QED
    BY <1>3, <2>1 DEF SenderStep, Going
<1>4. ASSUME NEW b \in Batches, NEW g, send' = [send EXCEPT ![b] = g], UNCHANGED items,
             send[b].pc \notin {"failed", "sent"}, g.pc # "new",
             g.pc \in Going => send[b].pc \in Going \cup {"new"}
      PROVE  SenderStep
  <2>1. send'[b] = g /\ \A c \in Batches : c # b => send'[c] = send[c]
    BY <1>1, <1>4 DEF SendTyped
  <2>2. \A c \in Batches : send[c].pc \in Pc
    BY <1>2
  <2>3. QED
    BY <1>4, <2>1, <2>2 DEF SenderStep, Going
<1>5. \A b \in Batches : \A pc : SendAt(send[b], pc).pc = pc
  BY <1>2 DEF SendAt
<1>6. ASSUME NEW b \in Batches,
             ScanFails(b) \/ OpenStream(b) \/ Finish(b) \/ SendFails(b) \/ HearAnswer(b)
      PROVE  SenderStep /\ UNCHANGED items
  <2>1. UNCHANGED items
    BY <1>6 DEF ScanFails, OpenStream, Finish, SendFails, HearAnswer
  <2>2. send[b].pc \in {"new", "next", "sending", "waiting"}
    BY <1>6 DEF ScanFails, OpenStream, Finish, SendFails, HearAnswer
  <2>3. send[b].pc \notin {"failed", "sent"}
    BY <2>2
  <2>4. \/ send' = [send EXCEPT ![b] = SendAt(send[b], "failed")]
        \/ send' = [send EXCEPT ![b] = SendAt(send[b], "sending")]
        \/ send' = [send EXCEPT ![b] = SendAt(send[b], "waiting")]
        \/ send' = [send EXCEPT ![b] = [pc |-> "sent", index |-> send[b].index]]
        \/ send' = [send EXCEPT ![b] = [pc |-> "next", index |-> send[b].index + 1]]
    BY <1>6, Zenon DEF ScanFails, OpenStream, Finish, SendFails, HearAnswer, GiveUp, SendAt
  <2>5. \E g : send' = [send EXCEPT ![b] = g] /\ g.pc # "new"
    <3>1. \A pc : SendAt(send[b], pc).pc = pc
      BY <1>5
    <3>2. [pc |-> "sent", index |-> send[b].index].pc = "sent"
      OBVIOUS
    <3>3. [pc |-> "next", index |-> send[b].index + 1].pc = "next"
      OBVIOUS
    <3>4. "failed" # "new" /\ "sending" # "new" /\ "waiting" # "new" /\ "sent" # "new"
          /\ "next" # "new"
      OBVIOUS
    <3>5. QED
      BY <2>4, <3>1, <3>2, <3>3, <3>4
  <2>6. PICK g : send' = [send EXCEPT ![b] = g] /\ g.pc # "new"
    BY <2>5
  <2>7. g.pc \in Going => send[b].pc \in Going \cup {"new"}
    BY <2>2 DEF Going
  <2>8. SenderStep
    BY <1>4, <2>1, <2>3, <2>6, <2>7
  <2>9. QED
    BY <2>1, <2>8
<1>7. ASSUME NEW b \in Batches, NEW i \in 1..MaxCount,
             HeaderRead(b, i) \/ Saved(b, i) \/ SaveFails(b, i) \/ OnDone(b, i)
      PROVE  UNCHANGED <<send, items>>
  BY <1>7 DEF HeaderRead, Saved, SaveFails, OnDone
<1>8. CASE CancelRead \/ Reconnect \/ OnFile \/ OnCancel \/ OnLost \/ OnConnected \/ UNCHANGED vars
  <2>1. UNCHANGED <<send, items>>
    BY <1>8 DEF CancelRead, Reconnect, OnFile, OnCancel, OnLost, OnConnected, vars
  <2>2. QED
    BY <1>3, <2>1
<1>9. ASSUME NEW replaced \in BOOLEAN, Break(replaced)
      PROVE  SenderStep /\ UNCHANGED items
  <2>1. UNCHANGED items
    BY <1>9 DEF Break
  <2>2. send' = [b \in Batches |-> IF send[b].pc \in {"sending", "waiting", "next"}
                                   THEN SendAt(send[b], "failed") ELSE send[b]]
    BY <1>9, Zenon DEF Break, SendAt
  <2>3. \A b \in Batches : \/ send'[b] = send[b]
                           \/ send'[b].pc = "failed" /\ send[b].pc \in {"sending", "waiting", "next"}
    BY <1>5, <2>2
  <2>4. \A b \in Batches : send[b].pc \in Pc
    BY <1>2
  <2>5. SenderStep
    BY <2>3, <2>4 DEF SenderStep, Going
  <2>6. QED
    BY <2>1, <2>5
<1>10. QED
  BY <1>3, <1>6, <1>7, <1>8, <1>9, Zenon DEF Next, Sender, Streams, RunLoop, Connection

-----------------------------------------------------------------------------
(***************************************************************************)
(* The parts, from what a step leaves alone.                               *)
(***************************************************************************)

(* A stream that moves on, or none: what was answered stays so.            *)
LEMMA MovedAnswers ==
    ASSUME Goods
    PROVE  /\ AllStay => AnswersStay /\ NoneStarts /\ NoneAnswered
           /\ UNCHANGED stream => AnswersStay /\ NoneStarts /\ NoneAnswered
           /\ \A b \in Batches, i \in 1..MaxCount : \A pc, ok :
                 /\ Moved(b, i, pc, ok)
                 /\ \/ /\ stream[b][i].pc \notin Answered /\ pc \notin Answered
                       /\ ok = stream[b][i].ok
                    \/ stream[b][i].pc = "saving" /\ pc = "saved"
                    \/ stream[b][i].pc = "saved" /\ pc = "over" /\ ok = stream[b][i].ok
                 => AnswersStay /\ NoneStarts /\ NoneAnswered
<1>1. AllStay => AnswersStay /\ NoneStarts /\ NoneAnswered
  <2>1. SUFFICES ASSUME AllStay PROVE AnswersStay /\ NoneStarts /\ NoneAnswered
    OBVIOUS
  <2>2. \A c \in Batches, j \in 1..MaxCount :
          /\ stream'[c][j].pc = stream[c][j].pc /\ stream'[c][j].ok = stream[c][j].ok
          /\ stream'[c][j].gen = stream[c][j].gen /\ stream'[c][j].path = stream[c][j].path
    BY <2>1 DEF AllStay, Kept
  <2>3. QED
    BY <2>2 DEF AnswersStay, NoneStarts, NoneAnswered, Started
<1>2. UNCHANGED stream => AnswersStay /\ NoneStarts /\ NoneAnswered
  BY DEF AnswersStay, NoneStarts, NoneAnswered, Started
<1>3. ASSUME NEW b \in Batches, NEW i \in 1..MaxCount, NEW pc, NEW ok, Moved(b, i, pc, ok),
             \/ /\ stream[b][i].pc \notin Answered /\ pc \notin Answered
                /\ ok = stream[b][i].ok
             \/ stream[b][i].pc = "saving" /\ pc = "saved"
             \/ stream[b][i].pc = "saved" /\ pc = "over" /\ ok = stream[b][i].ok
      PROVE  AnswersStay /\ NoneStarts /\ NoneAnswered
  <2>1. /\ stream'[b][i].pc = pc /\ stream'[b][i].ok = ok
        /\ stream'[b][i].gen = stream[b][i].gen /\ stream'[b][i].path = stream[b][i].path
        /\ \A c \in Batches, j \in 1..MaxCount : c # b \/ j # i => stream'[c][j] = stream[c][j]
    BY <1>3 DEF Moved, Becomes
  <2>2. AnswersStay
    BY <1>3, <2>1 DEF AnswersStay, Answered
  <2>3. NoneAnswered
    BY <1>3, <2>1 DEF NoneAnswered, Answered
  <2>4. stream[b][i].ok => stream[b][i].pc \in {"saved", "over"}
    BY DEF Goods
  <2>5. NoneStarts
    BY <1>3, <2>1, <2>4 DEF NoneStarts, Started, Answered
  <2>6. QED
    BY <2>2, <2>3, <2>5
<1>4. QED
  BY <1>1, <1>2, <1>3

LEMMA NewKeeps ==
    ASSUME NewAtFirst, SenderStep
    PROVE  NewAtFirst'
BY DEF NewAtFirst, SenderStep

(* What is called off, when nothing is called off that has not failed. *)
LEMMA CalledKeeps ==
    ASSUME CalledOff, SenderStep,
           \A b \in Batches : b \in Range(control)' => b \in Range(control) \/ send'[b].pc = "failed",
           \A b \in Batches : FileCancel(b) \in Range(events)' =>
               FileCancel(b) \in Range(events) \/ b \in Range(control)
    PROVE  CalledOff'
<1>1. \A b \in Batches : send[b].pc = "failed" => send'[b].pc = "failed"
  BY DEF SenderStep
<1>2. QED
  BY <1>1 DEF CalledOff, FileCancel

(* The losses in the queue were there, and so were the headers before them.*)
LostAsBefore ==
    \A k \in DOMAIN events' : events'[k].type = "lost" =>
        \E n \in DOMAIN events :
            /\ events[n].type = "lost"
            /\ \A l \in 1..(k - 1) : events'[l].type = "file" =>
                  \E m \in 1..(n - 1) : events[m] = events'[l]

LEMMA LostQueue ==
    ASSUME QueuesTyped
    PROVE  /\ UNCHANGED events => LostAsBefore
           /\ \A e : e \in Events /\ e.type # "lost" /\ events' = Append(events, e) => LostAsBefore
           /\ events # <<>> /\ events' = Tail(events) => LostAsBefore
<1>1. DOMAIN events = 1..Len(events) /\ Len(events) \in Nat /\ events \in Seq(Events)
  BY LenProperties DEF QueuesTyped
<1>2. UNCHANGED events => LostAsBefore
  BY <1>1 DEF LostAsBefore
<1>3. ASSUME NEW e, e \in Events, e.type # "lost", events' = Append(events, e)
      PROVE  LostAsBefore
  <2>1. /\ DOMAIN events' = 1..(Len(events) + 1)
        /\ \A k \in 1..Len(events) : events'[k] = events[k]
        /\ events'[Len(events) + 1] = e
    <3>1. /\ events' \in Seq(Events) /\ Len(events') = Len(events) + 1
          /\ \A k \in 1..Len(events) : events'[k] = events[k]
          /\ events'[Len(events) + 1] = e
      BY <1>1, <1>3, AppendProperties
    <3>2. DOMAIN events' = 1..Len(events')
      BY <3>1, LenProperties
    <3>3. QED
      BY <3>1, <3>2
  <2>2. ASSUME NEW k \in DOMAIN events', events'[k].type = "lost"
        PROVE  /\ k \in DOMAIN events /\ events[k].type = "lost"
               /\ \A l \in 1..(k - 1) : l \in 1..(k - 1) /\ events[l] = events'[l]
    <3>1. k # Len(events) + 1
      BY <1>3, <2>1, <2>2
    <3>2. k \in 1..Len(events)
      BY <1>1, <2>1, <3>1
    <3>3. \A l \in 1..(k - 1) : l \in 1..Len(events)
      BY <1>1, <3>2
    <3>4. QED
      BY <1>1, <2>1, <2>2, <3>2, <3>3
  <2>3. QED
    BY <2>2 DEF LostAsBefore
<1>4. ASSUME events # <<>>, events' = Tail(events)
      PROVE  LostAsBefore
  <2>1. /\ DOMAIN events' = 1..(Len(events) - 1) /\ Len(events) >= 1
        /\ \A k \in 1..(Len(events) - 1) : events'[k] = events[k + 1]
    <3>1. /\ events' \in Seq(Events) /\ Len(events') = Len(events) - 1
          /\ \A k \in 1..Len(Tail(events)) : Tail(events)[k] = events[k + 1]
      BY <1>1, <1>4, HeadTailProperties
    <3>2. DOMAIN events' = 1..Len(events')
      BY <3>1, LenProperties
    <3>3. Len(events) # 0
      BY <1>1, <1>4, LenProperties, EmptySeq
    <3>4. QED
      BY <1>1, <1>4, <3>1, <3>2, <3>3
  <2>2. ASSUME NEW k \in DOMAIN events', events'[k].type = "lost"
        PROVE  \E n \in DOMAIN events :
                  /\ events[n].type = "lost"
                  /\ \A l \in 1..(k - 1) : events'[l].type = "file" =>
                        \E m \in 1..(n - 1) : events[m] = events'[l]
    <3> DEFINE n == k + 1
    <3>1. k \in 1..(Len(events) - 1)
      BY <2>1
    <3>2. \A l \in 1..(k - 1) : l \in 1..(Len(events) - 1) /\ l + 1 \in 1..(n - 1)
      BY <1>1, <3>1
    <3>3. n \in DOMAIN events
      BY <1>1, <3>1
    <3>4. events'[k] = events[n]
      BY <2>1, <3>1
    <3> HIDE DEF n
    <3>5. ASSUME NEW l \in 1..(k - 1)
          PROVE  \E m \in 1..(n - 1) : events[m] = events'[l]
      <4>1. l + 1 \in 1..(n - 1) /\ events'[l] = events[l + 1]
        BY <2>1, <3>2
      <4>2. QED
        BY <4>1
    <3>6. QED
      BY <2>2, <3>3, <3>4, <3>5
  <2>3. QED
    BY <2>2 DEF LostAsBefore
<1>5. QED
  BY <1>2, <1>3, <1>4

(* Losses in the queue, when the headers before them are those that were.  *)
LEMMA LostKeeps ==
    ASSUME LostBehind, NewAtFirst, Ahead, SenderStep, QueuesTyped,
           LostAsBefore,
           \A k \in DOMAIN events' : events'[k].type = "lost" =>
               \A c \in Batches, j \in 1..MaxCount : stream'[c][j].pc \in Answered =>
                   stream[c][j].pc \in Answered \/ send[c].pc = "failed"
    PROVE  LostBehind'
<1>1. SUFFICES ASSUME NEW k \in DOMAIN events', events'[k].type = "lost"
               PROVE  /\ \A l \in 1..(k - 1) : events'[l].type = "file" =>
                            send'[events'[l].batch].pc = "failed"
                      /\ \A b \in Batches : send'[b].pc \in Going =>
                            \A i \in 1..MaxCount : stream'[b][i].pc \notin Answered
  BY DEF LostBehind
<1>2. PICK n \in DOMAIN events :
        /\ events[n].type = "lost"
        /\ \A l \in 1..(k - 1) : events'[l].type = "file" =>
              \E m \in 1..(n - 1) : events[m] = events'[l]
  BY <1>1 DEF LostAsBefore
<1>3. \A c \in Batches, j \in 1..MaxCount : stream'[c][j].pc \in Answered =>
        stream[c][j].pc \in Answered \/ send[c].pc = "failed"
  BY <1>1
<1>4. DOMAIN events = 1..Len(events) /\ Len(events) \in Nat
  BY LenProperties DEF QueuesTyped
<1>5. \A m \in DOMAIN events : events[m].type = "file" => events[m].batch \in Batches
  BY ElementOfSeq DEF QueuesTyped, Events
<1>6. ASSUME NEW l \in 1..(k - 1), events'[l].type = "file"
      PROVE  send'[events'[l].batch].pc = "failed"
  <2>1. PICK m \in 1..(n - 1) : events[m] = events'[l]
    BY <1>2, <1>6
  <2>2. m \in DOMAIN events
    BY <1>4
  <2>3. events[m].type = "file" /\ events[m].batch \in Batches
    BY <1>5, <1>6, <2>1, <2>2
  <2>4. send[events[m].batch].pc = "failed"
    BY <1>2, <2>3 DEF LostBehind
  <2>5. QED
    BY <2>1, <2>3, <2>4 DEF SenderStep
<1>7. ASSUME NEW b \in Batches, send'[b].pc \in Going, NEW i \in 1..MaxCount
      PROVE  stream'[b][i].pc \notin Answered
  <2>1. send[b].pc \in Going \cup {"new"}
    BY <1>7 DEF SenderStep
  <2>2. send[b].pc # "failed"
    BY <2>1 DEF Going
  <2>3. stream[b][i].pc \notin Answered
    <3>1. CASE send[b].pc \in Going
      BY <1>2, <3>1 DEF LostBehind
    <3>2. CASE send[b].pc = "new"
      <4>1. send[b].index = 1
        BY <3>2 DEF NewAtFirst
      <4>2. i > 1 \/ i = 1
        BY SizesAssumption
      <4>3. stream[b][i].pc = "none"
        BY <3>2, <4>1, <4>2 DEF Ahead
      <4>4. QED
        BY <4>3 DEF Answered
    <3>3. QED
      BY <2>1, <3>1, <3>2
  <2>4. QED
    BY <1>3, <2>2, <2>3
<1>8. QED
  BY <1>6, <1>7

(* A batch under one generation, when nothing of it starts. *)
LEMMA GenerationKeeps ==
    ASSUME OneGeneration, Goods, SendTyped, SenderStep, UNCHANGED items, AnswersStay, NoneStarts,
           \A b \in Batches : Good(b)' =>
               \/ inbox'.open[b].gen = inbox.open[b].gen
               \/ send'[b].pc = "sent" \/ AllOver(b)'
               \/ \A i \in 1..MaxCount : ~Started(b, i)'
    PROVE  OneGeneration'
<1>1. SUFFICES ASSUME NEW b \in Batches, Good(b)'
               PROVE  /\ \A i, j \in 1..MaxCount : Started(b, i)' /\ Started(b, j)' =>
                            stream'[b][i].gen = stream'[b][j].gen
                      /\ \A i \in 1..MaxCount : Started(b, i)' =>
                            send'[b].pc = "sent" \/ Current(b, i)' \/ AllOver(b)'
  BY DEF OneGeneration
<1>2. Good(b)
  <2>1. send[b].pc # "failed"
    BY <1>1 DEF SenderStep, Good
  <2>2. \A i \in 1..MaxCount : stream[b][i].pc \in {"saved", "over"} => stream[b][i].ok
    BY <1>1 DEF Good, AnswersStay
  <2>3. QED
    BY <2>1, <2>2 DEF Good
<1>3. \A i \in 1..MaxCount : Started(b, i)' => Started(b, i) /\ stream'[b][i].gen = stream[b][i].gen
  <2>1. \A i \in 1..MaxCount : Started(b, i) => stream[b][i].pc \in Answered
    BY DEF Started, Answered, Goods
  <2>2. QED
    BY <2>1 DEF NoneStarts, AnswersStay
<1>4. \A i, j \in 1..MaxCount : Started(b, i)' /\ Started(b, j)' =>
        stream'[b][i].gen = stream'[b][j].gen
  BY <1>2, <1>3 DEF OneGeneration
<1>5. AllOver(b) => AllOver(b)'
  <2>1. 1..Count(b) \subseteq 1..MaxCount
    BY Counting
  <2>2. QED
    BY <2>1 DEF AllOver, AnswersStay, Count
<1>6. send[b].pc = "sent" => send'[b].pc = "sent"
  BY DEF SenderStep
<1>7. ASSUME NEW i \in 1..MaxCount, Started(b, i)'
      PROVE  send'[b].pc = "sent" \/ Current(b, i)' \/ AllOver(b)'
  <2>1. Started(b, i) /\ stream'[b][i].gen = stream[b][i].gen
    BY <1>3, <1>7
  <2>2. send[b].pc = "sent" \/ Current(b, i) \/ AllOver(b)
    BY <1>2, <2>1 DEF OneGeneration
  <2>3. \/ inbox'.open[b].gen = inbox.open[b].gen
        \/ send'[b].pc = "sent" \/ AllOver(b)'
    BY <1>1, <1>7
  <2>4. inbox'.open[b].gen = inbox.open[b].gen /\ Current(b, i) => Current(b, i)'
    BY <1>7, <2>1 DEF Current
  <2>5. QED
    BY <1>5, <1>6, <2>2, <2>3, <2>4
<1>8. QED
  BY <1>4, <1>7

-----------------------------------------------------------------------------
(***************************************************************************)
(* Inbox::receive, with where it puts the entry.                           *)
(***************************************************************************)
Refuses(b, i) ==
    /\ FileRefused(b, i)
    /\ stream'[b][i].path = stream[b][i].path
    /\ UNCHANGED disk

Lets(b, i) ==
    /\ FileStarts(b, i)
    /\ stream'[b][i].path = Reserve(Joined(b), disk, b, i).path
    /\ disk' = Reserve(Joined(b), disk, b, i).disk
    /\ inbox'.open[b].dirs = Reserve(Joined(b), disk, b, i).dirs
    /\ inbox'.open[b].roots = Reserve(Joined(b), disk, b, i).roots
    /\ b \notin Range(inbox.cancelled) /\ ~Unsafe(b, i)

(* What a batch is of but its count. *)
LEMMA EnteredIs ==
    ASSUME NEW x, IsBatch(x)
    PROVE  /\ \A indices, dirs, roots :
                 /\ Entered(x, indices, dirs, roots).dirs = dirs
                 /\ Entered(x, indices, dirs, roots).roots = roots
           /\ \A done : /\ WithDone(x, done).dirs = x.dirs
                        /\ WithDone(x, done).roots = x.roots
                        /\ WithDone(x, done).gen = x.gen
           /\ \A gen : OfGen(x, gen).dirs = x.dirs /\ OfGen(x, gen).roots = x.roots
<1>1. ASSUME NEW indices, NEW dirs, NEW roots
      PROVE  /\ Entered(x, indices, dirs, roots).dirs = dirs
             /\ Entered(x, indices, dirs, roots).roots = roots
  <2> DEFINE y == WithIndices(x, indices)
             z == WithDirs(y, dirs)
  <2>1. y = [gen |-> y.gen, done |-> y.done, indices |-> y.indices,
             dirs |-> y.dirs, roots |-> y.roots]
    BY DEF IsBatch, WithIndices
  <2> HIDE DEF y
  <2>2. /\ z = [gen |-> z.gen, done |-> z.done, indices |-> z.indices,
                dirs |-> z.dirs, roots |-> z.roots]
        /\ z.dirs = dirs
    BY <2>1 DEF WithDirs
  <2> HIDE DEF z
  <2>3. WithRoots(z, roots).dirs = dirs /\ WithRoots(z, roots).roots = roots
    BY <2>2 DEF WithRoots
  <2>4. QED
    BY <2>3 DEF Entered, y, z
<1>2. \A done : /\ WithDone(x, done).dirs = x.dirs
                /\ WithDone(x, done).roots = x.roots
                /\ WithDone(x, done).gen = x.gen
  BY DEF IsBatch, WithDone
<1>3. \A gen : OfGen(x, gen).dirs = x.dirs /\ OfGen(x, gen).roots = x.roots
  BY DEF IsBatch, OfGen
<1>4. QED
  BY <1>1, <1>2, <1>3

LEMMA FilePaths ==
    ASSUME StreamsTyped, InboxTyped, NEW b \in Batches, NEW i \in 1..MaxCount,
           Head(events).batch = b, Head(events).index = i, OnFile
    PROVE  \/ Moved(b, i, "gone", stream[b][i].ok) /\ UNCHANGED <<inbox, disk>>
           \/ Refuses(b, i)
           \/ Lets(b, i)
<1> DEFINE s == stream[b][i]
           x == Joined(b)
           made == Reserve(x, disk, b, i)
           joins == Entered(x, x.indices \cup {i}, made.dirs, made.roots)
           mid == BoxOpen(inbox, b, joins)
           gen == IF inbox.open[b] = NoBatch THEN inbox.gen + 1 ELSE inbox.gen
<1>1. IsEntry(s)
  BY DEF StreamsTyped
<1>2. \A g : stream' = [stream EXCEPT ![b][i] = g] => stream'[b][i] = g
  BY DEF StreamsTyped
<1>3. FileGone(b, i) \/ FileRefused(b, i) \/ FileStarts(b, i)
  BY FileSteps
<1>4. CASE ~known
  <2>1. stream' = [stream EXCEPT ![b][i] = At(s, "gone")] /\ UNCHANGED <<inbox, disk>>
    BY <1>4, Zenon DEF OnFile, At
  <2> HIDE DEF s
  <2>2. At(s, "gone").path = s.path
    BY <1>1, PathsStay
  <2>3. Is(At(s, "gone"), "gone", s.ok, s.gen)
    BY <1>1, EntrySteps
  <2>4. Becomes(b, i, "gone", s.ok, s.gen)
    BY <2>1, <2>3, OneEntry
  <2>5. stream'[b][i].path = s.path
    BY <1>2, <2>1, <2>2
  <2>6. QED
    BY <2>1, <2>4, <2>5 DEF Moved, s
<1>5. CASE known /\ Rejects(b, i)
  <2>1. stream' = [stream EXCEPT ![b][i] = Refuse(s, inbox.open[b].gen)] /\ UNCHANGED disk
    BY <1>5, Zenon DEF OnFile, At, WithGen, Refuse
  <2>2. stream'[b][i].path = s.path
    <3> HIDE DEF s
    <3> DEFINE t == At(s, "saved")
    <3>1. t.path = s.path /\ IsEntry(t)
      BY <1>1, PathsStay, EntrySteps DEF Is
    <3> HIDE DEF t
    <3>2. \A g : WithGen(t, g).path = t.path
      BY <3>1 DEF IsEntry, WithGen
    <3>3. Refuse(s, inbox.open[b].gen).path = s.path
      BY <3>1, <3>2 DEF Refuse, t
    <3>4. QED
      BY <1>2, <2>1, <3>3
  <2>3. FileRefused(b, i)
    <3>1. inbox' = BoxGen(inbox, inbox.gen + 1) \/ inbox' = inbox
      BY <1>5, Zenon DEF OnFile, BoxGen
    <3>2. IsBatch(inbox.open[b]) /\ inbox.gen + 1 \in Nat
      BY DEF InboxTyped, IsInbox
    <3>3. inbox.open[b].gen \in Nat
      BY <3>2 DEF IsBatch
    <3>4. Becomes(b, i, "saved", s.ok, inbox.open[b].gen)
      BY <1>1, <2>1, <3>3, EntrySaves, OneEntry
    <3> DEFINE new == BoxGen(inbox, inbox.gen + 1)
    <3>5. IsInbox(new) /\ new.open = inbox.open /\ new.gen = inbox.gen + 1
          /\ new.cancelled = inbox.cancelled
      BY <3>2, BoxSteps DEF InboxTyped
    <3> HIDE DEF new
    <3>6. /\ IsInbox(inbox') /\ inbox'.open = inbox.open /\ inbox'.cancelled = inbox.cancelled
          /\ inbox'.gen \in {inbox.gen, inbox.gen + 1}
      BY <3>1, <3>5 DEF InboxTyped, new
    <3>7. QED
      BY <3>4, <3>6 DEF FileRefused
  <2>4. QED
    BY <2>1, <2>2, <2>3 DEF Refuses
<1>6. CASE known /\ ~Rejects(b, i)
  <2>1. b \notin Range(inbox.cancelled) /\ ~Unsafe(b, i)
    BY <1>6 DEF Rejects
  <2>2. stream' = [stream EXCEPT ![b][i] = Starts(s, x.gen, made.path)] /\ disk' = made.disk
    BY <1>6, Zenon DEF OnFile, At, WithGen, WithPath, Starts, Joined, OfGen
  <2>3. inbox' = BoxGen(mid, gen)
    BY <1>6, Zenon DEF OnFile, BoxOpen, BoxGen, Entered, WithIndices, WithDirs, WithRoots,
                       Joined, OfGen
  <2>4. IsBatch(x) /\ x.gen \in Nat
    BY JoinedIs DEF IsBatch
  <2> HIDE DEF x, made
  <2>5. stream'[b][i].path = made.path
    <3>1. Starts(s, x.gen, made.path).path = made.path
      BY <1>1, PathsStay
    <3>2. QED
      BY <1>2, <2>2, <3>1
  <2>6. joins.dirs = made.dirs /\ joins.roots = made.roots /\ Counts(joins, x.gen, x.done)
    BY <2>4, EnteredIs, BatchSteps
  <2>7. Becomes(b, i, "saving", s.ok, x.gen)
    BY <1>1, <2>2, <2>4, EntrySaves, OneEntry
  <2> HIDE DEF joins
  <2>8. Opens(inbox, mid, b, joins) /\ mid.gen = inbox.gen /\ mid.cancelled = inbox.cancelled
    BY <2>6, BoxSteps DEF Counts, InboxTyped
  <2> HIDE DEF mid
  <2>9. gen \in Nat
    BY DEF InboxTyped, IsInbox
  <2> HIDE DEF gen
  <2>10. /\ IsInbox(inbox') /\ inbox'.open = mid.open /\ inbox'.cancelled = inbox.cancelled
         /\ inbox'.gen = gen
    BY <2>3, <2>8, <2>9, BoxSteps DEF Opens
  <2>11. Opens(inbox, inbox', b, joins) /\ inbox'.open[b] = joins
    BY <2>8, <2>10 DEF Opens
  <2>12. FileStarts(b, i)
    BY <2>1, <2>6, <2>7, <2>10, <2>11 DEF FileStarts, x, gen
  <2>13. QED
    BY <2>1, <2>2, <2>5, <2>6, <2>11, <2>12 DEF Lets, made, x
<1>7. QED
  BY <1>4, <1>5, <1>6

(* The batches that are open stay what they are, or close. *)
OpensStay ==
    \A c \in Batches :
        \/ inbox'.open[c] = NoBatch
        \/ /\ inbox'.open[c].gen = inbox.open[c].gen
           /\ inbox'.open[c].dirs = inbox.open[c].dirs
           /\ inbox'.open[c].roots = inbox.open[c].roots

LEMMA DoneOpens ==
    ASSUME InboxTyped, NEW b \in Batches, NEW i \in 1..MaxCount, OnDone(b, i)
    PROVE  OpensStay
<1> DEFINE batch == inbox.open[b]
           x == WithDone(batch, batch.done + 1)
<1>1. IsBatch(batch) /\ IsInbox(inbox) /\ batch.done + 1 \in Nat
  BY DEF InboxTyped, IsInbox, IsBatch
<1>2. \/ inbox' = BoxOpen(inbox, b, NoBatch)
      \/ inbox' = BoxOpen(inbox, b, x)
      \/ UNCHANGED inbox
      \/ inbox' = Cancel(inbox, b)
  BY Zenon DEF OnDone, BoxOpen, WithDone
<1>3. /\ x.gen = batch.gen /\ x.dirs = batch.dirs /\ x.roots = batch.roots
      /\ IsBatch(x) /\ IsBatch(NoBatch)
  <2>1. x.gen = batch.gen /\ x.dirs = batch.dirs /\ x.roots = batch.roots
    BY <1>1, EnteredIs
  <2>2. IsBatch(x)
    BY <1>1, BatchSteps DEF Counts
  <2>3. IsBatch(NoBatch)
    BY EmptyBatch DEF Counts
  <2>4. QED
    BY <2>1, <2>2, <2>3
<1> HIDE DEF x
<1>4. CASE inbox' = BoxOpen(inbox, b, NoBatch) \/ inbox' = Cancel(inbox, b)
  <2>1. Opens(inbox, inbox', b, NoBatch)
    BY <1>1, <1>3, <1>4, BoxSteps, CancelSteps
  <2>2. QED
    BY <2>1 DEF Opens, OpensStay
<1>5. CASE inbox' = BoxOpen(inbox, b, x)
  <2>1. Opens(inbox, inbox', b, x)
    BY <1>1, <1>3, <1>5, BoxSteps
  <2>2. QED
    BY <1>3, <2>1 DEF Opens, OpensStay
<1>6. CASE UNCHANGED inbox
  BY <1>6 DEF OpensStay
<1>7. QED
  BY <1>2, <1>4, <1>5, <1>6

(* Every step but Inbox::receive leaves what was answered, and starts no   *)
(* save.                                                                   *)
LEMMA StreamsStep ==
    ASSUME IInv, [Next]_vars, ~OnFile
    PROVE  AnswersStay /\ NoneStarts /\ NoneAnswered
<1>1. /\ StreamsTyped /\ SendTyped /\ Goods /\ Ahead
      /\ \A b \in Batches : send[b].index \in 1..MaxCount
  BY Counting DEF IInv, Shape, ReceiverKnows, SenderKnows
<1>2. CASE UNCHANGED stream
  BY <1>1, <1>2, MovedAnswers
<1>3. ASSUME NEW b \in Batches, OpenStream(b)
      PROVE  AnswersStay /\ NoneStarts /\ NoneAnswered
  <2> DEFINE i == send[b].index
  <2>1. Becomes(b, i, "header", FALSE, 0) /\ i \in 1..MaxCount
    BY <1>1, <1>3, SenderStreams
  <2>2. stream[b][i].pc = "none"
    BY <1>1, <1>3 DEF OpenStream, Ahead
  <2> HIDE DEF i
  <2>3. /\ stream'[b][i].pc = "header" /\ stream'[b][i].ok = FALSE
        /\ \A c \in Batches, j \in 1..MaxCount : c # b \/ j # i => stream'[c][j] = stream[c][j]
    BY <2>1 DEF Becomes
  <2>4. AnswersStay
    BY <2>2, <2>3 DEF AnswersStay, Answered
  <2>5. NoneStarts
    BY <2>3 DEF NoneStarts, Started
  <2>6. NoneAnswered
    BY <2>3 DEF NoneAnswered, Answered
  <2>7. QED
    BY <2>4, <2>5, <2>6
<1>4. ASSUME NEW b \in Batches, Finish(b) \/ SendFails(b) \/ HearAnswer(b)
      PROVE  AnswersStay /\ NoneStarts /\ NoneAnswered
  BY <1>1, <1>4, SenderPaths, MovedAnswers
<1>5. ASSUME NEW replaced, Break(replaced)
      PROVE  AnswersStay /\ NoneStarts /\ NoneAnswered
  BY <1>1, <1>5, BreakPaths, MovedAnswers
<1>6. ASSUME NEW b \in Batches, NEW i \in 1..MaxCount, HeaderRead(b, i)
      PROVE  AnswersStay /\ NoneStarts /\ NoneAnswered
  <2>1. stream[b][i].pc = "header"
    BY <1>6 DEF HeaderRead
  <2>2. \E pc \in {"posted", "gone"} : Moved(b, i, pc, stream[b][i].ok)
    BY <1>1, <1>6, TaskPaths
  <2>3. "header" \notin Answered /\ "posted" \notin Answered /\ "gone" \notin Answered
    BY DEF Answered
  <2>4. QED
    BY <1>1, <2>1, <2>2, <2>3, MovedAnswers
<1>7. ASSUME NEW b \in Batches, NEW i \in 1..MaxCount, Saved(b, i) \/ SaveFails(b, i)
      PROVE  AnswersStay /\ NoneStarts /\ NoneAnswered
  <2>1. stream[b][i].pc = "saving"
    BY <1>7 DEF Saved, SaveFails
  <2>2. \E ok : Moved(b, i, "saved", ok)
    BY <1>1, <1>7, TaskPaths
  <2>3. QED
    BY <1>1, <2>1, <2>2, MovedAnswers
<1>8. ASSUME NEW b \in Batches, NEW i \in 1..MaxCount, OnDone(b, i)
      PROVE  AnswersStay /\ NoneStarts /\ NoneAnswered
  <2>1. stream[b][i].pc = "saved"
    BY <1>8 DEF OnDone
  <2>2. Moved(b, i, "over", stream[b][i].ok)
    BY <1>1, <1>8, TaskPaths
  <2>3. QED
    BY <1>1, <2>1, <2>2, MovedAnswers
<1>9. ASSUME NEW b \in Batches, ScanFails(b)
      PROVE  UNCHANGED stream
  BY <1>9 DEF ScanFails
<1>10. CancelRead \/ Reconnect \/ OnCancel \/ OnLost \/ OnConnected \/ UNCHANGED vars =>
         UNCHANGED stream
  BY DEF CancelRead, Reconnect, OnCancel, OnLost, OnConnected, vars
<1>11. QED
  BY <1>2, <1>3, <1>4, <1>5, <1>6, <1>7, <1>8, <1>9, <1>10, Zenon
  DEF Next, Sender, Streams, RunLoop, Connection

(* The entry of a header in the queue is the one its sender is at.         *)
LEMMA PostedSender ==
    ASSUME IInv, NEW b \in Batches, NEW i \in 1..MaxCount, stream[b][i].pc = "posted"
    PROVE  /\ i \in 1..Count(b) /\ stream[b][i].ok = FALSE
           /\ send[b].pc \in Going \cup {"failed"}
<1>1. Shape /\ SenderKnows /\ ReceiverKnows
  BY DEF IInv
<1>2. stream[b][i].ok = FALSE
  BY <1>1 DEF Shape, StreamsTyped, IsEntry, ReceiverKnows, Goods
<1>3. send[b].index \in 1..Count(b) /\ Count(b) \in Nat
  BY <1>1, Counting DEF Shape
<1>4. ~(i > send[b].index) /\ ~(i < send[b].index)
  BY <1>1, <1>2 DEF SenderKnows, Ahead, Before, IsSaved
<1>5. i = send[b].index
  BY <1>3, <1>4
<1>6. send[b].pc \notin {"new", "next", "sent"}
  BY <1>1, <1>2, <1>5 DEF SenderKnows, Ahead, Before, IsSaved
<1>7. send[b].pc \in {"new", "sending", "waiting", "next", "sent", "failed"}
  BY <1>1 DEF Shape, SendTyped
<1>8. QED
  BY <1>2, <1>3, <1>5, <1>6, <1>7 DEF Going

(* The header at the head of the queue, and the entry it is of. *)
LEMMA HeaderAtHead ==
    ASSUME IInv, OnFile
    PROVE  \E b \in Batches, i \in 1..MaxCount :
              /\ Head(events).batch = b /\ Head(events).index = i
              /\ stream[b][i].pc = "posted" /\ stream[b][i].ok = FALSE
              /\ i \in 1..Count(b)
              /\ send[b].pc \in Going \cup {"failed"}
              /\ \/ Moved(b, i, "gone", FALSE) /\ UNCHANGED <<inbox, disk>>
                 \/ Refuses(b, i) \/ Lets(b, i)
<1> DEFINE b == Head(events).batch
           i == Head(events).index
<1>1. Shape /\ SenderKnows /\ Posted /\ ReceiverKnows
  BY DEF IInv
<1>2. events # <<>> /\ Head(events).type = "file"
  BY DEF OnFile, Next1
<1>3. b \in Batches /\ i \in 1..MaxCount /\ Head(events) = events[1] /\ 1 \in DOMAIN events
  <2>1. Head(events) \in Events /\ Head(events) = events[1] /\ 1 \in DOMAIN events
    BY <1>1, <1>2, HeadTailProperties DEF Shape, QueuesTyped
  <2>2. QED
    BY <1>2, <2>1 DEF Events
<1>4. stream[b][i].pc = "posted"
  BY <1>1, <1>2, <1>3 DEF Posted
<1>5. Head(events).batch = b /\ Head(events).index = i
  OBVIOUS
<1> HIDE DEF b, i
<1>6. /\ i \in 1..Count(b) /\ stream[b][i].ok = FALSE
      /\ send[b].pc \in Going \cup {"failed"}
  BY <1>3, <1>4, PostedSender
<1>7. \/ Moved(b, i, "gone", stream[b][i].ok) /\ UNCHANGED <<inbox, disk>>
      \/ Refuses(b, i) \/ Lets(b, i)
  BY <1>1, <1>3, <1>5, FilePaths DEF Shape
<1>8. QED
  BY <1>3, <1>4, <1>5, <1>6, <1>7

(* The queues, as sets. *)
LEMMA QueueRanges ==
    ASSUME NEW S, NEW s \in Seq(S)
    PROVE  /\ \A e \in S : Range(Append(s, e)) = Range(s) \cup {e}
           /\ s # <<>> => Range(Tail(s)) \subseteq Range(s) /\ Head(s) \in Range(s)
           /\ Range(<<>>) = {}
<1>1. DOMAIN s = 1..Len(s) /\ Len(s) \in Nat
  BY LenProperties
<1>2. ASSUME NEW e \in S
      PROVE  Range(Append(s, e)) = Range(s) \cup {e}
  <2> DEFINE t == Append(s, e)
  <2>1. /\ t \in Seq(S) /\ Len(t) = Len(s) + 1
        /\ \A k \in 1..Len(s) : t[k] = s[k]
        /\ t[Len(s) + 1] = e
    BY AppendProperties
  <2> HIDE DEF t
  <2>2. DOMAIN t = 1..(Len(s) + 1)
    BY <2>1, LenProperties
  <2>3. \A k \in 1..(Len(s) + 1) : k = Len(s) + 1 \/ k \in 1..Len(s)
    BY <1>1
  <2>4. Len(s) + 1 \in 1..(Len(s) + 1) /\ 1..Len(s) \subseteq 1..(Len(s) + 1)
    BY <1>1
  <2>5. Range(t) = Range(s) \cup {e}
    BY <1>1, <2>1, <2>2, <2>3, <2>4 DEF Range
  <2>6. QED
    BY <2>5 DEF t
<1>3. ASSUME s # <<>>
      PROVE  Range(Tail(s)) \subseteq Range(s) /\ Head(s) \in Range(s)
  <2> DEFINE t == Tail(s)
  <2>1. /\ t \in Seq(S) /\ Len(t) = Len(s) - 1 /\ Head(s) = s[1] /\ 1 \in DOMAIN s
        /\ \A k \in 1..Len(t) : t[k] = s[k + 1]
    BY <1>3, HeadTailProperties
  <2> HIDE DEF t
  <2>2. DOMAIN t = 1..Len(t)
    BY <2>1, LenProperties
  <2>3. \A k \in 1..Len(t) : k + 1 \in 1..Len(s)
    BY <1>1, <2>1
  <2>4. Range(t) \subseteq Range(s) /\ Head(s) \in Range(s)
    BY <1>1, <2>1, <2>2, <2>3 DEF Range
  <2>5. QED
    BY <2>4 DEF t
<1>4. Range(<<>>) = {}
  BY EmptySeq DEF Range
<1>5. QED
  BY <1>2, <1>3, <1>4

(* What is called off has failed (PendingBatch::drop). *)
LEMMA CalledStep ==
    ASSUME IInv, CalledOff, SenderStep, [Next]_vars
    PROVE  CalledOff'
<1>1. /\ control \in Seq(Batches) /\ events \in Seq(Events) /\ SendTyped
  BY DEF IInv, Shape, QueuesTyped
<1>2. CASE UNCHANGED <<control, events>>
  BY <1>2, CalledKeeps
<1>3. /\ \A b \in Batches : Range(Append(control, b)) = Range(control) \cup {b}
      /\ \A e \in Events : Range(Append(events, e)) = Range(events) \cup {e}
      /\ control # <<>> => Range(Tail(control)) \subseteq Range(control)
                           /\ Head(control) \in Range(control)
      /\ events # <<>> => Range(Tail(events)) \subseteq Range(events)
      /\ Range(<<>>) = {}
  BY <1>1, QueueRanges
<1>4. /\ \A b \in Batches : FileCancel(b) \in Events /\ FileCancel(b).type = "cancel"
                            /\ FileCancel(b).batch = b
      /\ \A b \in Batches, i \in 1..MaxCount :
            FileHeader(b, i) \in Events /\ FileHeader(b, i).type = "file"
      /\ [type |-> "lost"] \in Events /\ [type |-> "connected"] \in Events
      /\ [type |-> "lost"].type = "lost" /\ [type |-> "connected"].type = "connected"
  BY DEF FileCancel, FileHeader, Events
<1>5. ASSUME NEW e \in Events, events' = Append(events, e), e.type # "cancel",
             UNCHANGED control \/ control' = <<>>
      PROVE  CalledOff'
  <2>1. \A b \in Batches : b \in Range(control)' => b \in Range(control) \/ send'[b].pc = "failed"
    BY <1>3, <1>5
  <2>2. \A b \in Batches : FileCancel(b) \in Range(events)' =>
          FileCancel(b) \in Range(events) \/ b \in Range(control)
    BY <1>3, <1>4, <1>5
  <2>3. QED
    BY <2>1, <2>2, CalledKeeps
<1>6. ASSUME NEW b \in Batches, ScanFails(b) \/ OpenStream(b) \/ Finish(b)
      PROVE  UNCHANGED <<control, events>>
  BY <1>6 DEF ScanFails, OpenStream, Finish
<1>7. ASSUME NEW b \in Batches, SendFails(b) \/ HearAnswer(b)
      PROVE  CalledOff'
  <2>1. /\ \/ UNCHANGED control
           \/ send' = [send EXCEPT ![b].pc = "failed"] /\ control' = Append(control, b)
        /\ UNCHANGED events
    BY <1>7, Zenon DEF SendFails, HearAnswer, GiveUp
  <2>2. send' = [send EXCEPT ![b].pc = "failed"] => send'[b].pc = "failed"
    <3>1. send \in [Batches -> [pc : Pcs, index : Nat]]
      BY <1>1 DEF SendTyped, Pcs
    <3>2. QED
      BY <3>1
  <2>3. \A c \in Batches : c \in Range(control)' => c \in Range(control) \/ send'[c].pc = "failed"
    <3>1. UNCHANGED control \/ (Range(control)' = Range(control) \cup {b} /\ send'[b].pc = "failed")
      BY <1>3, <2>1, <2>2
    <3>2. QED
      BY <3>1
  <2>4. QED
    BY <2>1, <2>3, CalledKeeps
<1>8. ASSUME NEW b \in Batches, NEW i \in 1..MaxCount, HeaderRead(b, i)
      PROVE  CalledOff'
  <2>1. UNCHANGED control /\ (UNCHANGED events \/ events' = Append(events, FileHeader(b, i)))
    BY <1>8 DEF HeaderRead
  <2>2. FileHeader(b, i) \in Events /\ FileHeader(b, i).type # "cancel"
    BY <1>4
  <2>3. QED
    BY <1>2, <1>5, <2>1, <2>2
<1>9. ASSUME NEW b \in Batches, NEW i \in 1..MaxCount,
             Saved(b, i) \/ SaveFails(b, i) \/ OnDone(b, i)
      PROVE  UNCHANGED <<control, events>>
  BY <1>9 DEF Saved, SaveFails, OnDone
<1>10. CASE CancelRead
  <2>1. /\ control # <<>> /\ control' = Tail(control)
        /\ events' = Append(events, FileCancel(Head(control)))
    BY <1>10 DEF CancelRead
  <2>2. Head(control) \in Batches
    BY <1>1, <2>1, HeadTailProperties
  <2>3. \A b \in Batches : b \in Range(control)' => b \in Range(control) \/ send'[b].pc = "failed"
    BY <1>3, <2>1
  <2>4. \A b \in Batches : FileCancel(b) \in Range(events)' =>
          FileCancel(b) \in Range(events) \/ b \in Range(control)
    BY <1>3, <1>4, <2>1, <2>2
  <2>5. QED
    BY <2>3, <2>4, CalledKeeps
<1>11. CASE Reconnect
  <2>1. UNCHANGED control /\ events' = Append(events, [type |-> "connected"])
    BY <1>11 DEF Reconnect
  <2>2. QED
    BY <1>4, <1>5, <2>1
<1>12. ASSUME NEW replaced \in BOOLEAN, Break(replaced)
       PROVE  CalledOff'
  <2>1. /\ control' = <<>>
        /\ UNCHANGED events \/ events' = Append(events, [type |-> "lost"])
    BY <1>12 DEF Break
  <2>2. CASE UNCHANGED events
    BY <1>3, <2>1, <2>2, CalledKeeps
  <2>3. QED
    BY <1>4, <1>5, <2>1, <2>2
<1>13. CASE OnFile \/ OnCancel \/ OnLost \/ OnConnected
  <2>1. UNCHANGED control /\ events # <<>> /\ events' = Tail(events)
    BY <1>13 DEF OnFile, OnCancel, OnLost, OnConnected, Next1
  <2>2. QED
    BY <1>3, <2>1, CalledKeeps
<1>14. CASE UNCHANGED vars
  BY <1>2, <1>14 DEF vars
<1>15. QED
  BY <1>2, <1>6, <1>7, <1>8, <1>9, <1>10, <1>11, <1>12, <1>13, <1>14, Zenon
  DEF Next, Sender, Streams, RunLoop, Connection

(* Inbox::receive leaves what was answered. *)
LEMMA FileAnswers ==
    ASSUME Goods, NEW b \in Batches, NEW i \in 1..MaxCount,
           stream[b][i].pc = "posted", stream[b][i].ok = FALSE
    PROVE  /\ Moved(b, i, "gone", FALSE) => AnswersStay /\ NoneStarts /\ NoneAnswered
           /\ Refuses(b, i) =>
                 /\ AnswersStay /\ NoneStarts
                 /\ stream'[b][i].pc = "saved" /\ stream'[b][i].ok = FALSE
           /\ Lets(b, i) =>
                 /\ AnswersStay
                 /\ stream'[b][i].pc = "saving" /\ stream'[b][i].ok = FALSE
                 /\ stream'[b][i].gen = Joined(b).gen
           /\ Moved(b, i, "gone", FALSE) \/ Refuses(b, i) \/ Lets(b, i) =>
                 \A c \in Batches, j \in 1..MaxCount :
                     c # b \/ j # i => stream'[c][j] = stream[c][j]
<1>1. Moved(b, i, "gone", FALSE) => AnswersStay /\ NoneStarts /\ NoneAnswered
  <2>1. "posted" \notin Answered /\ "gone" \notin Answered
    BY DEF Answered
  <2>2. QED
    BY <2>1, MovedAnswers
<1>2. Moved(b, i, "gone", FALSE) \/ Refuses(b, i) \/ Lets(b, i) =>
        \A c \in Batches, j \in 1..MaxCount : c # b \/ j # i => stream'[c][j] = stream[c][j]
  BY DEF Moved, Refuses, Lets, FileRefused, FileStarts, Becomes
<1>3. Refuses(b, i) => stream'[b][i].pc = "saved" /\ stream'[b][i].ok = FALSE
  BY DEF Refuses, FileRefused, Becomes
<1>4. Lets(b, i) => /\ stream'[b][i].pc = "saving" /\ stream'[b][i].ok = FALSE
                    /\ stream'[b][i].gen = Joined(b).gen
  BY DEF Lets, FileStarts, Becomes
<1>5. Refuses(b, i) \/ Lets(b, i) => AnswersStay
  BY <1>2 DEF AnswersStay, Answered
<1>6. Refuses(b, i) => NoneStarts
  BY <1>2, <1>3 DEF NoneStarts, Started
<1>7. QED
  BY <1>1, <1>2, <1>3, <1>4, <1>5, <1>6

(* A loss comes behind the headers of the connection that is lost. *)
LEMMA LostStep ==
    ASSUME IInv, Together, SenderStep, [Next]_vars
    PROVE  LostBehind'
<1>1. /\ QueuesTyped /\ Ahead /\ Goods /\ Posted /\ SendTyped
      /\ NewAtFirst /\ LostBehind
  BY DEF IInv, Shape, SenderKnows, ReceiverKnows, Together
<1>2. DOMAIN events = 1..Len(events) /\ Len(events) \in Nat /\ events \in Seq(Events)
  BY <1>1, LenProperties DEF QueuesTyped
<1>3. \A k \in DOMAIN events : events[k].type = "file" =>
        events[k].batch \in Batches /\ events[k].index \in 1..MaxCount
  BY <1>2, ElementOfSeq DEF Events
<1>4. ASSUME NoneAnswered, LostAsBefore
      PROVE  LostBehind'
  BY <1>1, <1>4, LostKeeps DEF NoneAnswered
<1>5. /\ \A b \in Batches : FileCancel(b) \in Events /\ FileCancel(b).type # "lost"
      /\ \A b \in Batches, i \in 1..MaxCount :
            FileHeader(b, i) \in Events /\ FileHeader(b, i).type # "lost"
      /\ [type |-> "connected"] \in Events /\ [type |-> "connected"].type # "lost"
      /\ [type |-> "lost"] \in Events
  BY DEF FileCancel, FileHeader, Events
<1>6. CASE OnFile
  <2>1. PICK b \in Batches, i \in 1..MaxCount :
          /\ Head(events).batch = b /\ Head(events).index = i
          /\ stream[b][i].pc = "posted" /\ stream[b][i].ok = FALSE
          /\ \/ Moved(b, i, "gone", FALSE) /\ UNCHANGED <<inbox, disk>>
             \/ Refuses(b, i) \/ Lets(b, i)
    BY <1>6, HeaderAtHead
  <2>2. \A c \in Batches, j \in 1..MaxCount : c # b \/ j # i => stream'[c][j] = stream[c][j]
    BY <2>1 DEF Moved, Refuses, Lets, FileRefused, FileStarts, Becomes
  <2>3. /\ events # <<>> /\ events' = Tail(events) /\ Head(events).type = "file"
    BY <1>6 DEF OnFile, Next1
  <2>4. ASSUME NEW k \in DOMAIN events', events'[k].type = "lost"
        PROVE  send[b].pc = "failed"
    <3>1. /\ Len(events') = Len(events) - 1 /\ events' \in Seq(Events)
          /\ \A l \in 1..Len(events') : events'[l] = events[l + 1]
          /\ Head(events) = events[1]
      BY <1>2, <2>3, HeadTailProperties
    <3>2. k \in 1..Len(events')
      BY <2>4, <3>1, LenProperties
    <3>3. k + 1 \in DOMAIN events /\ events[k + 1].type = "lost" /\ 1 \in 1..((k + 1) - 1)
      BY <1>2, <2>4, <3>1, <3>2
    <3>4. send[events[1].batch].pc = "failed"
      BY <1>1, <2>3, <3>1, <3>3 DEF LostBehind
    <3>5. QED
      BY <2>1, <3>1, <3>4
  <2>5. LostAsBefore
    BY <1>1, <2>3, LostQueue
  <2>6. \A k \in DOMAIN events' : events'[k].type = "lost" =>
          \A c \in Batches, j \in 1..MaxCount : stream'[c][j].pc \in Answered =>
              stream[c][j].pc \in Answered \/ send[c].pc = "failed"
    BY <2>2, <2>4
  <2>7. QED
    BY <1>1, <2>5, <2>6, LostKeeps
<1>7. ASSUME NEW replaced \in BOOLEAN, Break(replaced)
      PROVE  LostBehind'
  <2>1. /\ UNCHANGED events \/ events' = Append(events, [type |-> "lost"])
        /\ send' = [b \in Batches |-> IF send[b].pc \in {"sending", "waiting", "next"}
                                      THEN SendAt(send[b], "failed") ELSE send[b]]
    BY <1>7, Zenon DEF Break, SendAt
  <2>2. \A b \in Batches : SendAt(send[b], "failed").pc = "failed"
    BY <1>1 DEF SendTyped, SendAt
  <2>3. \A b \in Batches : /\ send'[b].pc \notin Going
                           /\ send[b].pc \in Going \cup {"failed"} => send'[b].pc = "failed"
    BY <2>1, <2>2 DEF Going
  <2>4. \A l \in DOMAIN events : events[l].type = "file" => send'[events[l].batch].pc = "failed"
    BY <1>1, <1>3, <2>3, PostedSender DEF Posted
  <2>5. ASSUME NEW l \in DOMAIN events', events'[l].type = "file"
        PROVE  l \in DOMAIN events /\ events'[l] = events[l]
    <3>1. CASE UNCHANGED events
      BY <2>5, <3>1
    <3>2. CASE events' = Append(events, [type |-> "lost"])
      <4>1. /\ events' \in Seq(Events) /\ Len(events') = Len(events) + 1
            /\ \A m \in 1..Len(events) : events'[m] = events[m]
            /\ events'[Len(events) + 1] = [type |-> "lost"]
        BY <1>2, <1>5, <3>2, AppendProperties
      <4>2. l \in 1..(Len(events) + 1)
        BY <4>1, LenProperties
      <4>3. l # Len(events) + 1
        BY <2>5, <4>1
      <4>4. QED
        BY <1>2, <4>1, <4>2, <4>3
    <3>3. QED
      BY <2>1, <3>1, <3>2
  <2>6. \A k \in DOMAIN events' : \A l \in 1..(k - 1) : l \in DOMAIN events'
    <3>1. events' \in Seq(Events)
      BY <1>2, <1>5, <2>1, AppendProperties
    <3>2. DOMAIN events' = 1..Len(events') /\ Len(events') \in Nat
      BY <3>1, LenProperties
    <3>3. QED
      BY <3>2
  <2>7. QED
    BY <2>3, <2>4, <2>5, <2>6 DEF LostBehind
<1>8. ASSUME ~OnFile, \A replaced \in BOOLEAN : ~Break(replaced)
      PROVE  LostBehind'
  <2>1. NoneAnswered
    BY <1>8, StreamsStep
  <2>2. LostAsBefore
    <3>1. UNCHANGED events => LostAsBefore
      BY <1>1, LostQueue
    <3>2. ASSUME NEW b \in Batches,
                 ScanFails(b) \/ OpenStream(b) \/ Finish(b) \/ SendFails(b) \/ HearAnswer(b)
          PROVE  UNCHANGED events
      BY <3>2 DEF ScanFails, OpenStream, Finish, SendFails, HearAnswer
    <3>3. ASSUME NEW b \in Batches, NEW i \in 1..MaxCount, HeaderRead(b, i)
          PROVE  LostAsBefore
      <4>1. UNCHANGED events \/ events' = Append(events, FileHeader(b, i))
        BY <3>3 DEF HeaderRead
      <4>2. QED
        BY <1>1, <1>5, <4>1, LostQueue
    <3>4. ASSUME NEW b \in Batches, NEW i \in 1..MaxCount,
                 Saved(b, i) \/ SaveFails(b, i) \/ OnDone(b, i)
          PROVE  UNCHANGED events
      BY <3>4 DEF Saved, SaveFails, OnDone
    <3>5. CASE CancelRead
      <4>1. control # <<>> /\ events' = Append(events, FileCancel(Head(control)))
        BY <3>5 DEF CancelRead
      <4>2. Head(control) \in Batches
        BY <1>1, <4>1, HeadTailProperties DEF QueuesTyped
      <4>3. QED
        BY <1>1, <1>5, <4>1, <4>2, LostQueue
    <3>6. CASE Reconnect
      <4>1. events' = Append(events, [type |-> "connected"])
        BY <3>6 DEF Reconnect
      <4>2. QED
        BY <1>1, <1>5, <4>1, LostQueue
    <3>7. CASE OnCancel \/ OnLost \/ OnConnected
      <4>1. events # <<>> /\ events' = Tail(events)
        BY <3>7 DEF OnCancel, OnLost, OnConnected, Next1
      <4>2. QED
        BY <1>1, <4>1, LostQueue
    <3>8. UNCHANGED vars => UNCHANGED events
      BY DEF vars
    <3>9. QED
      BY <1>8, <3>1, <3>2, <3>3, <3>4, <3>5, <3>6, <3>7, <3>8, Zenon
      DEF Next, Sender, Streams, RunLoop, Connection
  <2>3. QED
    BY <1>4, <2>1, <2>2
<1>9. QED
  BY <1>6, <1>7, <1>8, Zenon

(* A step that opens no batch and starts no save, but for one batch that    *)
(* is called off, or all over.                                             *)
LEMMA GenerationStays ==
    ASSUME IInv, Together, SenderStep, UNCHANGED items, AnswersStay, NoneStarts, NEW b,
           \A c \in Batches : c # b => inbox'.open[c] = inbox.open[c],
           b \in Batches => \/ ~Good(b)' \/ AllOver(b)'
                            \/ inbox'.open[b].gen = inbox.open[b].gen
    PROVE  OneGeneration'
<1>1. OneGeneration /\ Goods /\ SendTyped
  BY DEF IInv, Shape, ReceiverKnows, Together
<1>2. \A c \in Batches : Good(c)' =>
               \/ inbox'.open[c].gen = inbox.open[c].gen
               \/ send'[c].pc = "sent" \/ AllOver(c)'
               \/ \A i \in 1..MaxCount : ~Started(c, i)'
  <2>1. ASSUME NEW c \in Batches, Good(c)'
        PROVE  inbox'.open[c].gen = inbox.open[c].gen \/ AllOver(c)'
    <3>1. CASE c = b
      BY <2>1, <3>1
    <3>2. CASE c # b
      BY <3>2
    <3>3. QED
      BY <3>1, <3>2
  <2>2. QED
    BY <2>1
<1>3. QED
  BY <1>1, <1>2, GenerationKeeps

(* A loss is heard when nothing is saved of what is being sent. *)
LEMMA LostGeneration ==
    ASSUME IInv, Together, OnLost
    PROVE  \A b \in Batches : Good(b)' =>
               send'[b].pc = "sent" \/ \A i \in 1..MaxCount : ~Started(b, i)'
<1>1. /\ QueuesTyped /\ SendTyped /\ Ahead /\ Goods /\ NewAtFirst /\ LostBehind
  BY DEF IInv, Shape, SenderKnows, ReceiverKnows, Together
<1>2. events # <<>> /\ Head(events).type = "lost" /\ UNCHANGED <<send, stream>>
  BY DEF OnLost, Next1
<1>3. 1 \in DOMAIN events /\ events[1].type = "lost"
  BY <1>1, <1>2, HeadTailProperties DEF QueuesTyped
<1>4. SUFFICES ASSUME NEW b \in Batches, send[b].pc \notin {"failed", "sent"}, NEW i \in 1..MaxCount
               PROVE  stream[b][i].pc \notin Answered
  <2>1. \A b \in Batches, i \in 1..MaxCount : Started(b, i)' =>
          stream[b][i].pc \in Answered
    BY <1>1, <1>2 DEF Started, Goods, Answered
  <2>2. \A b \in Batches : Good(b)' => send[b].pc # "failed"
    BY <1>2 DEF Good
  <2>3. QED
    BY <1>2, <1>4, <2>1, <2>2
<1>5. CASE send[b].pc \in Going
  BY <1>1, <1>3, <1>5 DEF LostBehind
<1>6. CASE send[b].pc = "new"
  <2>1. send[b].index = 1
    BY <1>1, <1>6 DEF NewAtFirst
  <2>2. i > 1 \/ i = 1
    BY SizesAssumption
  <2>3. stream[b][i].pc = "none"
    BY <1>1, <1>6, <2>1, <2>2 DEF Ahead
  <2>4. QED
    BY <2>3 DEF Answered
<1>7. send[b].pc \in {"new", "sending", "waiting", "next", "sent", "failed"}
  BY <1>1 DEF SendTyped
<1>8. QED
  BY <1>4, <1>5, <1>6, <1>7 DEF Going

(* A save ends: its batch is complete, has one more, or is called off. *)
LEMMA DoneGeneration ==
    ASSUME IInv, Together, SenderStep, UNCHANGED items,
           NEW b \in Batches, NEW i \in 1..MaxCount, OnDone(b, i)
    PROVE  OneGeneration'
<1>1. Shape /\ SenderKnows /\ Counted /\ Goods /\ StreamsTyped /\ InboxTyped
  BY DEF IInv, ReceiverKnows, Shape
<1>2. stream[b][i].pc = "saved"
  BY DEF OnDone
<1>3. Moved(b, i, "over", stream[b][i].ok)
  BY <1>1, TaskPaths
<1>4. AnswersStay /\ NoneStarts
  BY <1>1, <1>2, <1>3, MovedAnswers
<1>5. /\ stream'[b][i].pc = "over" /\ stream'[b][i].ok = stream[b][i].ok
      /\ \A c \in Batches, j \in 1..MaxCount : c # b \/ j # i => stream'[c][j] = stream[c][j]
  BY <1>3 DEF Moved, Becomes
<1>6. CASE Completes(b, i)
  <2>1. AllOver(b)'
    <3>1. Done(b) \cup {i} = 1..Count(b)
      BY <1>1, <1>2, <1>6, OneMore DEF Completes
    <3>2. 1..Count(b) \subseteq 1..MaxCount
      BY <1>1, Counting DEF Shape
    <3>3. \A j \in 1..Count(b) : stream'[b][j].pc = "over" /\ stream'[b][j].ok
      BY <1>5, <1>6, <3>1, <3>2 DEF Done, Completes
    <3>4. QED
      BY <3>3 DEF AllOver, Count
  <2>2. \A c \in Batches : c # b => inbox'.open[c] = inbox.open[c]
    BY <1>6 DEF Completes, Opens
  <2>3. QED
    BY <1>4, <2>1, <2>2, GenerationStays
<1>7. CASE CountsOne(b, i)
  <2>1. /\ inbox'.open[b].gen = inbox.open[b].gen
        /\ \A c \in Batches : c # b => inbox'.open[c] = inbox.open[c]
    BY <1>7 DEF CountsOne, Counts, Opens
  <2>2. QED
    BY <1>4, <2>1, GenerationStays
<1>8. CASE ForAnother(b, i)
  <2>1. UNCHANGED inbox
    BY <1>8 DEF ForAnother
  <2>2. QED
    BY <1>4, <2>1, GenerationStays
<1>9. CASE ~stream[b][i].ok /\ Closes(b)
  <2>1. ~Good(b)'
    BY <1>5, <1>9 DEF Good
  <2>2. \A c \in Batches : c # b => inbox'.open[c] = inbox.open[c]
    BY <1>9 DEF Closes, Opens
  <2>3. QED
    BY <1>4, <2>1, <2>2, GenerationStays
<1>10. QED
  BY <1>1, <1>6, <1>7, <1>8, <1>9, DoneSteps

(* Inbox::receive lets an entry in: what is being saved of its batch is     *)
(* being saved for the batch that is open.                                 *)
LEMMA LetsGeneration ==
    ASSUME IInv, Together, SenderStep, UNCHANGED items,
           NEW b \in Batches, NEW i \in 1..Count(b), i \in 1..MaxCount,
           stream[b][i].pc = "posted", stream[b][i].ok = FALSE,
           send[b].pc \in Going \cup {"failed"}, Lets(b, i)
    PROVE  OneGeneration'
<1>1. Goods /\ InboxTyped /\ OneGeneration /\ SendTyped
  BY DEF IInv, Shape, ReceiverKnows, Together
<1>2. /\ AnswersStay
      /\ stream'[b][i].pc = "saving" /\ stream'[b][i].gen = Joined(b).gen
      /\ \A c \in Batches, j \in 1..MaxCount : c # b \/ j # i => stream'[c][j] = stream[c][j]
  BY <1>1, FileAnswers
<1>3. /\ inbox'.open[b].gen = Joined(b).gen
      /\ \A c \in Batches : c # b => inbox'.open[c] = inbox.open[c]
  BY DEF Lets, FileStarts, Opens, Counts
<1>4. SUFFICES ASSUME NEW c \in Batches, Good(c)'
               PROVE  /\ \A j, k \in 1..MaxCount : Started(c, j)' /\ Started(c, k)' =>
                            stream'[c][j].gen = stream'[c][k].gen
                      /\ \A j \in 1..MaxCount : Started(c, j)' =>
                            send'[c].pc = "sent" \/ Current(c, j)' \/ AllOver(c)'
  BY DEF OneGeneration
<1>5. Good(c)
  <2>1. send[c].pc # "failed"
    BY <1>4 DEF SenderStep, Good
  <2>2. \A j \in 1..MaxCount : stream[c][j].pc \in {"saved", "over"} => stream[c][j].ok
    BY <1>2, <1>4 DEF Good, AnswersStay
  <2>3. QED
    BY <2>1, <2>2 DEF Good
<1>6. CASE c # b
  <2>1. /\ \A j \in 1..MaxCount : stream'[c][j] = stream[c][j]
        /\ inbox'.open[c] = inbox.open[c]
    BY <1>2, <1>3, <1>6
  <2>2. /\ \A j \in 1..MaxCount : (Started(c, j)' <=> Started(c, j)) /\ (Current(c, j) => Current(c, j)')
        /\ send[c].pc = "sent" => send'[c].pc = "sent"
    BY <2>1 DEF Started, Current, SenderStep
  <2>3. 1..Count(c) \subseteq 1..MaxCount
    BY <1>1, Counting
  <2>4. AllOver(c) => AllOver(c)'
    BY <2>1, <2>3 DEF AllOver, Count
  <2>5. QED
    BY <1>1, <1>5, <2>1, <2>2, <2>4 DEF OneGeneration
<1>7. CASE c = b
  <2>1. send[b].pc # "sent" /\ ~AllOver(b)
    BY DEF Going, AllOver
  <2>2. ASSUME NEW j \in 1..MaxCount, Started(b, j)
        PROVE  stream[b][j].gen = Joined(b).gen
    <3>1. Current(b, j)
      BY <1>1, <1>5, <1>7, <2>1, <2>2 DEF OneGeneration
    <3>2. inbox.open[b].gen > 0
      BY <1>1, <2>2, <3>1 DEF Goods, Started, Current
    <3>3. inbox.open[b] # NoBatch
      <4>1. NoBatch.gen = 0
        BY DEF NoBatch
      <4>2. QED
        BY <3>2, <4>1
    <3>4. QED
      BY <1>1, <3>1, <3>3, JoinedIs DEF Current
  <2>3. ASSUME NEW j \in 1..MaxCount, Started(b, j)'
        PROVE  stream'[b][j].gen = Joined(b).gen
    <3>1. CASE j = i
      BY <1>2, <3>1
    <3>2. CASE j # i
      <4>1. stream'[b][j] = stream[b][j]
        BY <1>2, <3>2
      <4>2. QED
        BY <2>2, <2>3, <4>1 DEF Started
    <3>3. QED
      BY <3>1, <3>2
  <2>4. \A j \in 1..MaxCount : Started(b, j)' => Current(b, j)'
    BY <1>3, <2>3 DEF Current
  <2>5. QED
    BY <1>7, <2>3, <2>4
<1>8. QED
  BY <1>6, <1>7

(* Nothing of a batch is saved under two generations, in any step. *)
LEMMA GenerationStep ==
    ASSUME IInv, Together, SenderStep, UNCHANGED items, [Next]_vars
    PROVE  OneGeneration'
<1>1. /\ OneGeneration /\ Goods /\ SendTyped /\ QueuesTyped /\ InboxTyped /\ StreamsTyped
      /\ CalledOff
  BY DEF IInv, Shape, ReceiverKnows, Together
<1>2. ASSUME UNCHANGED inbox, ~OnFile
      PROVE  OneGeneration'
  BY <1>1, <1>2, StreamsStep, GenerationKeeps
<1>3. CASE OnFile
  <2>1. PICK b \in Batches, i \in 1..MaxCount :
          /\ stream[b][i].pc = "posted" /\ stream[b][i].ok = FALSE
          /\ i \in 1..Count(b) /\ send[b].pc \in Going \cup {"failed"}
          /\ \/ Moved(b, i, "gone", FALSE) /\ UNCHANGED <<inbox, disk>>
             \/ Refuses(b, i) \/ Lets(b, i)
    BY <1>3, HeaderAtHead
  <2>2. CASE Moved(b, i, "gone", FALSE) /\ UNCHANGED <<inbox, disk>>
    BY <1>1, <2>1, <2>2, FileAnswers, GenerationKeeps
  <2>3. CASE Refuses(b, i)
    <3>1. inbox'.open = inbox.open
      BY <2>3 DEF Refuses, FileRefused
    <3>2. QED
      BY <1>1, <2>1, <2>3, <3>1, FileAnswers, GenerationKeeps
  <2>4. CASE Lets(b, i)
    BY <2>1, <2>4, LetsGeneration
  <2>5. QED
    BY <2>1, <2>2, <2>3, <2>4
<1>4. CASE OnCancel
  <2>1. /\ events # <<>> /\ Head(events).type = "cancel"
        /\ inbox' = Cancel(inbox, Head(events).batch) /\ UNCHANGED <<send, stream>>
    BY <1>4 DEF OnCancel, Next1
  <2>2. Head(events) \in Events /\ Head(events) \in Range(events)
    BY <1>1, <2>1, HeadTailProperties DEF QueuesTyped, Range
  <2>3. PICK b \in Batches : Head(events) = FileCancel(b) /\ inbox' = Cancel(inbox, b)
    BY <2>1, <2>2 DEF Events, FileCancel
  <2>4. Opens(inbox, inbox', b, NoBatch)
    BY <1>1, <2>1, <2>3, CancelSteps DEF InboxTyped
  <2>5. send'[b].pc = "failed"
    BY <1>1, <2>1, <2>2, <2>3 DEF CalledOff
  <2>6. ~Good(b)' /\ \A c \in Batches : c # b => inbox'.open[c] = inbox.open[c]
    BY <2>4, <2>5 DEF Good, Opens
  <2>7. AnswersStay /\ NoneStarts
    BY <1>1, <2>1, MovedAnswers
  <2>8. QED
    BY <2>6, <2>7, GenerationStays
<1>5. CASE OnLost
  <2>1. UNCHANGED stream
    BY <1>5 DEF OnLost
  <2>2. AnswersStay /\ NoneStarts
    BY <1>1, <2>1, MovedAnswers
  <2>3. QED
    BY <1>1, <1>5, <2>2, LostGeneration, GenerationKeeps
<1>6. ASSUME NEW b \in Batches,
             ScanFails(b) \/ OpenStream(b) \/ Finish(b) \/ SendFails(b) \/ HearAnswer(b)
      PROVE  UNCHANGED inbox
  BY <1>6 DEF ScanFails, OpenStream, Finish, SendFails, HearAnswer
<1>7. ASSUME NEW b \in Batches, NEW i \in 1..MaxCount,
             HeaderRead(b, i) \/ Saved(b, i) \/ SaveFails(b, i)
      PROVE  UNCHANGED inbox
  BY <1>7 DEF HeaderRead, Saved, SaveFails
<1>8. ASSUME NEW replaced \in BOOLEAN, Break(replaced)
      PROVE  UNCHANGED inbox
  BY <1>8 DEF Break
<1>9. CancelRead \/ Reconnect \/ OnConnected \/ UNCHANGED vars => UNCHANGED inbox
  BY DEF CancelRead, Reconnect, OnConnected, vars
<1>10. ASSUME NEW b \in Batches, NEW i \in 1..MaxCount, OnDone(b, i)
       PROVE  OneGeneration'
  BY <1>10, DoneGeneration
<1>11. QED
  BY <1>2, <1>3, <1>4, <1>5, <1>6, <1>7, <1>8, <1>9, <1>10, Zenon
  DEF Next, Sender, Streams, RunLoop, Connection

(* What a batch's answers have to do with each other, throughout. *)
LEMMA TogetherStep ==
    ASSUME IInv, Together, [Next]_vars
    PROVE  Together'
<1>1. SenderStep /\ UNCHANGED items
  BY SenderSteps DEF IInv
<1>2. NewAtFirst' /\ CalledOff'
  BY <1>1, NewKeeps, CalledStep DEF Together
<1>3. LostBehind' /\ OneGeneration'
  BY <1>1, LostStep, GenerationStep
<1>4. QED
  BY <1>2, <1>3 DEF Together

LEMMA TogetherFirst == Init => Together
<1> SUFFICES ASSUME Init PROVE Together
  OBVIOUS
<1>1. \A b \in Batches : send[b].pc = "new" /\ send[b].index = 1
  BY DEF Init
<1>2. control = <<>> /\ events = <<>>
  BY DEF Init
<1>3. \A b \in Batches, i \in 1..MaxCount : ~Started(b, i)
  BY DEF Init, NoStream, Started
<1>4. NewAtFirst
  BY <1>1 DEF NewAtFirst
<1>5. CalledOff
  <2>1. Range(control) = {} /\ Range(events) = {}
    BY <1>2, EmptySeq DEF Range
  <2>2. QED
    BY <2>1 DEF CalledOff
<1>6. LostBehind
  <2>1. DOMAIN events = {}
    BY <1>2
  <2>2. QED
    BY <2>1 DEF LostBehind
<1>7. OneGeneration
  BY <1>3 DEF OneGeneration
<1>8. QED
  BY <1>4, <1>5, <1>6, <1>7 DEF Together

-----------------------------------------------------------------------------
(***************************************************************************)
(* Where the entries are.                                                  *)
(***************************************************************************)

(* An entry is on the disk at its path, a file all of it once it is saved. *)
IsAt(d, b, i, path, ok) ==
    /\ path \in Seq(Places) /\ Len(path) = Len(Named(b, i))
    /\ items[b][i].dir => FolderAt(path) \in d
    /\ ~items[b][i].dir =>
          \E w \in BOOLEAN : /\ [path |-> path, of |-> <<b, i>>, whole |-> w] \in d
                             /\ ok => w

OnDisk ==
    \A b \in Batches, i \in 1..MaxCount : Started(b, i) =>
        i \in 1..Count(b) /\ IsAt(disk, b, i, stream[b][i].path, stream[b][i].ok)

FoldersThere == \A b \in Batches : IsFolders(inbox.open[b].dirs, disk)

(* The folders an entry is in, and the entry if it is one, are the batch's.*)
IsUnder(dirs, b, i, path) ==
    \A k \in 1..Len(Named(b, i)) : IsFolder(b, i, k) =>
        [key |-> SubSeq(Named(b, i), 1, k), path |-> SubSeq(path, 1, k)] \in dirs

FoldersHold ==
    \A b \in Batches, i \in 1..MaxCount : Current(b, i) =>
        IsUnder(inbox.open[b].dirs, b, i, stream[b][i].path)

Top(b, i) == SubSeq(stream[b][i].path, 1, 1)

(* The roots of a batch are its entries' top-level files and folders.      *)
RootsHold ==
    \A b \in Batches :
        /\ \A i \in 1..MaxCount : Current(b, i) => Top(b, i) \in inbox.open[b].roots
        /\ \A r \in inbox.open[b].roots :
              \E i \in 1..Count(b) : /\ stream[b][i].pc \in Answered
                                     /\ stream[b][i].gen = inbox.open[b].gen
                                     /\ r = Top(b, i)

(* Two paths agree exactly as far as the folders of the names do. *)
AlikePaths(b, i, j, p, q) ==
    /\ Len(p) = Len(Named(b, i))
    /\ \A k \in 1..Len(p), l \in 1..Len(q) :
         IF IsFolder(b, i, k) /\ IsFolder(b, j, l)
         THEN SubSeq(p, 1, k) = SubSeq(q, 1, l) <=>
              SubSeq(Named(b, i), 1, k) = SubSeq(Named(b, j), 1, l)
         ELSE SubSeq(p, 1, k) = SubSeq(q, 1, l) => i = j /\ k = l

AlikePair(b, i, j) == AlikePaths(b, i, j, stream[b][i].path, stream[b][j].path)

Alike ==
    \A b \in Batches : \A i, j \in 1..MaxCount :
        Started(b, i) /\ Started(b, j) /\ stream[b][i].gen = stream[b][j].gen => AlikePair(b, i, j)

DiskInv ==
    /\ IsDisk(disk) /\ OnDisk /\ FoldersThere /\ FoldersHold /\ RootsHold /\ Alike
    /\ ReportedRoots

(* An entry on the disk is where no other is, nor a folder. *)
LEMMA FilesApart ==
    ASSUME items \in Manifests, NEW d, IsDisk(d), NEW b \in Batches, NEW i \in 1..Count(b),
           NEW p, NEW w, [path |-> p, of |-> <<b, i>>, whole |-> w] \in d
    PROVE  /\ FolderAt(p) \notin d
           /\ \A c \in Batches : \A j \in 1..Count(c) : \A v :
                 [path |-> p, of |-> <<c, j>>, whole |-> v] \in d => c = b /\ j = i
<1>1. \A x, y : x \in d /\ y \in d /\ x.path = y.path => x.of = y.of
  BY DEF IsDisk
<1>2. i # 0
  BY NamesAre, LenProperties DEF Count
<1>3. ASSUME FolderAt(p) \in d
      PROVE  FALSE
  <2>1. FolderAt(p).path = p /\ FolderAt(p).of = <<"directory", 0>>
    BY DEF FolderAt, Directory
  <2>2. <<b, i>> = <<"directory", 0>>
    BY <1>1, <1>3, <2>1
  <2>3. QED
    BY <1>2, <2>2
<1>4. ASSUME NEW c \in Batches, NEW j \in 1..Count(c), NEW v,
             [path |-> p, of |-> <<c, j>>, whole |-> v] \in d
      PROVE  c = b /\ j = i
  <2>1. <<c, j>> = <<b, i>>
    BY <1>1, <1>4
  <2>2. QED
    BY <2>1
<1>5. QED
  BY <1>3, <1>4

(* A folder's path is no file's. *)
LEMMA NoFolderAtFile ==
    ASSUME items \in Manifests, NEW d, IsDisk(d), NEW dirs, IsFolders(dirs, d),
           NEW b \in Batches, NEW i \in 1..Count(b), NEW j \in 1..Count(b),
           NEW p, NEW q, NEW u, IsUnder(dirs, b, i, p), IsAt(d, b, j, q, u),
           NEW k \in 1..Len(Named(b, i)), IsFolder(b, i, k), ~items[b][j].dir
    PROVE  SubSeq(p, 1, k) # q
<1> DEFINE x == [key |-> SubSeq(Named(b, i), 1, k), path |-> SubSeq(p, 1, k)]
<1>1. x \in dirs /\ x.path = SubSeq(p, 1, k)
  BY DEF IsUnder
<1> HIDE DEF x
<1>2. FolderAt(SubSeq(p, 1, k)) \in d
  <2>1. FolderAt(x.path) \in d
    BY <1>1 DEF IsFolders
  <2>2. QED
    BY <1>1, <2>1
<1>3. \E w \in BOOLEAN : [path |-> q, of |-> <<b, j>>, whole |-> w] \in d
  BY DEF IsAt
<1>4. FolderAt(q) \notin d
  BY <1>3, FilesApart
<1>5. QED
  BY <1>2, <1>4

(* Two entries of a batch, on the disk in the batch's folders, are to each *)
(* other as their names are.                                               *)
LEMMA AlikeOnDisk ==
    ASSUME items \in Manifests, NEW d, IsDisk(d), NEW dirs, IsFolders(dirs, d),
           NEW b \in Batches, NEW i \in 1..Count(b), NEW j \in 1..Count(b),
           NEW p, NEW q, NEW u, NEW v, IsUnder(dirs, b, i, p), IsUnder(dirs, b, j, q),
           IsAt(d, b, i, p, u), IsAt(d, b, j, q, v), i = j => p = q
    PROVE  AlikePaths(b, i, j, p, q)
<1> DEFINE m == Named(b, i)
           n == Named(b, j)
<1>0. Len(p) = Len(m) /\ Len(q) = Len(n)
  BY DEF IsAt
<1>1. SUFFICES ASSUME NEW k \in 1..Len(m), NEW l \in 1..Len(n)
               PROVE  IF IsFolder(b, i, k) /\ IsFolder(b, j, l)
                      THEN SubSeq(p, 1, k) = SubSeq(q, 1, l) <=>
                           SubSeq(m, 1, k) = SubSeq(n, 1, l)
                      ELSE SubSeq(p, 1, k) = SubSeq(q, 1, l) => i = j /\ k = l
  BY <1>0 DEF AlikePaths
<1>2. m \in Seq(Components) /\ n \in Seq(Components) /\ p \in Seq(Places) /\ q \in Seq(Places)
      /\ Len(p) = Len(m) /\ Len(q) = Len(n) /\ Len(m) \in Nat /\ Len(n) \in Nat
  BY NamesAre DEF IsAt
<1>3. SubSeq(p, 1, Len(m)) = p /\ SubSeq(q, 1, Len(n)) = q
  <2>1. SubSeq(p, 1, Len(p)) = p /\ SubSeq(q, 1, Len(q)) = q
    BY <1>2, PrefixesAre
  <2>2. QED
    BY <1>2, <2>1
<1>4. /\ ~IsFolder(b, i, k) => k = Len(m) /\ ~items[b][i].dir
      /\ ~IsFolder(b, j, l) => l = Len(n) /\ ~items[b][j].dir
  BY <1>2 DEF IsFolder
<1>5. CASE IsFolder(b, i, k) /\ IsFolder(b, j, l)
  <2> DEFINE x == [key |-> SubSeq(m, 1, k), path |-> SubSeq(p, 1, k)]
             y == [key |-> SubSeq(n, 1, l), path |-> SubSeq(q, 1, l)]
  <2>1. x \in dirs /\ y \in dirs
    BY <1>5 DEF IsUnder
  <2>2. /\ x.key = SubSeq(m, 1, k) /\ x.path = SubSeq(p, 1, k)
        /\ y.key = SubSeq(n, 1, l) /\ y.path = SubSeq(q, 1, l)
    OBVIOUS
  <2> HIDE DEF x, y
  <2>3. x.key = y.key <=> x.path = y.path
    BY <2>1 DEF IsFolders
  <2>4. QED
    BY <1>5, <2>2, <2>3
<1>6. CASE IsFolder(b, i, k) /\ ~IsFolder(b, j, l)
  <2>1. SubSeq(p, 1, k) # q
    BY <1>4, <1>6, NoFolderAtFile
  <2>2. QED
    BY <1>3, <1>4, <1>6, <2>1
<1>7. CASE ~IsFolder(b, i, k) /\ IsFolder(b, j, l)
  <2>1. SubSeq(q, 1, l) # p
    BY <1>4, <1>7, NoFolderAtFile
  <2>2. QED
    BY <1>3, <1>4, <1>7, <2>1
<1>8. CASE ~IsFolder(b, i, k) /\ ~IsFolder(b, j, l)
  <2>1. p = q => i = j
    <3>1. /\ \E w \in BOOLEAN : [path |-> p, of |-> <<b, i>>, whole |-> w] \in d
          /\ \E w \in BOOLEAN : [path |-> q, of |-> <<b, j>>, whole |-> w] \in d
      BY <1>4, <1>8 DEF IsAt
    <3>2. QED
      BY <3>1, FilesApart
  <2>2. i = j => k = l
    BY <1>4, <1>8
  <2>3. QED
    BY <1>3, <1>4, <1>8, <2>1, <2>2
<1>9. QED
  BY <1>5, <1>6, <1>7, <1>8

(* The parts of the invariant after a step, of names that stay. *)
LEMMA PartsNext ==
    ASSUME UNCHANGED items
    PROVE  /\ (\A c \in Batches, j \in 1..MaxCount : Started(c, j)' =>
                  j \in 1..Count(c) /\ IsAt(disk', c, j, stream'[c][j].path, stream'[c][j].ok))
              => OnDisk'
           /\ (\A c \in Batches : IsFolders(inbox'.open[c].dirs, disk')) => FoldersThere'
           /\ (\A c \in Batches, j \in 1..MaxCount : Current(c, j)' =>
                  IsUnder(inbox'.open[c].dirs, c, j, stream'[c][j].path))
              => FoldersHold'
           /\ (\A c \in Batches : \A j, k \in 1..MaxCount :
                  Started(c, j)' /\ Started(c, k)' /\ stream'[c][j].gen = stream'[c][k].gen =>
                  AlikePaths(c, j, k, stream'[c][j].path, stream'[c][k].path))
              => Alike'
           /\ (\A c \in Batches :
                  /\ \A j \in 1..MaxCount : Current(c, j)' =>
                        SubSeq(stream'[c][j].path, 1, 1) \in inbox'.open[c].roots
                  /\ \A r \in inbox'.open[c].roots :
                        \E j \in 1..Count(c) : /\ stream'[c][j].pc \in Answered
                                               /\ stream'[c][j].gen = inbox'.open[c].gen
                                               /\ r = SubSeq(stream'[c][j].path, 1, 1))
              => RootsHold'
<1>1. (\A c \in Batches, j \in 1..MaxCount : Started(c, j)' =>
                  j \in 1..Count(c) /\ IsAt(disk', c, j, stream'[c][j].path, stream'[c][j].ok))
              => OnDisk'
  BY DEF OnDisk, IsAt, Named, Count
<1>2. (\A c \in Batches : IsFolders(inbox'.open[c].dirs, disk')) => FoldersThere'
  BY DEF FoldersThere
<1>3. (\A c \in Batches, j \in 1..MaxCount : Current(c, j)' =>
                  IsUnder(inbox'.open[c].dirs, c, j, stream'[c][j].path))
              => FoldersHold'
  BY DEF FoldersHold, IsUnder, IsFolder, Named
<1>4. (\A c \in Batches : \A j, k \in 1..MaxCount :
                  Started(c, j)' /\ Started(c, k)' /\ stream'[c][j].gen = stream'[c][k].gen =>
                  AlikePaths(c, j, k, stream'[c][j].path, stream'[c][k].path))
              => Alike'
  <2>1. ASSUME NEW c, NEW j, NEW k, AlikePaths(c, j, k, stream'[c][j].path, stream'[c][k].path)
        PROVE  AlikePair(c, j, k)'
    <3>1. /\ Named(c, j)' = Named(c, j) /\ Named(c, k)' = Named(c, k)
          /\ \A l : IsFolder(c, j, l)' <=> IsFolder(c, j, l)
          /\ \A l : IsFolder(c, k, l)' <=> IsFolder(c, k, l)
      BY DEF IsFolder, Named
    <3>2. QED
      BY <2>1, <3>1 DEF AlikePair, AlikePaths
  <2>2. QED
    BY <2>1 DEF Alike
<1>5. (\A c \in Batches :
                  /\ \A j \in 1..MaxCount : Current(c, j)' =>
                        SubSeq(stream'[c][j].path, 1, 1) \in inbox'.open[c].roots
                  /\ \A r \in inbox'.open[c].roots :
                        \E j \in 1..Count(c) : /\ stream'[c][j].pc \in Answered
                                               /\ stream'[c][j].gen = inbox'.open[c].gen
                                               /\ r = SubSeq(stream'[c][j].path, 1, 1))
              => RootsHold'
  BY DEF RootsHold, Top, Count
<1>6. QED
  BY <1>1, <1>2, <1>3, <1>4, <1>5

(* What is on the disk, or in the batch's folders, is so when they grow.   *)
LEMMA Growing ==
    ASSUME NEW d, NEW e, d \subseteq e
    PROVE  /\ \A b, i, p, u : IsAt(d, b, i, p, u) => IsAt(e, b, i, p, u)
           /\ \A b, i, p : IsUnder(d, b, i, p) => IsUnder(e, b, i, p)
           /\ \A dirs : IsFolders(dirs, d) => IsFolders(dirs, e)
<1>1. ASSUME NEW b, NEW i, NEW p, NEW u, IsAt(d, b, i, p, u)
      PROVE  IsAt(e, b, i, p, u)
  <2>1. items[b][i].dir => FolderAt(p) \in e
    BY <1>1 DEF IsAt
  <2>2. ~items[b][i].dir =>
          \E w \in BOOLEAN : [path |-> p, of |-> <<b, i>>, whole |-> w] \in e /\ (u => w)
    <3>1. ~items[b][i].dir =>
            \E w \in BOOLEAN : [path |-> p, of |-> <<b, i>>, whole |-> w] \in d /\ (u => w)
      BY <1>1 DEF IsAt
    <3>2. QED
      BY <3>1
  <2>3. QED
    BY <1>1, <2>1, <2>2 DEF IsAt
<1>2. \A b, i, p : IsUnder(d, b, i, p) => IsUnder(e, b, i, p)
  BY DEF IsUnder
<1>3. \A dirs : IsFolders(dirs, d) => IsFolders(dirs, e)
  BY FoldersStay
<1>4. QED
  BY <1>1, <1>2, <1>3

(* The folders of the batch a header joins are on the disk. *)
LEMMA JoinedFolders ==
    ASSUME InboxTyped, FoldersThere, NEW b \in Batches
    PROVE  /\ IsFolders(Joined(b).dirs, disk)
           /\ inbox.open[b] = NoBatch => Joined(b).dirs = {} /\ Joined(b).roots = {}
<1>1. CASE inbox.open[b] = NoBatch
  <2>1. NoBatch.dirs = {} /\ NoBatch.roots = {} /\ IsBatch(NoBatch)
    BY EmptyBatch DEF NoBatch, Counts
  <2>2. Joined(b).dirs = {} /\ Joined(b).roots = {}
    BY <1>1, <2>1, EnteredIs DEF Joined
  <2>3. IsFolders({}, disk)
    BY DEF IsFolders
  <2>4. QED
    BY <2>2, <2>3
<1>2. CASE inbox.open[b] # NoBatch
  BY <1>2, JoinedIs DEF FoldersThere
<1>3. QED
  BY <1>1, <1>2

(* Where reserve puts the entry it lets in. *)
LEMMA LetsPlace ==
    ASSUME items \in Manifests, InboxTyped, IsDisk(disk), FoldersThere,
           NEW b \in Batches, NEW i \in 1..Count(b), Lets(b, i)
    PROVE  /\ IsDisk(disk') /\ disk \subseteq disk'
           /\ IsFolders(inbox'.open[b].dirs, disk') /\ Joined(b).dirs \subseteq inbox'.open[b].dirs
           /\ inbox'.open[b].roots = Joined(b).roots \cup {SubSeq(stream'[b][i].path, 1, 1)}
           /\ IsUnder(inbox'.open[b].dirs, b, i, stream'[b][i].path)
           /\ IsAt(disk', b, i, stream'[b][i].path, FALSE)
<1> DEFINE r == Reserve(Joined(b), disk, b, i)
           n == Named(b, i)
<1>1. /\ stream'[b][i].path = r.path /\ disk' = r.disk
      /\ inbox'.open[b].dirs = r.dirs /\ inbox'.open[b].roots = r.roots
  BY DEF Lets
<1>2. ~Unsafe(b, i)
  BY DEF Lets
<1>d. Descended(r, b, i, Len(n), disk, Joined(b).dirs, Joined(b).roots)
  BY <1>2, JoinedFolders, ReserveDescends
<1> HIDE DEF r
<1>3. Len(n) \in Nat /\ Len(n) >= 1 /\ items[b][i].dir \in BOOLEAN /\ n \in Seq(Components)
  <2>1. n \in Seq(Components) /\ n # <<>> /\ Len(n) \in Nat /\ items[b][i].dir \in BOOLEAN
    BY <1>2, NamesAre DEF Unsafe
  <2>2. Len(n) # 0
    BY <2>1, EmptySeq
  <2>3. QED
    BY <2>1, <2>2
<1>4. /\ r.path \in Seq(Places) /\ Len(r.path) = Len(n)
      /\ IsDisk(r.disk) /\ disk \subseteq r.disk
      /\ IsFolders(r.dirs, r.disk) /\ Joined(b).dirs \subseteq r.dirs
      /\ r.roots = Joined(b).roots \cup {SubSeq(r.path, 1, 1)}
  BY <1>d, <1>3 DEF Descended
<1>5. IsUnder(r.dirs, b, i, r.path)
  BY <1>d DEF Descended, IsUnder
<1>6. items[b][i].dir => FolderAt(r.path) \in r.disk
  <2>1. SUFFICES ASSUME items[b][i].dir
                 PROVE  FolderAt(r.path) \in r.disk
    OBVIOUS
  <2> DEFINE x == [key |-> SubSeq(n, 1, Len(n)), path |-> SubSeq(r.path, 1, Len(n))]
  <2>2. Len(n) \in 1..Len(n) /\ IsFolder(b, i, Len(n))
    BY <1>3, <2>1 DEF IsFolder
  <2>3. x \in r.dirs
    BY <1>5, <2>2 DEF IsUnder
  <2>4. x.path = r.path
    BY <1>4, PrefixesAre
  <2> HIDE DEF x
  <2>5. FolderAt(x.path) \in r.disk
    BY <1>4, <2>3 DEF IsFolders
  <2>6. QED
    BY <2>4, <2>5
<1>7. ~items[b][i].dir => FileAt(r.path, b, i) \in r.disk
  BY <1>d DEF Descended
<1>8. IsAt(r.disk, b, i, r.path, FALSE)
  BY <1>4, <1>6, <1>7 DEF IsAt, FileAt
<1>9. QED
  BY <1>1, <1>4, <1>5, <1>8

(* What was reported stays where it is. *)
LEMMA ReportedStay ==
    ASSUME IInv, ReportedRoots, UNCHANGED items, AnswersStay
    PROVE  \A x \in reported :
              x.roots = {SubSeq(stream'[x.batch][i].path, 1, 1) : i \in 1..Count(x.batch)}
<1>1. Reported /\ SendTyped
  BY DEF IInv, Shape, ReceiverKnows
<1>2. SUFFICES ASSUME NEW x \in reported
               PROVE  x.roots = {SubSeq(stream'[x.batch][i].path, 1, 1) : i \in 1..Count(x.batch)}
  OBVIOUS
<1>3. x.batch \in Batches /\ \A i \in 1..Count(x.batch) : stream[x.batch][i].pc = "over"
  BY <1>1 DEF Reported
<1>4. 1..Count(x.batch) \subseteq 1..MaxCount
  BY <1>1, <1>3, Counting
<1>5. \A i \in 1..Count(x.batch) : stream'[x.batch][i].path = stream[x.batch][i].path
  BY <1>3, <1>4 DEF AnswersStay, Answered
<1>6. x.roots = {SubSeq(stream[x.batch][i].path, 1, 1) : i \in 1..Count(x.batch)}
  BY DEF ReportedRoots
<1>7. QED
  BY <1>5, <1>6

(* Inbox::receive: the entry goes to a place that is to the others of its  *)
(* batch as its name is to theirs.                                         *)
LEMMA LetsDisk ==
    ASSUME IInv, DiskInv, UNCHANGED <<items, reported>>,
           NEW b \in Batches, NEW i \in 1..Count(b), i \in 1..MaxCount,
           stream[b][i].pc = "posted", stream[b][i].ok = FALSE, Lets(b, i)
    PROVE  DiskInv'
<1>1. /\ Goods /\ InboxTyped /\ SendTyped /\ items \in Manifests
      /\ IsDisk(disk) /\ OnDisk /\ FoldersThere /\ FoldersHold /\ RootsHold /\ Alike
      /\ ReportedRoots
  BY DEF IInv, Shape, ReceiverKnows, DiskInv, SendTyped
<1>2. /\ AnswersStay
      /\ stream'[b][i].pc = "saving" /\ stream'[b][i].ok = FALSE
      /\ stream'[b][i].gen = Joined(b).gen
      /\ \A c \in Batches, j \in 1..MaxCount : c # b \/ j # i => stream'[c][j] = stream[c][j]
  BY <1>1, FileAnswers
<1>3. /\ inbox'.open[b].gen = Joined(b).gen
      /\ \A c \in Batches : c # b => inbox'.open[c] = inbox.open[c]
  BY DEF Lets, FileStarts, Opens, Counts
<1>4. /\ IsDisk(disk') /\ disk \subseteq disk'
      /\ IsFolders(inbox'.open[b].dirs, disk') /\ Joined(b).dirs \subseteq inbox'.open[b].dirs
      /\ inbox'.open[b].roots = Joined(b).roots \cup {SubSeq(stream'[b][i].path, 1, 1)}
      /\ IsUnder(inbox'.open[b].dirs, b, i, stream'[b][i].path)
      /\ IsAt(disk', b, i, stream'[b][i].path, FALSE)
  BY <1>1, LetsPlace
<1>5. ASSUME NEW j \in 1..MaxCount, Started(b, j), stream[b][j].gen = Joined(b).gen
      PROVE  Current(b, j) /\ Joined(b) = inbox.open[b]
  <2>1. stream[b][j].gen <= inbox.gen /\ inbox.gen \in Nat
    BY <1>1 DEF Goods, InboxTyped, IsInbox
  <2>2. inbox.open[b] # NoBatch
    BY <1>1, <1>5, <2>1, JoinedIs DEF Counts
  <2>3. QED
    BY <1>1, <1>5, <2>2, JoinedIs DEF Current
<1>6. ASSUME NEW c \in Batches, NEW j \in 1..MaxCount, Started(c, j)'
      PROVE  j \in 1..Count(c) /\ IsAt(disk', c, j, stream'[c][j].path, stream'[c][j].ok)
  <2>1. CASE c = b /\ j = i
    BY <1>2, <1>4, <2>1
  <2>2. CASE c # b \/ j # i
    <3>1. stream'[c][j] = stream[c][j] /\ Started(c, j)
      BY <1>2, <1>6, <2>2 DEF Started
    <3>2. j \in 1..Count(c) /\ IsAt(disk, c, j, stream[c][j].path, stream[c][j].ok)
      BY <1>1, <3>1 DEF OnDisk
    <3>3. QED
      BY <1>4, <3>1, <3>2, Growing
  <2>3. QED
    BY <2>1, <2>2
<1>7. ASSUME NEW c \in Batches
      PROVE  IsFolders(inbox'.open[c].dirs, disk')
  <2>1. CASE c = b
    BY <1>4, <2>1
  <2>2. CASE c # b
    BY <1>1, <1>3, <1>4, <2>2, Growing DEF FoldersThere
  <2>3. QED
    BY <2>1, <2>2
<1>8. ASSUME NEW c \in Batches, NEW j \in 1..MaxCount, Started(c, j)',
             stream'[c][j].gen = inbox'.open[c].gen
      PROVE  /\ IsUnder(inbox'.open[c].dirs, c, j, stream'[c][j].path)
             /\ SubSeq(stream'[c][j].path, 1, 1) \in inbox'.open[c].roots
  <2>1. CASE c = b /\ j = i
    BY <1>4, <2>1
  <2>2. CASE c # b \/ j # i
    <3>1. stream'[c][j] = stream[c][j] /\ Started(c, j)
      BY <1>2, <1>8, <2>2 DEF Started
    <3>2. CASE c = b
      <4>1. Current(b, j) /\ Joined(b) = inbox.open[b]
        BY <1>3, <1>5, <1>8, <3>1, <3>2
      <4>2. /\ IsUnder(inbox.open[b].dirs, b, j, stream[b][j].path)
            /\ SubSeq(stream[b][j].path, 1, 1) \in inbox.open[b].roots
        BY <1>1, <4>1 DEF FoldersHold, RootsHold, Top
      <4>3. QED
        BY <1>4, <3>1, <3>2, <4>1, <4>2, Growing
    <3>3. CASE c # b
      <4>1. inbox'.open[c] = inbox.open[c]
        BY <1>3, <3>3
      <4>2. Current(c, j)
        BY <1>8, <3>1, <4>1 DEF Current
      <4>3. QED
        BY <1>1, <3>1, <4>1, <4>2 DEF FoldersHold, RootsHold, Top
    <3>4. QED
      BY <3>2, <3>3
  <2>3. QED
    BY <2>1, <2>2
<1>9. ASSUME NEW c \in Batches, NEW x \in inbox'.open[c].roots
      PROVE  \E j \in 1..Count(c) : /\ stream'[c][j].pc \in Answered
                                    /\ stream'[c][j].gen = inbox'.open[c].gen
                                    /\ x = SubSeq(stream'[c][j].path, 1, 1)
  <2>1. CASE c = b /\ x = SubSeq(stream'[b][i].path, 1, 1)
    BY <1>2, <1>3, <2>1 DEF Answered
  <2>2. CASE c # b \/ x # SubSeq(stream'[b][i].path, 1, 1)
    <3>1. x \in inbox.open[c].roots /\ inbox'.open[c].gen = inbox.open[c].gen
      <4>1. CASE c # b
        BY <1>3, <1>9, <4>1
      <4>2. CASE c = b
        <5>1. x \in Joined(b).roots
          BY <1>4, <1>9, <2>2, <4>2
        <5>2. inbox.open[b] # NoBatch
          BY <1>1, <5>1, JoinedFolders
        <5>3. QED
          BY <1>1, <1>3, <4>2, <5>1, <5>2, JoinedIs
      <4>3. QED
        BY <4>1, <4>2
    <3>2. PICK j \in 1..Count(c) : /\ stream[c][j].pc \in Answered
                                   /\ stream[c][j].gen = inbox.open[c].gen
                                   /\ x = SubSeq(stream[c][j].path, 1, 1)
      BY <1>1, <3>1 DEF RootsHold, Top
    <3>3. j \in 1..MaxCount
      BY <1>1, Counting
    <3>4. /\ stream'[c][j].pc \in Answered /\ stream'[c][j].gen = stream[c][j].gen
          /\ stream'[c][j].path = stream[c][j].path
      BY <1>2, <3>2, <3>3 DEF AnswersStay
    <3>5. QED
      BY <3>1, <3>2, <3>4
  <2>3. QED
    BY <2>1, <2>2
<1>10. ASSUME NEW c \in Batches, NEW j \in 1..MaxCount, NEW k \in 1..MaxCount,
              Started(c, j)', Started(c, k)', stream'[c][j].gen = stream'[c][k].gen
       PROVE  AlikePaths(c, j, k, stream'[c][j].path, stream'[c][k].path)
  <2>1. CASE c = b /\ (j = i \/ k = i)
    <3>1. stream'[b][j].gen = inbox'.open[b].gen /\ stream'[b][k].gen = inbox'.open[b].gen
      BY <1>2, <1>3, <1>10, <2>1
    <3>2. /\ IsUnder(inbox'.open[b].dirs, b, j, stream'[b][j].path)
          /\ IsUnder(inbox'.open[b].dirs, b, k, stream'[b][k].path)
      BY <1>8, <1>10, <2>1, <3>1
    <3>3. /\ j \in 1..Count(b) /\ IsAt(disk', b, j, stream'[b][j].path, stream'[b][j].ok)
          /\ k \in 1..Count(b) /\ IsAt(disk', b, k, stream'[b][k].path, stream'[b][k].ok)
      BY <1>6, <1>10, <2>1
    <3>4. QED
      BY <1>1, <1>4, <2>1, <3>2, <3>3, AlikeOnDisk
  <2>2. CASE ~(c = b /\ (j = i \/ k = i))
    <3>1. stream'[c][j] = stream[c][j] /\ stream'[c][k] = stream[c][k]
      BY <1>2, <2>2
    <3>2. Started(c, j) /\ Started(c, k)
      BY <1>10, <3>1 DEF Started
    <3>3. QED
      BY <1>1, <1>10, <3>1, <3>2 DEF Alike, AlikePair
  <2>3. QED
    BY <2>1, <2>2
<1>11. OnDisk' /\ FoldersThere'
  BY <1>6, <1>7, PartsNext
<1>12. FoldersHold' /\ RootsHold'
  BY <1>8, <1>9, PartsNext DEF Current
<1>13. Alike'
  BY <1>10, PartsNext
<1>14. ReportedRoots'
  <2>1. \A x \in reported :
           x.roots = {SubSeq(stream'[x.batch][j].path, 1, 1) : j \in 1..Count(x.batch)}
    BY <1>1, <1>2, ReportedStay
  <2>2. QED
    BY <2>1 DEF ReportedRoots, Count
<1>15. QED
  BY <1>4, <1>11, <1>12, <1>13, <1>14 DEF DiskInv

(* The files that have been saved, or are being saved, are on the disk.    *)
FilesThere(d) ==
    \A c \in Batches, j \in 1..MaxCount : Started(c, j)' /\ ~items[c][j].dir =>
        \E w \in BOOLEAN : /\ [path |-> stream[c][j].path, of |-> <<c, j>>, whole |-> w] \in d
                           /\ stream'[c][j].ok => w

(* A step that lets no entry in keeps every entry where it is.             *)
LEMMA QuietKeeps ==
    ASSUME IInv, IInv', DiskInv, UNCHANGED items, AnswersStay, NoneStarts, OpensStay,
           IsDisk(disk'), \A p : FolderAt(p) \in disk => FolderAt(p) \in disk',
           FilesThere(disk'), ReportedRoots'
    PROVE  DiskInv'
<1>1. /\ Goods /\ Goods' /\ SendTyped /\ items \in Manifests
      /\ OnDisk /\ FoldersThere /\ FoldersHold /\ RootsHold /\ Alike
  BY DEF IInv, Shape, ReceiverKnows, DiskInv, SendTyped
<1>2. NoBatch.gen = 0 /\ NoBatch.dirs = {} /\ NoBatch.roots = {}
  BY DEF NoBatch
<1>3. \A c \in Batches, j \in 1..MaxCount : Started(c, j)' =>
        /\ Started(c, j)
        /\ stream'[c][j].gen = stream[c][j].gen /\ stream'[c][j].path = stream[c][j].path
        /\ stream'[c][j].gen > 0
  <2>1. \A c \in Batches, j \in 1..MaxCount : Started(c, j) => stream[c][j].pc \in Answered
    BY <1>1 DEF Goods, Started, Answered
  <2>2. QED
    BY <1>1, <2>1 DEF NoneStarts, AnswersStay, Goods, Started
<1>4. \A c \in Batches, j \in 1..MaxCount :
        Started(c, j)' /\ stream'[c][j].gen = inbox'.open[c].gen =>
        /\ Current(c, j)
        /\ inbox'.open[c].dirs = inbox.open[c].dirs /\ inbox'.open[c].roots = inbox.open[c].roots
  <2>1. SUFFICES ASSUME NEW c \in Batches, NEW j \in 1..MaxCount, Started(c, j)',
                        stream'[c][j].gen = inbox'.open[c].gen
                 PROVE  /\ Current(c, j)
                        /\ inbox'.open[c].dirs = inbox.open[c].dirs
                        /\ inbox'.open[c].roots = inbox.open[c].roots
    OBVIOUS
  <2>2. stream'[c][j].gen > 0 /\ stream'[c][j].gen = stream[c][j].gen /\ Started(c, j)
    BY <1>3, <2>1
  <2>3. inbox'.open[c] # NoBatch
    <3>1. inbox'.open[c].gen > 0
      BY <2>1, <2>2
    <3>2. ~(NoBatch.gen > 0)
      BY <1>2
    <3>3. QED
      BY <3>1, <3>2, Zenon
  <2>4. QED
    BY <2>1, <2>2, <2>3 DEF OpensStay, Current
<1>5. ASSUME NEW c \in Batches, NEW j \in 1..MaxCount, Started(c, j)'
      PROVE  j \in 1..Count(c) /\ IsAt(disk', c, j, stream'[c][j].path, stream'[c][j].ok)
  <2>1. stream'[c][j].path = stream[c][j].path /\ Started(c, j)
    BY <1>3, <1>5
  <2>2. j \in 1..Count(c) /\ IsAt(disk, c, j, stream[c][j].path, stream[c][j].ok)
    BY <1>1, <2>1 DEF OnDisk
  <2>3. ~items[c][j].dir => \E w \in BOOLEAN :
          /\ [path |-> stream[c][j].path, of |-> <<c, j>>, whole |-> w] \in disk'
          /\ stream'[c][j].ok => w
    BY <1>5 DEF FilesThere
  <2>4. QED
    BY <2>1, <2>2, <2>3 DEF IsAt
<1>6. ASSUME NEW c \in Batches
      PROVE  IsFolders(inbox'.open[c].dirs, disk')
  <2>1. CASE inbox'.open[c] = NoBatch
    BY <1>2, <2>1 DEF IsFolders
  <2>2. CASE inbox'.open[c].dirs = inbox.open[c].dirs
    BY <1>1, <2>2, FoldersStay DEF FoldersThere
  <2>3. QED
    BY <2>1, <2>2 DEF OpensStay
<1>7. ASSUME NEW c \in Batches, NEW j \in 1..MaxCount, Started(c, j)',
             stream'[c][j].gen = inbox'.open[c].gen
      PROVE  /\ IsUnder(inbox'.open[c].dirs, c, j, stream'[c][j].path)
             /\ SubSeq(stream'[c][j].path, 1, 1) \in inbox'.open[c].roots
  <2>1. /\ Current(c, j) /\ stream'[c][j].path = stream[c][j].path
        /\ inbox'.open[c].dirs = inbox.open[c].dirs /\ inbox'.open[c].roots = inbox.open[c].roots
    BY <1>3, <1>4, <1>7
  <2>2. QED
    BY <1>1, <2>1 DEF FoldersHold, RootsHold, Top
<1>8. ASSUME NEW c \in Batches, NEW x \in inbox'.open[c].roots
      PROVE  \E j \in 1..Count(c) : /\ stream'[c][j].pc \in Answered
                                    /\ stream'[c][j].gen = inbox'.open[c].gen
                                    /\ x = SubSeq(stream'[c][j].path, 1, 1)
  <2>1. x \in inbox.open[c].roots /\ inbox'.open[c].gen = inbox.open[c].gen
    BY <1>2, <1>8 DEF OpensStay
  <2>2. PICK j \in 1..Count(c) : /\ stream[c][j].pc \in Answered
                                 /\ stream[c][j].gen = inbox.open[c].gen
                                 /\ x = SubSeq(stream[c][j].path, 1, 1)
    BY <1>1, <2>1 DEF RootsHold, Top
  <2>3. j \in 1..MaxCount
    BY <1>1, Counting
  <2>4. /\ stream'[c][j].pc \in Answered /\ stream'[c][j].gen = stream[c][j].gen
        /\ stream'[c][j].path = stream[c][j].path
    BY <2>2, <2>3 DEF AnswersStay
  <2>5. QED
    BY <2>1, <2>2, <2>4
<1>9. ASSUME NEW c \in Batches, NEW j \in 1..MaxCount, NEW k \in 1..MaxCount,
             Started(c, j)', Started(c, k)', stream'[c][j].gen = stream'[c][k].gen
      PROVE  AlikePaths(c, j, k, stream'[c][j].path, stream'[c][k].path)
  <2>1. /\ Started(c, j) /\ Started(c, k) /\ stream[c][j].gen = stream[c][k].gen
        /\ stream'[c][j].path = stream[c][j].path /\ stream'[c][k].path = stream[c][k].path
    BY <1>3, <1>9
  <2>2. QED
    BY <1>1, <2>1 DEF Alike, AlikePair
<1>10. OnDisk' /\ FoldersThere'
  BY <1>5, <1>6, PartsNext
<1>11. FoldersHold' /\ RootsHold'
  BY <1>7, <1>8, PartsNext DEF Current
<1>12. Alike'
  BY <1>9, PartsNext
<1>13. QED
  BY <1>10, <1>11, <1>12 DEF DiskInv

(* The disk is let alone, and nothing is saved. *)
LEMMA UntouchedFiles ==
    ASSUME OnDisk, NoneStarts, UNCHANGED disk,
           \A c \in Batches, j \in 1..MaxCount : stream'[c][j].ok => stream[c][j].ok
    PROVE  FilesThere(disk')
<1>1. SUFFICES ASSUME NEW c \in Batches, NEW j \in 1..MaxCount, Started(c, j)', ~items[c][j].dir
               PROVE  \E w \in BOOLEAN :
                        /\ [path |-> stream[c][j].path, of |-> <<c, j>>, whole |-> w] \in disk'
                        /\ stream'[c][j].ok => w
  BY DEF FilesThere
<1>2. Started(c, j)
  BY <1>1 DEF NoneStarts
<1>3. \E w \in BOOLEAN : /\ [path |-> stream[c][j].path, of |-> <<c, j>>, whole |-> w] \in disk
                         /\ stream[c][j].ok => w
  BY <1>1, <1>2 DEF OnDisk, IsAt
<1>4. QED
  BY <1>3

(* What is on the disk, marked as being all there, or not. *)
WithWhole(x, w) == [x EXCEPT !.whole = w]

LEMMA Wholes ==
    ASSUME NEW x, IsThing(x), NEW w
    PROVE  /\ IsThing(WithWhole(x, w))
           /\ WithWhole(x, w).path = x.path /\ WithWhole(x, w).of = x.of
           /\ WithWhole(x, w).whole = w
           /\ WithWhole(x, w) = [path |-> x.path, of |-> x.of, whole |-> w]
BY DEF IsThing, WithWhole

(* IncomingFile::complete: the file is all there. *)
LEMMA SavedDisk ==
    ASSUME IInv, DiskInv, NEW b \in Batches, NEW i \in 1..MaxCount, Saved(b, i)
    PROVE  /\ IsDisk(disk') /\ FilesThere(disk')
           /\ \A p : FolderAt(p) \in disk => FolderAt(p) \in disk'
<1> DEFINE p == stream[b][i].path
           G(x) == IF x.path = p THEN WithWhole(x, TRUE) ELSE x
<1>1. IsDisk(disk) /\ OnDisk /\ StreamsTyped /\ Goods
  BY DEF DiskInv, IInv, Shape, ReceiverKnows
<1>2. disk' = {G(x) : x \in disk}
  BY Zenon DEF Saved, WithWhole
<1>3. \A x : IsThing(x) => /\ IsThing(WithWhole(x, TRUE)) /\ WithWhole(x, TRUE).path = x.path
                           /\ WithWhole(x, TRUE) = [path |-> x.path, of |-> x.of, whole |-> TRUE]
  BY Wholes
<1>4. ASSUME NEW q
      PROVE  WithWhole(FolderAt(q), TRUE) = FolderAt(q)
  <2>1. IsThing(FolderAt(q)) /\ FolderAt(q).path = q /\ FolderAt(q).of = Directory
    BY DEF FolderAt, IsThing
  <2>2. FolderAt(q) = [path |-> q, of |-> Directory, whole |-> TRUE]
    BY DEF FolderAt
  <2>3. QED
    BY <1>3, <2>1, <2>2
<1>5. ASSUME NEW q, NEW f, NEW w
      PROVE  WithWhole([path |-> q, of |-> f, whole |-> w], TRUE)
                 = [path |-> q, of |-> f, whole |-> TRUE]
  <2> DEFINE x == [path |-> q, of |-> f, whole |-> w]
  <2>1. IsThing(x) /\ x.path = q /\ x.of = f
    BY DEF IsThing
  <2> HIDE DEF x
  <2>2. WithWhole(x, TRUE) = [path |-> q, of |-> f, whole |-> TRUE]
    BY <1>3, <2>1
  <2>3. QED
    BY <2>2 DEF x
<1>6. \A x \in disk : IsThing(G(x)) /\ G(x).path = x.path
  BY <1>1, <1>3 DEF IsDisk
<1>7. IsDisk(disk')
  <2> HIDE DEF G
  <2>1. IsFiniteSet(disk')
    <3> DEFINE g == [x \in disk |-> G(x)]
    <3>1. g \in Surjection(disk, disk')
      BY <1>2 DEF Surjection
    <3> HIDE DEF g
    <3>2. QED
      BY <1>1, <3>1, FS_Surjection DEF IsDisk
  <2>2. QED
    BY <1>1, <1>2, <1>6, <2>1 DEF IsDisk
<1>8. \A q : FolderAt(q) \in disk => FolderAt(q) \in disk'
  BY <1>2, <1>4
<1>9. /\ stream'[b][i].pc = "saved" /\ stream[b][i].pc = "saving"
      /\ \A c \in Batches, j \in 1..MaxCount : c # b \/ j # i => stream'[c][j] = stream[c][j]
  BY <1>1, TaskPaths DEF Moved, Becomes, Saved
<1>10. ASSUME NEW c \in Batches, NEW j \in 1..MaxCount, Started(c, j)', ~items[c][j].dir
       PROVE  \E w \in BOOLEAN :
                /\ [path |-> stream[c][j].path, of |-> <<c, j>>, whole |-> w] \in disk'
                /\ stream'[c][j].ok => w
  <2> DEFINE q == stream[c][j].path
  <2>1. Started(c, j)
    BY <1>9, <1>10 DEF Started
  <2>2. PICK w \in BOOLEAN : /\ [path |-> q, of |-> <<c, j>>, whole |-> w] \in disk
                             /\ stream[c][j].ok => w
    BY <1>1, <1>10, <2>1 DEF OnDisk, IsAt
  <2>3. CASE q = p
    <3> DEFINE x == [path |-> q, of |-> <<c, j>>, whole |-> w]
    <3>1. x \in disk /\ x.path = q /\ WithWhole(x, TRUE) = [path |-> q, of |-> <<c, j>>, whole |-> TRUE]
      BY <1>5, <2>2
    <3> HIDE DEF x
    <3>2. G(x) = [path |-> q, of |-> <<c, j>>, whole |-> TRUE]
      BY <2>3, <3>1
    <3>3. G(x) \in disk'
      BY <1>2, <3>1
    <3>4. [path |-> q, of |-> <<c, j>>, whole |-> TRUE] \in disk'
      BY <3>2, <3>3
    <3>5. QED
      BY <3>4
  <2>4. CASE q # p
    <3> DEFINE x == [path |-> q, of |-> <<c, j>>, whole |-> w]
    <3>1. x \in disk /\ x.path = q
      BY <2>2
    <3>2. c # b \/ j # i
      BY <2>4
    <3>3. stream'[c][j].ok => w
      BY <1>9, <2>2, <3>2
    <3> HIDE DEF x
    <3>4. G(x) = x
      BY <2>4, <3>1
    <3>5. x \in disk'
      BY <1>2, <3>1, <3>4
    <3>6. QED
      BY <3>3, <3>5 DEF x
  <2>5. QED
    BY <2>3, <2>4
<1>11. FilesThere(disk')
  BY <1>10 DEF FilesThere
<1>12. QED
  BY <1>7, <1>8, <1>11

(* IncomingFile::drop: what there is of the file goes, and nothing else.   *)
LEMMA SaveFailsDisk ==
    ASSUME IInv, DiskInv, NEW b \in Batches, NEW i \in 1..MaxCount, SaveFails(b, i)
    PROVE  /\ IsDisk(disk') /\ FilesThere(disk')
           /\ \A p : FolderAt(p) \in disk => FolderAt(p) \in disk'
<1> DEFINE p == stream[b][i].path
<1>1. IsDisk(disk) /\ OnDisk /\ StreamsTyped /\ SendTyped /\ items \in Manifests
  BY DEF DiskInv, IInv, Shape, SendTyped
<1>2. disk' = {x \in disk : x.path # p \/ x.of = Directory}
  BY DEF SaveFails
<1>3. disk' \subseteq disk
  BY <1>2
<1>4. IsDisk(disk')
  BY <1>1, <1>3, FS_Subset DEF IsDisk
<1>5. \A q : FolderAt(q) \in disk => FolderAt(q) \in disk'
  BY <1>2 DEF FolderAt
<1>6. /\ stream'[b][i].pc = "saved" /\ stream'[b][i].ok = FALSE /\ stream[b][i].pc = "saving"
      /\ \A c \in Batches, j \in 1..MaxCount : c # b \/ j # i => stream'[c][j] = stream[c][j]
  BY <1>1, TaskPaths DEF Moved, Becomes, SaveFails
<1>7. /\ i \in 1..Count(b)
      /\ items[b][i].dir => FolderAt(p) \in disk
      /\ ~items[b][i].dir => \E v : [path |-> p, of |-> <<b, i>>, whole |-> v] \in disk
  BY <1>1, <1>6 DEF OnDisk, IsAt, Started
<1>8. ASSUME NEW c \in Batches, NEW j \in 1..MaxCount, Started(c, j)', ~items[c][j].dir
      PROVE  \E w \in BOOLEAN :
                /\ [path |-> stream[c][j].path, of |-> <<c, j>>, whole |-> w] \in disk'
                /\ stream'[c][j].ok => w
  <2> DEFINE q == stream[c][j].path
  <2>1. c # b \/ j # i
    BY <1>6, <1>8 DEF Started
  <2>2. stream'[c][j] = stream[c][j] /\ Started(c, j)
    BY <1>6, <1>8, <2>1 DEF Started
  <2>3. j \in 1..Count(c) /\ \E w \in BOOLEAN :
          [path |-> q, of |-> <<c, j>>, whole |-> w] \in disk /\ (stream[c][j].ok => w)
    BY <1>1, <1>8, <2>2 DEF OnDisk, IsAt
  <2>4. PICK w \in BOOLEAN :
          [path |-> q, of |-> <<c, j>>, whole |-> w] \in disk /\ (stream[c][j].ok => w)
    BY <2>3
  <2>5. q # p
    <3>1. FolderAt(q) \notin disk
      BY <1>1, <2>3, <2>4, FilesApart
    <3>2. \A v : [path |-> q, of |-> <<b, i>>, whole |-> v] \notin disk
      BY <1>1, <1>7, <2>1, <2>3, <2>4, FilesApart
    <3>3. QED
      BY <1>7, <3>1, <3>2
  <2>6. [path |-> q, of |-> <<c, j>>, whole |-> w] \in disk'
    BY <1>2, <2>4, <2>5
  <2>7. QED
    BY <2>2, <2>4, <2>6
<1>9. FilesThere(disk')
  BY <1>8 DEF FilesThere
<1>10. QED
  BY <1>4, <1>5, <1>9

(* Inbox::finished reports the entries' top-level files and folders. *)
LEMMA DoneReported ==
    ASSUME IInv, DiskInv, UNCHANGED items, AnswersStay,
           NEW b \in Batches, NEW i \in 1..MaxCount, OnDone(b, i)
    PROVE  ReportedRoots'
<1>1. /\ Shape /\ SenderKnows /\ Counted /\ InboxTyped /\ SendTyped
      /\ RootsHold /\ ReportedRoots
  BY DEF IInv, ReceiverKnows, Shape, DiskInv
<1>2. \A x \in reported :
         x.roots = {SubSeq(stream'[x.batch][j].path, 1, 1) : j \in 1..Count(x.batch)}
  BY <1>1, ReportedStay
<1>3. CASE UNCHANGED reported
  BY <1>2, <1>3 DEF ReportedRoots, Count
<1>4. CASE Completes(b, i)
  <2> DEFINE new == [batch |-> b, gen |-> inbox.open[b].gen, roots |-> inbox.open[b].roots]
  <2>1. reported' = reported \cup {new} /\ new.batch = b /\ new.roots = inbox.open[b].roots
    BY <1>4 DEF Completes
  <2> HIDE DEF new
  <2>2. stream[b][i].pc = "saved"
    BY DEF OnDone
  <2>3. Done(b) \cup {i} = 1..Count(b) /\ stream[b][i].gen = inbox.open[b].gen /\ stream[b][i].ok
    BY <1>1, <1>4, <2>2, OneMore DEF Completes, SameGeneration
  <2>4. 1..Count(b) \subseteq 1..MaxCount
    BY <1>1, Counting
  <2>5. \A j \in 1..Count(b) : /\ Current(b, j)
                               /\ stream'[b][j].path = stream[b][j].path
    BY <2>2, <2>3, <2>4 DEF Done, Current, Started, AnswersStay, Answered
  <2>6. \A j \in 1..Count(b) : SubSeq(stream'[b][j].path, 1, 1) \in inbox.open[b].roots
    BY <1>1, <2>4, <2>5 DEF RootsHold, Top
  <2>7. \A r \in inbox.open[b].roots :
          \E j \in 1..Count(b) : r = SubSeq(stream'[b][j].path, 1, 1)
    BY <1>1, <2>5 DEF RootsHold, Top
  <2>8. inbox.open[b].roots = {SubSeq(stream'[b][j].path, 1, 1) : j \in 1..Count(b)}
    BY <2>6, <2>7
  <2>9. \A x \in reported' :
          x.roots = {SubSeq(stream'[x.batch][j].path, 1, 1) : j \in 1..Count(x.batch)}
    BY <1>2, <2>1, <2>8
  <2>10. QED
    BY <2>9 DEF ReportedRoots, Count
<1>5. QED
  BY <1>1, <1>3, <1>4, DoneSteps DEF CountsOne, ForAnother

NoneSaved == \A c \in Batches, j \in 1..MaxCount : stream'[c][j].ok => stream[c][j].ok

(* A step that does not touch the disk, nor starts or ends a save. *)
LEMMA UntouchedDisk ==
    ASSUME IInv, IInv', DiskInv, UNCHANGED <<items, disk>>, AnswersStay, NoneStarts, OpensStay,
           NoneSaved, UNCHANGED reported \/ ReportedRoots'
    PROVE  DiskInv'
<1>1. IsDisk(disk) /\ OnDisk /\ ReportedRoots
  BY DEF DiskInv
<1>2. IsDisk(disk') /\ \A p : FolderAt(p) \in disk => FolderAt(p) \in disk'
  BY <1>1
<1>3. FilesThere(disk')
  BY <1>1, UntouchedFiles DEF NoneSaved
<1>4. ReportedRoots'
  <2>1. CASE UNCHANGED reported
    <3>1. \A x \in reported :
             x.roots = {SubSeq(stream'[x.batch][i].path, 1, 1) : i \in 1..Count(x.batch)}
      BY <1>1, ReportedStay
    <3>2. QED
      BY <2>1, <3>1 DEF ReportedRoots, Count
  <2>2. QED
    BY <2>1
<1>5. QED
  BY <1>2, <1>3, <1>4, QuietKeeps

(* The same of a stream's task: the file is saved, or what there is goes.  *)
LEMMA TouchedDisk ==
    ASSUME IInv, IInv', DiskInv, UNCHANGED <<items, inbox, reported>>, AnswersStay, NoneStarts,
           NEW b \in Batches, NEW i \in 1..MaxCount, Saved(b, i) \/ SaveFails(b, i)
    PROVE  DiskInv'
<1>1. /\ IsDisk(disk') /\ FilesThere(disk')
      /\ \A p : FolderAt(p) \in disk => FolderAt(p) \in disk'
  BY SavedDisk, SaveFailsDisk
<1>2. OpensStay
  BY DEF OpensStay
<1>3. ReportedRoots'
  <2>1. \A x \in reported :
           x.roots = {SubSeq(stream'[x.batch][j].path, 1, 1) : j \in 1..Count(x.batch)}
    BY ReportedStay DEF DiskInv
  <2>2. QED
    BY <2>1 DEF ReportedRoots, Count
<1>4. QED
  BY <1>1, <1>2, <1>3, QuietKeeps

(* Every step keeps the entries where they are. *)
LEMMA DiskStep ==
    ASSUME IInv, IInv', DiskInv, [Next]_vars
    PROVE  DiskInv'
<1>1. /\ Goods /\ SendTyped /\ QueuesTyped /\ InboxTyped /\ StreamsTyped /\ Ahead
      /\ \A b \in Batches : send[b].index \in 1..MaxCount
  BY Counting DEF IInv, Shape, ReceiverKnows, SenderKnows
<1>2. UNCHANGED items
  BY SenderSteps DEF IInv
<1>3. UNCHANGED inbox => OpensStay
  BY DEF OpensStay
<1>4. /\ UNCHANGED stream => NoneSaved
      /\ AllStay => NoneSaved
      /\ \A b \in Batches, i \in 1..MaxCount : \A pc :
            Moved(b, i, pc, stream[b][i].ok) => NoneSaved
      /\ \A b \in Batches, i \in 1..MaxCount :
            Becomes(b, i, "header", FALSE, 0) => NoneSaved
  <2>1. UNCHANGED stream => NoneSaved
    BY DEF NoneSaved
  <2>2. AllStay => NoneSaved
    BY DEF NoneSaved, AllStay, Kept
  <2>3. ASSUME NEW b \in Batches, NEW i \in 1..MaxCount, NEW pc,
               Moved(b, i, pc, stream[b][i].ok) \/ Becomes(b, i, "header", FALSE, 0)
        PROVE  NoneSaved
    <3>1. /\ stream'[b][i].ok = stream[b][i].ok \/ stream'[b][i].ok = FALSE
          /\ \A c \in Batches, j \in 1..MaxCount : c # b \/ j # i => stream'[c][j] = stream[c][j]
      BY <2>3 DEF Moved, Becomes
    <3>2. QED
      BY <3>1 DEF NoneSaved
  <2>4. QED
    BY <2>1, <2>2, <2>3
<1>5. ASSUME ~OnFile
      PROVE  AnswersStay /\ NoneStarts
  BY <1>5, StreamsStep
<1>6. ASSUME ~OnFile, UNCHANGED <<inbox, disk, reported>>, NoneSaved
      PROVE  DiskInv'
  BY <1>2, <1>3, <1>5, <1>6, UntouchedDisk
<1>7. CASE OnFile
  <2>1. PICK b \in Batches, i \in 1..MaxCount :
          /\ stream[b][i].pc = "posted" /\ stream[b][i].ok = FALSE
          /\ i \in 1..Count(b)
          /\ \/ Moved(b, i, "gone", FALSE) /\ UNCHANGED <<inbox, disk>>
             \/ Refuses(b, i) \/ Lets(b, i)
    BY <1>7, HeaderAtHead
  <2>2. UNCHANGED reported
    BY <1>7 DEF OnFile
  <2>3. CASE Moved(b, i, "gone", FALSE) /\ UNCHANGED <<inbox, disk>>
    <3>1. AnswersStay /\ NoneStarts
      BY <1>1, <2>1, <2>3, FileAnswers
    <3>2. NoneSaved
      BY <1>4, <2>1, <2>3
    <3>3. QED
      BY <1>2, <1>3, <2>2, <2>3, <3>1, <3>2, UntouchedDisk
  <2>4. CASE Refuses(b, i)
    <3>1. /\ AnswersStay /\ NoneStarts /\ stream'[b][i].ok = FALSE
          /\ \A c \in Batches, j \in 1..MaxCount : c # b \/ j # i => stream'[c][j] = stream[c][j]
      BY <1>1, <2>1, <2>4, FileAnswers
    <3>2. inbox'.open = inbox.open /\ UNCHANGED disk
      BY <2>4 DEF Refuses, FileRefused
    <3>3. OpensStay /\ NoneSaved
      BY <3>1, <3>2 DEF OpensStay, NoneSaved
    <3>4. QED
      BY <1>2, <2>2, <3>1, <3>2, <3>3, UntouchedDisk
  <2>5. CASE Lets(b, i)
    BY <1>2, <2>1, <2>2, <2>5, LetsDisk
  <2>6. QED
    BY <2>1, <2>3, <2>4, <2>5
<1>8. ASSUME ~OnFile, NEW b \in Batches,
             ScanFails(b) \/ OpenStream(b) \/ Finish(b) \/ SendFails(b) \/ HearAnswer(b)
      PROVE  DiskInv'
  <2>1. UNCHANGED <<inbox, disk, reported>>
    BY <1>8 DEF ScanFails, OpenStream, Finish, SendFails, HearAnswer
  <2>2. ScanFails(b) => UNCHANGED stream
    BY DEF ScanFails
  <2>3. OpenStream(b) => Becomes(b, send[b].index, "header", FALSE, 0)
    BY <1>1, SenderStreams
  <2>4. Finish(b) \/ SendFails(b) \/ HearAnswer(b) => AllStay
    BY <1>1, SenderPaths
  <2>5. NoneSaved
    BY <1>1, <1>4, <1>8, <2>2, <2>3, <2>4
  <2>6. QED
    BY <1>6, <1>8, <2>1, <2>5
<1>9. ASSUME ~OnFile, NEW b \in Batches, NEW i \in 1..MaxCount, HeaderRead(b, i)
      PROVE  DiskInv'
  <2>1. UNCHANGED <<inbox, disk, reported>>
    BY <1>9 DEF HeaderRead
  <2>2. \E pc : Moved(b, i, pc, stream[b][i].ok)
    BY <1>1, <1>9, TaskPaths
  <2>3. QED
    BY <1>4, <1>6, <1>9, <2>1, <2>2
<1>10. ASSUME ~OnFile, NEW b \in Batches, NEW i \in 1..MaxCount, Saved(b, i) \/ SaveFails(b, i)
       PROVE  DiskInv'
  <2>1. UNCHANGED <<inbox, reported>>
    BY <1>10 DEF Saved, SaveFails
  <2>2. QED
    BY <1>2, <1>5, <1>10, <2>1, TouchedDisk
<1>11. ASSUME ~OnFile, NEW b \in Batches, NEW i \in 1..MaxCount, OnDone(b, i)
       PROVE  DiskInv'
  <2>1. UNCHANGED disk /\ AnswersStay /\ NoneStarts
    BY <1>5, <1>11 DEF OnDone
  <2>2. OpensStay /\ ReportedRoots'
    BY <1>1, <1>2, <1>11, <2>1, DoneOpens, DoneReported
  <2>3. NoneSaved
    BY <1>1, <1>4, <1>11, TaskPaths
  <2>4. QED
    BY <1>2, <2>1, <2>2, <2>3, UntouchedDisk
<1>12. ASSUME ~OnFile, OnCancel \/ OnLost
       PROVE  DiskInv'
  <2>1. UNCHANGED <<stream, disk, reported>>
    BY <1>12 DEF OnCancel, OnLost
  <2>2. CASE OnCancel
    <3>1. /\ events # <<>> /\ Head(events).type = "cancel"
          /\ inbox' = Cancel(inbox, Head(events).batch)
      BY <2>2 DEF OnCancel, Next1
    <3>2. Head(events) \in Events
      BY <1>1, <3>1, HeadTailProperties DEF QueuesTyped
    <3>3. PICK b \in Batches : inbox' = Cancel(inbox, b)
      BY <3>1, <3>2 DEF Events
    <3>4. Opens(inbox, inbox', b, NoBatch)
      BY <1>1, <3>3, CancelSteps DEF InboxTyped
    <3>5. OpensStay
      BY <3>4 DEF OpensStay, Opens
    <3>6. QED
      BY <1>2, <1>4, <1>5, <1>12, <2>1, <3>5, UntouchedDisk
  <2>3. CASE OnLost
    <3>1. OpensStay
      BY <1>1, <2>3, LostSteps DEF OpensStay
    <3>2. QED
      BY <1>2, <1>4, <1>5, <1>12, <2>1, <3>1, UntouchedDisk
  <2>4. QED
    BY <1>12, <2>2, <2>3
<1>13. ASSUME ~OnFile, NEW replaced \in BOOLEAN, Break(replaced)
       PROVE  DiskInv'
  <2>1. UNCHANGED <<inbox, disk, reported>>
    BY <1>13 DEF Break
  <2>2. AllStay
    BY <1>1, <1>13, BreakPaths
  <2>3. QED
    BY <1>4, <1>6, <1>13, <2>1, <2>2
<1>14. ASSUME ~OnFile, CancelRead \/ Reconnect \/ OnConnected \/ UNCHANGED vars
       PROVE  DiskInv'
  <2>1. UNCHANGED <<stream, inbox, disk, reported>>
    BY <1>14 DEF CancelRead, Reconnect, OnConnected, vars
  <2>2. QED
    BY <1>4, <1>6, <1>14, <2>1
<1>15. QED
  BY <1>7, <1>8, <1>9, <1>10, <1>11, <1>12, <1>13, <1>14, Zenon
  DEF Next, Sender, Streams, RunLoop, Connection

LEMMA DiskFirst == Init => DiskInv
<1> SUFFICES ASSUME Init PROVE DiskInv
  OBVIOUS
<1>1. disk = {} /\ reported = {}
  BY DEF Init
<1>2. \A b \in Batches : inbox.open[b] = NoBatch
  BY DEF Init
<1>3. \A b \in Batches, i \in 1..MaxCount : ~Started(b, i)
  BY DEF Init, NoStream, Started
<1>4. NoBatch.dirs = {} /\ NoBatch.roots = {}
  BY DEF NoBatch
<1>5. IsDisk(disk)
  BY <1>1, FS_EmptySet DEF IsDisk
<1>6. FoldersThere
  BY <1>2, <1>4 DEF FoldersThere, IsFolders
<1>7. RootsHold
  BY <1>2, <1>3, <1>4 DEF RootsHold, Current
<1>8. OnDisk /\ FoldersHold /\ Alike
  BY <1>3 DEF OnDisk, FoldersHold, Alike, Current
<1>9. ReportedRoots
  BY <1>1 DEF ReportedRoots
<1>10. QED
  BY <1>5, <1>6, <1>7, <1>8, <1>9 DEF DiskInv

(* What is on the receiver's disk, what its batches are of and what the    *)
(* sender has heard agree in every state, for any selections.              *)
LEMMA WholeInv == Spec => [](IInv /\ Together /\ DiskInv)
<1>1. Init => IInv /\ Together /\ DiskInv
  BY AtFirst, TogetherFirst, DiskFirst
<1>2. IInv /\ Together /\ DiskInv /\ [Next]_vars => (IInv /\ Together /\ DiskInv)'
  BY EachStep, TogetherStep, DiskStep
<1>3. QED
  BY <1>1, <1>2, PTL DEF Spec

(* A batch the sender takes for sent is on the receiver's disk, every      *)
(* file whole and at a path of its own, and two entries lie in one folder  *)
(* exactly if their names, split as safe_parts splits them, put them in    *)
(* one: for any names, twice the same among them, and any batches,         *)
(* cancellations, breaks and faults (Inbox::receive, Batch::reserve,       *)
(* IncomingFile::complete).                                                *)
THEOREM SentIsOnDisk == Spec => []SentIsSaved
<1>1. IInv /\ Together /\ DiskInv => SentIsSaved
  <2>1. SUFFICES ASSUME IInv, Together, DiskInv, NEW b \in Batches, send[b].pc = "sent"
                 PROVE  /\ \A i \in 1..Count(b) :
                             [path |-> stream[b][i].path, whole |-> TRUE,
                              of |-> IF items[b][i].dir THEN Directory ELSE <<b, i>>] \in disk
                        /\ KeepsShape(b)
    BY DEF SentIsSaved
  <2>2. /\ SendTyped /\ items \in Manifests /\ Before /\ SentAll /\ Ahead /\ Goods
        /\ OnDisk /\ Alike /\ OneGeneration
    BY <2>1 DEF IInv, Shape, SenderKnows, ReceiverKnows, Together, DiskInv, SendTyped
  <2>3. 1..Count(b) \subseteq 1..MaxCount /\ Count(b) \in Nat /\ send[b].index = Count(b)
    BY <2>1, <2>2, Counting DEF SentAll
  <2>4. \A i \in 1..Count(b) : stream[b][i].ok
    <3>1. \A i \in 1..Count(b) : i < send[b].index \/ i = send[b].index
      BY <2>3
    <3>2. QED
      BY <2>1, <2>2, <2>3, <3>1 DEF Before, IsSaved
  <2>5. Good(b)
    <3>1. ASSUME NEW i \in 1..MaxCount, stream[b][i].pc \in {"saved", "over"}
          PROVE  stream[b][i].ok
      <4>1. i > Count(b) => stream[b][i].pc = "none"
        BY <2>2, <2>3 DEF Ahead
      <4>2. i \in 1..Count(b)
        BY <2>3, <3>1, <4>1, SizesAssumption
      <4>3. QED
        BY <2>4, <4>2
    <3>2. QED
      BY <2>1, <3>1 DEF Good
  <2>6. \A i \in 1..Count(b) : IsAt(disk, b, i, stream[b][i].path, stream[b][i].ok)
    BY <2>2, <2>3, <2>4 DEF OnDisk, Started
  <2>7. ASSUME NEW i \in 1..Count(b)
        PROVE  [path |-> stream[b][i].path, whole |-> TRUE,
                of |-> IF items[b][i].dir THEN Directory ELSE <<b, i>>] \in disk
    <3> DEFINE p == stream[b][i].path
    <3>1. IsAt(disk, b, i, p, stream[b][i].ok) /\ stream[b][i].ok
      BY <2>4, <2>6
    <3>2. items[b][i].dir \in BOOLEAN
      BY <2>2, NamesAre
    <3>3. CASE items[b][i].dir
      <4>1. FolderAt(p) \in disk
        BY <3>1, <3>3 DEF IsAt
      <4>2. QED
        BY <3>3, <4>1 DEF FolderAt
    <3>4. CASE ~items[b][i].dir
      <4>1. PICK w \in BOOLEAN : [path |-> p, of |-> <<b, i>>, whole |-> w] \in disk /\ w
        BY <3>1, <3>4 DEF IsAt
      <4>2. [path |-> p, of |-> <<b, i>>, whole |-> TRUE] \in disk
        BY <4>1
      <4>3. QED
        BY <3>4, <4>2
    <3>5. QED
      BY <3>3, <3>4
  <2>8. \A i, j \in 1..Count(b) : AlikePair(b, i, j)
    <3>1. \A i, j \in 1..Count(b) : stream[b][i].gen = stream[b][j].gen
      BY <2>2, <2>3, <2>4, <2>5 DEF OneGeneration, Started
    <3>2. QED
      BY <2>2, <2>3, <2>4, <3>1 DEF Alike, Started
  <2>9. KeepsShape(b)
    BY <2>8 DEF KeepsShape, AlikePair, AlikePaths
  <2>10. QED
    BY <2>7, <2>9
<1>2. QED
  BY <1>1, WholeInv, PTL

(* What the receiver reports of a batch is whole: every entry was saved    *)
(* for it, under the generation that was reported, and its roots are the   *)
(* top-level files and folders of just these entries, whatever batch of    *)
(* the name was called off before (Inbox::finished, Batch::reserve).       *)
THEOREM ReportedWhole == Spec => []ReportedIsWhole
<1>1. IInv /\ Together /\ DiskInv => ReportedIsWhole
  BY DEF IInv, ReceiverKnows, Reported, DiskInv, ReportedIsWhole, ReportedAreSaved
<1>2. QED
  BY <1>1, WholeInv, PTL

-----------------------------------------------------------------------------
(***************************************************************************)
(* Types: what the parts of the invariant above leave open of them.        *)
(***************************************************************************)
StreamPcs == {"none", "header", "posted", "gone", "saving", "saved", "over"}
Datas == {"flowing", "whole", "cut", "maybe"}

StreamKinds ==
    \A b \in Batches, i \in 1..MaxCount :
        stream[b][i].pc \in StreamPcs /\ stream[b][i].data \in Datas

IndexKinds == \A b \in Batches : inbox.open[b].indices \subseteq 1..Count(b)

RestKinds ==
    /\ Len(inbox.cancelled) <= MaxHistory
    /\ up \in BOOLEAN /\ known \in BOOLEAN /\ heard \subseteq Batches

Kinds == StreamKinds /\ IndexKinds /\ RestKinds

(* The bytes of an entry change only where a step says so. *)
LEMMA DataStays ==
    ASSUME NEW s, IsEntry(s)
    PROVE  /\ \A pc : At(s, pc).data = s.data
           /\ \A data : WithData(s, data).data = data
           /\ \A yes : WithHeard(s, yes).data = s.data
           /\ \A ok \in BOOLEAN : Answer(s, ok).data = s.data
           /\ \A gen \in Nat : Refuse(s, gen).data = s.data
           /\ \A gen \in Nat : \A path : Starts(s, gen, path).data = s.data
<1>1. /\ \A pc : At(s, pc).data = s.data
      /\ \A data : WithData(s, data).data = data
      /\ \A yes : WithHeard(s, yes).data = s.data
  BY DEF IsEntry, At, WithData, WithHeard
<1>2. \A pc : IsEntry(At(s, pc))
  BY EntrySteps DEF Is
<1>3. \A t : IsEntry(t) => /\ \A ok \in BOOLEAN : WithOk(t, ok).data = t.data
                           /\ \A gen \in Nat : WithGen(t, gen).data = t.data
                           /\ \A path : WithPath(t, path).data = t.data
  BY DEF IsEntry, WithOk, WithGen, WithPath
<1>4. \A ok \in BOOLEAN : Answer(s, ok).data = s.data
  BY <1>1, <1>2, <1>3 DEF Answer
<1>5. \A gen \in Nat : Refuse(s, gen).data = s.data
  BY <1>1, <1>2, <1>3 DEF Refuse
<1>6. ASSUME NEW gen \in Nat, NEW path
      PROVE  Starts(s, gen, path).data = s.data
  <2> DEFINE t == At(s, "saving")
  <2>1. IsEntry(t) /\ t.data = s.data
    BY <1>1, <1>2
  <2> HIDE DEF t
  <2>2. IsEntry(WithGen(t, gen)) /\ WithGen(t, gen).data = s.data
    BY <1>3, <2>1, EntrySteps DEF Is
  <2>3. WithPath(WithGen(t, gen), path).data = s.data
    BY <1>3, <2>2
  <2>4. QED
    BY <2>3 DEF Starts, t
<1>7. QED
  BY <1>1, <1>4, <1>5, <1>6

(* A step of one entry's stream, by what it makes of it. *)
LEMMA OneKind ==
    ASSUME StreamsTyped, StreamKinds, NEW b \in Batches, NEW i \in 1..MaxCount, NEW g,
           g.pc \in StreamPcs, g.data \in Datas, stream' = [stream EXCEPT ![b][i] = g]
    PROVE  StreamKinds'
<1>1. stream'[b][i] = g
  BY DEF StreamsTyped
<1>2. \A c \in Batches, j \in 1..MaxCount : c # b \/ j # i => stream'[c][j] = stream[c][j]
  BY DEF StreamsTyped
<1>3. QED
  BY <1>1, <1>2 DEF StreamKinds

(* The sender's steps, but a break: one stream opens, or its bytes go on. *)
LEMMA SenderKinds ==
    ASSUME StreamsTyped, StreamKinds, SendTyped, NEW b \in Batches,
           ScanFails(b) \/ OpenStream(b) \/ Finish(b) \/ SendFails(b) \/ HearAnswer(b)
    PROVE  StreamKinds'
<1> DEFINE i == send[b].index
           s == stream[b][i]
<1>1. i \in 1..MaxCount
  BY Counting
<1>2. IsEntry(s) /\ s.pc \in StreamPcs /\ s.data \in Datas
  BY <1>1 DEF StreamsTyped, StreamKinds
<1>3. CASE ScanFails(b)
  BY <1>3 DEF ScanFails, StreamKinds
<1>4. CASE OpenStream(b)
  <2>1. stream' = [stream EXCEPT ![b][i] = At(NoStream, "header")]
    BY <1>4, Zenon DEF OpenStream, At
  <2>2. IsEntry(NoStream) /\ NoStream.data = "flowing"
    BY NewEntry DEF Is, NoStream
  <2> DEFINE g == At(NoStream, "header")
  <2>3. g.pc = "header" /\ g.data = "flowing"
    BY <2>2, DataStays, NewEntry DEF Is
  <2>4. g.pc \in StreamPcs /\ g.data \in Datas
    BY <2>3 DEF StreamPcs, Datas
  <2> HIDE DEF g, i
  <2>5. QED
    BY <1>1, <2>1, <2>4, OneKind DEF g
<1>5. CASE Finish(b) \/ SendFails(b)
  <2>1. PICK data \in Datas : stream' = [stream EXCEPT ![b][i] = WithData(s, data)]
    <3>1. Finish(b) => stream' = [stream EXCEPT ![b][i] = WithData(s, "whole")]
      BY Zenon DEF Finish, WithData
    <3>2. SendFails(b) =>
            stream' = [stream EXCEPT ![b][i] =
                         WithData(s, IF s.data = "flowing" THEN "cut" ELSE s.data)]
      BY Zenon DEF SendFails, WithData
    <3> HIDE DEF s
    <3>3. "whole" \in Datas /\ (IF s.data = "flowing" THEN "cut" ELSE s.data) \in Datas
      BY <1>2 DEF Datas
    <3>4. QED
      BY <1>5, <3>1, <3>2, <3>3
  <2> HIDE DEF s
  <2>2. WithData(s, data).pc = s.pc /\ WithData(s, data).data = data
    BY <1>2, DataStays, EntrySteps DEF Is
  <2>3. QED
    BY <1>1, <1>2, <2>1, <2>2, OneKind
<1>6. CASE HearAnswer(b)
  <2>1. stream' = [stream EXCEPT ![b][i] = WithHeard(s, TRUE)]
    BY <1>6, Zenon DEF HearAnswer, WithHeard
  <2> HIDE DEF s
  <2>2. WithHeard(s, TRUE).pc = s.pc /\ WithHeard(s, TRUE).data = s.data
    <3>1. Is(WithHeard(s, TRUE), s.pc, s.ok, s.gen) /\ WithHeard(s, TRUE).data = s.data
      BY <1>2, DataStays, EntrySteps
    <3>2. QED
      BY <3>1 DEF Is
  <2>3. QED
    BY <1>1, <1>2, <2>1, <2>2, OneKind
<1>7. QED
  BY <1>3, <1>4, <1>5, <1>6

(* The steps of a stream's task, and of the run loop that hears of it. *)
LEMMA TaskKinds ==
    ASSUME StreamsTyped, StreamKinds, NEW b \in Batches, NEW i \in 1..MaxCount,
           HeaderRead(b, i) \/ Saved(b, i) \/ SaveFails(b, i) \/ OnDone(b, i)
    PROVE  StreamKinds'
<1> DEFINE s == stream[b][i]
<1>1. IsEntry(s) /\ s.data \in Datas
  BY DEF StreamsTyped, StreamKinds
<1>2. \/ \E pc \in {"posted", "gone", "over"} : stream' = [stream EXCEPT ![b][i] = At(s, pc)]
      \/ \E ok \in BOOLEAN : stream' = [stream EXCEPT ![b][i] = Answer(s, ok)]
  <2>1. HeaderRead(b, i) => \/ stream' = [stream EXCEPT ![b][i] = At(s, "posted")]
                            \/ stream' = [stream EXCEPT ![b][i] = At(s, "gone")]
    BY Zenon DEF HeaderRead, At
  <2>2. Saved(b, i) => stream' = [stream EXCEPT ![b][i] = Answer(s, TRUE)]
    BY Zenon DEF Saved, At, WithOk, Answer
  <2>3. SaveFails(b, i) => stream' = [stream EXCEPT ![b][i] = Answer(s, FALSE)]
    BY Zenon DEF SaveFails, At, WithOk, Answer
  <2>4. OnDone(b, i) => stream' = [stream EXCEPT ![b][i] = At(s, "over")]
    BY Zenon DEF OnDone, At
  <2> HIDE DEF s
  <2>5. QED
    BY <2>1, <2>2, <2>3, <2>4
<1> HIDE DEF s
<1>3. ASSUME NEW pc \in {"posted", "gone", "over"}, stream' = [stream EXCEPT ![b][i] = At(s, pc)]
      PROVE  StreamKinds'
  <2>1. At(s, pc).pc \in StreamPcs /\ At(s, pc).data \in Datas
    BY <1>1, DataStays, EntrySteps DEF Is, StreamPcs
  <2>2. QED
    BY <1>3, <2>1, OneKind
<1>4. ASSUME NEW ok \in BOOLEAN, stream' = [stream EXCEPT ![b][i] = Answer(s, ok)]
      PROVE  StreamKinds'
  <2>1. Answer(s, ok).pc \in StreamPcs /\ Answer(s, ok).data \in Datas
    BY <1>1, DataStays, EntrySaves DEF Is, StreamPcs
  <2>2. QED
    BY <1>4, <2>1, OneKind
<1>5. QED
  BY <1>2, <1>3, <1>4

(* A break leaves every stream where it is, its bytes cut or uncertain. *)
LEMMA BreakKinds ==
    ASSUME StreamsTyped, StreamKinds, NEW replaced, Break(replaced)
    PROVE  StreamKinds'
<1> DEFINE D(s) == CASE s.data = "flowing" -> "cut"
                     [] s.data = "whole"   -> "maybe"
                     [] OTHER              -> s.data
           W(s) == WithData(s, D(s))
<1>1. stream' = [b \in Batches |-> [i \in 1..MaxCount |-> W(stream[b][i])]]
  BY Zenon DEF Break, WithData
<1>2. \A s : s.data \in Datas => D(s) \in Datas
  BY DEF Datas
<1> HIDE DEF D
<1>3. ASSUME NEW b \in Batches, NEW i \in 1..MaxCount
      PROVE  W(stream[b][i]).pc = stream[b][i].pc /\ W(stream[b][i]).data \in Datas
  <2>1. IsEntry(stream[b][i]) /\ stream[b][i].data \in Datas
    BY DEF StreamsTyped, StreamKinds
  <2>2. QED
    BY <1>2, <2>1, DataStays, EntrySteps DEF Is
<1> HIDE DEF W
<1>4. \A b \in Batches, i \in 1..MaxCount : stream'[b][i] = W(stream[b][i])
  BY <1>1
<1>5. QED
  BY <1>3, <1>4 DEF StreamKinds

(* What a batch that an entry joins, or one of which an entry is done, has *)
(* as indices.                                                             *)
LEMMA EnteredIndices ==
    ASSUME NEW x, IsBatch(x)
    PROVE  /\ \A indices, dirs, roots : Entered(x, indices, dirs, roots).indices = indices
           /\ \A done : WithDone(x, done).indices = x.indices
<1>1. ASSUME NEW indices, NEW dirs, NEW roots
      PROVE  Entered(x, indices, dirs, roots).indices = indices
  <2> DEFINE y == WithIndices(x, indices)
             z == WithDirs(y, dirs)
  <2>1. /\ y = [gen |-> y.gen, done |-> y.done, indices |-> y.indices,
                dirs |-> y.dirs, roots |-> y.roots]
        /\ y.indices = indices
    BY DEF IsBatch, WithIndices
  <2> HIDE DEF y
  <2>2. /\ z = [gen |-> z.gen, done |-> z.done, indices |-> z.indices,
                dirs |-> z.dirs, roots |-> z.roots]
        /\ z.indices = indices
    BY <2>1 DEF WithDirs
  <2> HIDE DEF z
  <2>3. WithRoots(z, roots).indices = indices
    BY <2>2 DEF WithRoots
  <2>4. QED
    BY <2>3 DEF Entered, y, z
<1>2. \A done : WithDone(x, done).indices = x.indices
  BY DEF IsBatch, WithDone
<1>3. QED
  BY <1>1, <1>2

(* Inbox::receive: a stream moves on, and a batch may have one more index. *)
LEMMA FileKinds ==
    ASSUME IInv, Kinds, OnFile
    PROVE  StreamKinds' /\ IndexKinds'
<1> DEFINE b == Head(events).batch
           i == Head(events).index
           s == stream[b][i]
           x == Joined(b)
           made == Reserve(x, disk, b, i)
           joins == Entered(x, x.indices \cup {i}, made.dirs, made.roots)
           mid == BoxOpen(inbox, b, joins)
           gen == IF inbox.open[b] = NoBatch THEN inbox.gen + 1 ELSE inbox.gen
<1>1. StreamsTyped /\ InboxTyped /\ SendTyped /\ StreamKinds /\ IndexKinds /\ Ahead
  BY DEF IInv, Shape, SenderKnows, Kinds
<1>2. b \in Batches /\ i \in 1..MaxCount /\ s.pc = "posted"
  <2>1. events # <<>> /\ events \in Seq(Events) /\ Head(events).type = "file"
    BY DEF IInv, Shape, QueuesTyped, OnFile, Next1
  <2>2. Head(events) = events[1] /\ 1 \in DOMAIN events /\ Head(events) \in Events
    BY <2>1, HeadTailProperties
  <2>3. s.pc = "posted"
    BY <2>1, <2>2 DEF IInv, Posted
  <2>4. QED
    BY <2>1, <2>2, <2>3 DEF Events
<1> HIDE DEF b, i
<1>3. IsEntry(s) /\ s.data \in Datas
  BY <1>1, <1>2 DEF StreamsTyped, StreamKinds
<1>4. i \in 1..Count(b)
  <2>1. ~(i > send[b].index)
    BY <1>1, <1>2 DEF Ahead
  <2>2. QED
    BY <1>1, <1>2, <2>1, Counting
<1>5. IsBatch(x) /\ x.gen \in Nat /\ x.indices \subseteq 1..Count(b)
  <2>1. IsBatch(x)
    BY <1>1, <1>2, JoinedIs
  <2>2. OfGen(NoBatch, inbox.gen + 1).indices = {}
    BY DEF OfGen, NoBatch
  <2>3. x.indices \subseteq 1..Count(b)
    BY <1>1, <1>2, <2>2 DEF Joined, IndexKinds
  <2>4. QED
    BY <2>1, <2>3 DEF IsBatch
<1>6. inbox.open[b].gen \in Nat /\ inbox.gen + 1 \in Nat /\ gen \in Nat /\ IsInbox(inbox)
  <2>1. IsInbox(inbox) /\ inbox.gen \in Nat /\ IsBatch(inbox.open[b])
    BY <1>1, <1>2 DEF InboxTyped, IsInbox
  <2>2. QED
    BY <2>1 DEF IsBatch
<1>7. UNCHANGED items
  BY DEF OnFile
<1>8. CASE ~known
  <2>1. stream' = [stream EXCEPT ![b][i] = At(s, "gone")] /\ UNCHANGED inbox
    BY <1>8, Zenon DEF OnFile, At, b, i
  <2> HIDE DEF s
  <2>2. At(s, "gone").pc = "gone" /\ At(s, "gone").data = s.data
    BY <1>3, DataStays, EntrySteps DEF Is
  <2>3. StreamKinds'
    <3>1. At(s, "gone").pc \in StreamPcs /\ At(s, "gone").data \in Datas
      BY <1>3, <2>2 DEF StreamPcs
    <3>2. QED
      BY <1>1, <1>2, <2>1, <3>1, OneKind
  <2>4. QED
    BY <1>1, <1>7, <2>1, <2>3 DEF IndexKinds, Count
<1>9. CASE known /\ Rejects(b, i)
  <2>1. stream' = [stream EXCEPT ![b][i] = Refuse(s, inbox.open[b].gen)]
    BY <1>9, Zenon DEF OnFile, At, WithGen, Refuse, b, i
  <2>2. inbox' = BoxGen(inbox, inbox.gen + 1) \/ inbox' = inbox
    BY <1>9, Zenon DEF OnFile, BoxGen, b, i
  <2> HIDE DEF s
  <2> DEFINE g == Refuse(s, inbox.open[b].gen)
             new == BoxGen(inbox, inbox.gen + 1)
  <2>3. g.pc \in StreamPcs /\ g.data \in Datas
    <3>1. Is(g, "saved", s.ok, inbox.open[b].gen) /\ g.data = s.data
      BY <1>3, <1>6, DataStays, EntrySaves
    <3> HIDE DEF g
    <3>2. QED
      BY <1>3, <3>1 DEF Is, StreamPcs
  <2>4. StreamKinds'
    <3> HIDE DEF g
    <3>1. stream' = [stream EXCEPT ![b][i] = g]
      BY <2>1 DEF g
    <3>2. QED
      BY <1>1, <1>2, <2>3, <3>1, OneKind
  <2>5. inbox'.open = inbox.open
    <3>1. new.open = inbox.open
      BY <1>6, BoxSteps
    <3> HIDE DEF new
    <3>2. QED
      BY <2>2, <3>1 DEF new
  <2>6. QED
    BY <1>1, <1>7, <2>4, <2>5 DEF IndexKinds, Count
<1>10. CASE known /\ ~Rejects(b, i)
  <2>1. stream' = [stream EXCEPT ![b][i] = Starts(s, x.gen, made.path)]
    BY <1>10, Zenon DEF OnFile, At, WithGen, WithPath, Starts, Joined, OfGen, b, i
  <2>2. inbox' = BoxGen(mid, gen)
    BY <1>10, Zenon DEF OnFile, BoxOpen, BoxGen, Entered, WithIndices, WithDirs, WithRoots,
                        Joined, OfGen, b, i
  <2> HIDE DEF s, x, made
  <2> DEFINE g == Starts(s, x.gen, made.path)
  <2>3. g.pc \in StreamPcs /\ g.data \in Datas
    <3>1. Is(g, "saving", s.ok, x.gen) /\ g.data = s.data
      BY <1>3, <1>5, DataStays, EntrySaves
    <3> HIDE DEF g
    <3>2. QED
      BY <1>3, <3>1 DEF Is, StreamPcs
  <2>4. StreamKinds'
    <3> HIDE DEF g
    <3>1. stream' = [stream EXCEPT ![b][i] = g]
      BY <2>1 DEF g
    <3>2. QED
      BY <1>1, <1>2, <2>3, <3>1, OneKind
  <2>5. joins.indices = x.indices \cup {i} /\ IsBatch(joins)
    <3>1. \A indices, dirs, roots : Entered(x, indices, dirs, roots).indices = indices
      BY <1>5, EnteredIndices
    <3>2. \A indices, dirs, roots : IsBatch(Entered(x, indices, dirs, roots))
      BY <1>5, BatchSteps DEF Counts
    <3>3. QED
      BY <3>1, <3>2, Zenon
  <2> HIDE DEF joins
  <2>6. Opens(inbox, mid, b, joins)
    BY <1>2, <1>6, <2>5, BoxSteps
  <2> HIDE DEF mid, gen
  <2>7. inbox'.open = mid.open
    BY <1>6, <2>2, <2>6, BoxSteps DEF Opens
  <2>8. \A c \in Batches : inbox'.open[c].indices \subseteq 1..Count(c)
    BY <1>1, <1>4, <1>5, <2>5, <2>6, <2>7 DEF Opens, IndexKinds
  <2>9. QED
    BY <1>7, <2>4, <2>8 DEF IndexKinds, Count
<1>11. QED
  BY <1>8, <1>9, <1>10

(* Inbox::finished and failed leave a batch its indices, or close it. *)
LEMMA DoneKinds ==
    ASSUME InboxTyped, IndexKinds, NEW b \in Batches, NEW i \in 1..MaxCount, OnDone(b, i)
    PROVE  IndexKinds'
<1> DEFINE batch == inbox.open[b]
           x == WithDone(batch, batch.done + 1)
<1>1. IsBatch(batch) /\ IsInbox(inbox) /\ batch.done + 1 \in Nat
  BY DEF InboxTyped, IsInbox, IsBatch
<1>2. \/ inbox' = BoxOpen(inbox, b, NoBatch)
      \/ inbox' = BoxOpen(inbox, b, x)
      \/ UNCHANGED inbox
      \/ inbox' = Cancel(inbox, b)
  BY Zenon DEF OnDone, BoxOpen, WithDone
<1>3. x.indices = batch.indices /\ IsBatch(x)
  BY <1>1, BatchSteps, EnteredIndices DEF Counts
<1>4. IsBatch(NoBatch) /\ NoBatch.indices = {}
  BY EmptyBatch DEF Counts, NoBatch
<1> HIDE DEF x
<1>5. \A c \in Batches : inbox'.open[c].indices \subseteq inbox.open[c].indices
  <2>1. CASE inbox' = BoxOpen(inbox, b, NoBatch) \/ inbox' = Cancel(inbox, b)
    <3>1. Opens(inbox, inbox', b, NoBatch)
      BY <1>1, <1>4, <2>1, BoxSteps, CancelSteps
    <3>2. QED
      BY <1>4, <3>1 DEF Opens
  <2>2. CASE inbox' = BoxOpen(inbox, b, x)
    <3>1. Opens(inbox, inbox', b, x)
      BY <1>1, <1>3, <2>2, BoxSteps
    <3>2. QED
      BY <1>3, <3>1 DEF Opens
  <2>3. QED
    BY <1>2, <2>1, <2>2
<1>6. UNCHANGED items
  BY DEF OnDone
<1>7. QED
  BY <1>5, <1>6 DEF IndexKinds, Count

(* The list of cancelled batches never grows longer than MaxHistory. *)
LEMMA HistoryHolds ==
    ASSUME NEW s \in Seq(Batches), Len(s) <= MaxHistory, NEW b \in Batches
    PROVE  Len(Forgetting(s, b)) <= MaxHistory
<1>1. MaxHistory \in Nat /\ MaxHistory >= 1 /\ Len(s) \in Nat
  BY FilesAssumption
<1>2. Longer(s, b) \in Seq(Batches) /\ Len(Longer(s, b)) \in {Len(s), Len(s) + 1}
  BY DEF Longer
<1> DEFINE l == Longer(s, b)
<1> HIDE DEF l
<1>3. CASE Len(l) > MaxHistory
  <2>1. l # <<>> /\ l \in Seq(Batches)
    BY <1>1, <1>2, <1>3, EmptySeq DEF l
  <2>2. Len(Tail(l)) = Len(l) - 1
    BY <2>1, HeadTailProperties
  <2>3. QED
    BY <1>1, <1>2, <1>3, <2>2 DEF Forgetting, l
<1>4. CASE ~(Len(l) > MaxHistory)
  BY <1>1, <1>2, <1>4 DEF Forgetting, l
<1>5. QED
  BY <1>3, <1>4

(* Every step keeps what the types ask beside the invariant. *)
LEMMA KindsStep ==
    ASSUME IInv, Kinds, [Next]_vars
    PROVE  Kinds'
<1>1. /\ StreamsTyped /\ InboxTyped /\ SendTyped /\ QueuesTyped
      /\ StreamKinds /\ IndexKinds /\ RestKinds
      /\ inbox.cancelled \in Seq(Batches)
  BY DEF IInv, Shape, Kinds, InboxTyped, IsInbox
<1>2. ASSUME UNCHANGED <<items, inbox>> PROVE IndexKinds'
  BY <1>1, <1>2 DEF IndexKinds, Count
<1>3. ASSUME UNCHANGED <<up, known, heard>>, inbox'.cancelled = inbox.cancelled
      PROVE  RestKinds'
  BY <1>1, <1>3 DEF RestKinds
<1>4. ASSUME NEW b \in Batches,
             ScanFails(b) \/ OpenStream(b) \/ Finish(b) \/ SendFails(b) \/ HearAnswer(b)
      PROVE  Kinds'
  <2>1. UNCHANGED <<items, up, inbox, known, heard>>
    BY <1>4 DEF ScanFails, OpenStream, Finish, SendFails, HearAnswer
  <2>2. StreamKinds'
    BY <1>1, <1>4, SenderKinds
  <2>3. QED
    BY <1>2, <1>3, <2>1, <2>2 DEF Kinds
<1>5. ASSUME NEW b \in Batches, NEW i \in 1..MaxCount,
             HeaderRead(b, i) \/ Saved(b, i) \/ SaveFails(b, i)
      PROVE  Kinds'
  <2>1. UNCHANGED <<items, up, inbox, known, heard>>
    BY <1>5 DEF HeaderRead, Saved, SaveFails
  <2>2. StreamKinds'
    BY <1>1, <1>5, TaskKinds
  <2>3. QED
    BY <1>2, <1>3, <2>1, <2>2 DEF Kinds
<1>6. ASSUME NEW b \in Batches, NEW i \in 1..MaxCount, OnDone(b, i)
      PROVE  Kinds'
  <2>1. UNCHANGED <<up, known, heard>>
    BY <1>6 DEF OnDone
  <2>2. \/ inbox'.cancelled = inbox.cancelled
        \/ inbox'.cancelled = Forgetting(inbox.cancelled, b)
    BY <1>1, <1>6, DoneSteps DEF Completes, CountsOne, ForAnother, Closes
  <2>3. RestKinds'
    BY <1>1, <2>1, <2>2, HistoryHolds DEF RestKinds
  <2>4. QED
    BY <1>1, <1>6, <2>3, TaskKinds, DoneKinds DEF Kinds
<1>7. CASE OnFile
  <2>1. Head(events).batch \in Batches /\ Head(events).index \in 1..MaxCount
    <3>1. Head(events) \in Events /\ Head(events).type = "file"
      BY <1>1, <1>7, HeadTailProperties DEF QueuesTyped, OnFile, Next1
    <3>2. QED
      BY <3>1 DEF Events
  <2>2. inbox'.cancelled = inbox.cancelled
    BY <1>1, <1>7, <2>1, FileSteps DEF FileGone, FileRefused, FileStarts
  <2>3. UNCHANGED <<up, known, heard>>
    BY <1>7 DEF OnFile
  <2>4. QED
    BY <1>3, <1>7, <2>2, <2>3, FileKinds DEF Kinds
<1>8. CASE OnCancel
  <2>1. PICK b \in Batches : inbox' = Cancel(inbox, b) /\ heard' = heard \cup {b}
    <3>1. Head(events) \in Events /\ Head(events).type = "cancel"
      BY <1>1, <1>8, HeadTailProperties DEF QueuesTyped, OnCancel, Next1
    <3>2. Head(events).batch \in Batches
      BY <3>1 DEF Events
    <3>3. QED
      BY <1>8, <3>2 DEF OnCancel
  <2>2. UNCHANGED <<items, stream, up, known>>
    BY <1>8 DEF OnCancel
  <2>3. /\ Opens(inbox, inbox', b, NoBatch)
        /\ inbox'.cancelled = Forgetting(inbox.cancelled, b)
    BY <1>1, <2>1, CancelSteps DEF InboxTyped
  <2>4. NoBatch.indices = {}
    BY DEF NoBatch
  <2>5. IndexKinds'
    BY <1>1, <2>2, <2>3, <2>4 DEF IndexKinds, Opens, Count
  <2>6. RestKinds'
    BY <1>1, <2>1, <2>2, <2>3, HistoryHolds DEF RestKinds
  <2>7. QED
    BY <1>1, <2>2, <2>5, <2>6 DEF Kinds, StreamKinds
<1>9. CASE OnLost
  <2>1. UNCHANGED <<items, stream, up>> /\ known' = FALSE /\ heard' = {}
    BY <1>9 DEF OnLost
  <2>2. (\A b \in Batches : inbox'.open[b] = NoBatch) /\ inbox'.cancelled = <<>>
    BY <1>1, <1>9, LostSteps
  <2>3. NoBatch.indices = {}
    BY DEF NoBatch
  <2>4. IndexKinds'
    BY <2>2, <2>3 DEF IndexKinds
  <2>5. Len(inbox'.cancelled) = 0 /\ MaxHistory \in Nat
    BY <2>2, EmptySeq, FilesAssumption
  <2>6. RestKinds'
    <3>1. up' \in BOOLEAN
      BY <1>1, <2>1 DEF RestKinds
    <3>2. Len(inbox'.cancelled) <= MaxHistory
      BY <2>5
    <3>3. known' \in BOOLEAN /\ heard' \subseteq Batches
      BY <2>1
    <3>4. QED
      BY <3>1, <3>2, <3>3 DEF RestKinds
  <2>7. QED
    BY <1>1, <2>1, <2>4, <2>6 DEF Kinds, StreamKinds
<1>10. ASSUME NEW replaced \in BOOLEAN, Break(replaced)
       PROVE  Kinds'
  <2>1. UNCHANGED <<items, inbox, known, heard>> /\ up' = replaced
    BY <1>10 DEF Break
  <2>2. RestKinds'
    BY <1>1, <1>10, <2>1 DEF RestKinds
  <2>3. QED
    BY <1>1, <1>2, <1>10, <2>1, <2>2, BreakKinds DEF Kinds
<1>11. CASE CancelRead \/ Reconnect \/ OnConnected \/ UNCHANGED vars
  <2>1. UNCHANGED <<items, stream, inbox, heard>> /\ up' \in {up, TRUE} /\ known' \in {known, TRUE}
    BY <1>11 DEF CancelRead, Reconnect, OnConnected, vars
  <2>2. RestKinds'
    BY <1>1, <2>1 DEF RestKinds
  <2>3. QED
    BY <1>1, <1>2, <2>1, <2>2 DEF Kinds, StreamKinds
<1>12. QED
  BY <1>4, <1>5, <1>6, <1>7, <1>8, <1>9, <1>10, <1>11, Zenon
  DEF Next, Sender, Streams, RunLoop, Connection

(* No two entries of a disk have one path. *)
LEMMA PathsApart ==
    ASSUME NEW d, IsDisk(d)
    PROVE  Cardinality(Taken(d)) = Cardinality(d)
<1> DEFINE f == [x \in d |-> x.path]
<1>1. f \in [d -> Taken(d)]
  BY DEF Taken
<1>2. \A p \in Taken(d) : \E x \in d : f[x] = p
  BY DEF Taken
<1>3. \A x, y \in d : f[x] = f[y] => x = y
  BY DEF IsDisk
<1>4. f \in Bijection(d, Taken(d))
  BY <1>1, <1>2, <1>3 DEF Bijection, Injection, Surjection, IsInjective
<1>5. ExistsBijection(d, Taken(d)) /\ IsFiniteSet(d)
  BY <1>4 DEF ExistsBijection, IsDisk
<1>6. QED
  BY <1>5, FS_Bijection

(* Senders, streams, the inbox with its history, and the disk keep their   *)
(* types, for any batches and any history: an entry is counted, and its    *)
(* index noted, only if the batch has it, no two things on disk have one   *)
(* path, and no more cancelled batches are kept than there is room for     *)
(* (Batch, Inbox, PendingBatch).                                           *)
THEOREM Types == Spec => []TypeOK
<1>1. Init => Kinds
  <2>1. SUFFICES ASSUME Init PROVE Kinds
    OBVIOUS
  <2>2. StreamKinds
    BY <2>1 DEF Init, NoStream, StreamKinds, StreamPcs, Datas
  <2>3. IndexKinds
    BY <2>1 DEF Init, NoBatch, IndexKinds
  <2>4. Len(inbox.cancelled) = 0 /\ MaxHistory \in Nat
    BY <2>1, EmptySeq, FilesAssumption DEF Init
  <2>5. RestKinds
    BY <2>1, <2>4 DEF Init, RestKinds
  <2>6. QED
    BY <2>2, <2>3, <2>5 DEF Kinds
<1>2. IInv /\ Kinds /\ [Next]_vars => Kinds'
  BY KindsStep
<1>3. IInv /\ Kinds /\ DiskInv => TypeOK
  <2>1. SUFFICES ASSUME IInv, Kinds, DiskInv PROVE TypeOK
    OBVIOUS
  <2>2. StreamsTyped /\ InboxTyped /\ SendTyped /\ Goods /\ Counted
    BY <2>1 DEF IInv, Shape, ReceiverKnows
  <2>3. ASSUME NEW b \in Batches
        PROVE  /\ send[b].pc \in {"new", "sending", "waiting", "next", "sent", "failed"}
               /\ send[b].index \in 1..Count(b)
    BY <2>2 DEF SendTyped
  <2>4. ASSUME NEW b \in Batches, NEW i \in 1..MaxCount
        PROVE  stream[b][i].gen \in 0..inbox.gen
    <3>1. IsEntry(stream[b][i]) /\ stream[b][i].gen <= inbox.gen /\ inbox.gen \in Nat
      BY <2>2 DEF StreamsTyped, Goods, InboxTyped, IsInbox
    <3>2. QED
      BY <3>1 DEF IsEntry
  <2>5. ASSUME NEW b \in Batches
        PROVE  inbox.open[b].done \in 0..Count(b)
    <3>1. IsFiniteSet(1..Count(b)) /\ Cardinality(1..Count(b)) = Count(b)
      <4>1. Count(b) \in Nat
        BY <2>2, Counting
      <4>2. \A n \in Nat : IsFiniteSet(1..n) /\ Cardinality(1..n) = n
        BY FS_Interval
      <4>3. QED
        BY <4>1, <4>2
    <3>2. Done(b) \subseteq 1..Count(b)
      BY DEF Done
    <3>3. Cardinality(Done(b)) <= Count(b)
      BY <3>1, <3>2, FS_Subset
    <3>4. inbox.open[b].done = Cardinality(Done(b)) /\ Cardinality(Done(b)) \in Nat
      BY <2>2, DoneFinite DEF Counted
    <3>5. QED
      BY <2>2, <3>3, <3>4, Counting
  <2>6. Cardinality(Taken(disk)) = Cardinality(disk)
    BY <2>1, PathsApart DEF DiskInv
  <2>7. Range(inbox.cancelled) \subseteq Batches
    BY <2>2 DEF InboxTyped, IsInbox, Range
  <2>8. items \in Manifests
    BY <2>2 DEF SendTyped
  <2>9. StreamKinds /\ IndexKinds /\ RestKinds
    BY <2>1 DEF Kinds
  <2>10. QED
    BY <2>3, <2>4, <2>5, <2>6, <2>7, <2>8, <2>9
    DEF TypeOK, StreamKinds, IndexKinds, RestKinds, StreamPcs, Datas
<1>4. QED
  BY <1>1, <1>2, <1>3, WholeInv, PTL DEF Spec
=============================================================================
