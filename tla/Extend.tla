------------------------------- MODULE Extend -------------------------------
(***************************************************************************)
(* A Mac's extra display, shown in a window of another machine: who shows  *)
(* what, and who is told (legato-engine/src/extend.rs, the Extend messages *)
(* of run.rs, and the viewer window of legato-app/src/main.rs).            *)
(*                                                                         *)
(* On the viewer the app and the engine's run loop talk through a queue of *)
(* commands and a broadcast of statuses; each track is decoded on a thread *)
(* of its own, which publishes pictures only while its viewing is open.    *)
(* The Mac's run loop starts and stops one Host.  Control messages between *)
(* two machines are ordered; a video stream is not ordered with them.      *)
(*                                                                         *)
(* How pictures become frames is in Stream; one track is enough here.      *)
(***************************************************************************)
EXTENDS Integers, Sequences, FiniteSets, VideoSize

CONSTANTS
    Viewers, Macs,
    None,
    Areas,          \* sizes of a viewer's window, from one to the next
    Settings,       \* [extend] of legato.toml
    MaxOpens,       \* bound: displays asked for, by each viewer
    MaxTroubles,    \* bound: kinds of failure that happen, once each
    MaxEvents       \* bound: new sizes of a window, pictures, cursors: together

ASSUME ExtendAssumption ==
    /\ None \notin Viewers \cup Macs
    /\ {MaxOpens, MaxTroubles, MaxEvents} \subseteq Nat
    /\ Len(Areas) > MaxEvents

VARIABLES
    app,        \* [Viewers -> the viewer window, and handles of windows to come]
    commands,   \* [Viewers -> commands the run loop has not handled]
    ended,      \* [Viewers -> ExtendEnded statuses the app has not handled]
    pc,         \* [Viewers -> the run loop: viewing, window, portal, generation]
    output,     \* [Viewers -> the picture and the cursor its window draws]
    host,       \* [Macs -> the display it shows elsewhere, and to whom, or None]
    link,       \* [Viewers \X Macs -> which ends know that they are connected]
    toMac,      \* [Viewers \X Macs -> control messages]
    toPc,       \* [Viewers \X Macs -> control messages]
    streams,    \* video streams: what is on them, and who decodes them
    troubles,   \* what has failed: a display, its size, a decoder, a connection
    left        \* events still to come

vars == <<app, commands, ended, pc, output, host, link, toMac, toPc,
          streams, troubles, left>>

ui == <<app, commands, ended>>
net == <<link, toMac, toPc>>

Pairs == Viewers \X Macs
Connected == [up |-> TRUE, pc |-> TRUE, mac |-> TRUE]
Dark == [picture |-> 0, pts |-> 0, newest |-> 0, cursor |-> "arrow"]
NoViewer == [peer |-> None, win |-> 0, asked |-> 0]

Trouble(kind) ==
    /\ kind \notin troubles /\ Cardinality(troubles) < MaxTroubles
    /\ troubles' = troubles \cup {kind}

Spend == left > 0 /\ left' = left - 1

Init ==
    /\ app = [v \in Viewers |-> [viewer |-> NoViewer, win |-> 0, handles |-> <<>>]]
    /\ commands = [v \in Viewers |-> <<>>]
    /\ ended = [v \in Viewers |-> <<>>]
    /\ pc = [v \in Viewers |-> [viewing |-> None, window |-> 0, portal |-> None, gen |-> 0]]
    /\ output = [v \in Viewers |-> Dark]
    /\ host = [m \in Macs |-> None]
    /\ link = [p \in Pairs |-> Connected]
    /\ toMac = [p \in Pairs |-> <<>>]
    /\ toPc = [p \in Pairs |-> <<>>]
    /\ streams = {}
    /\ troubles = {}
    /\ left = MaxEvents

Up(v, m) == link[<<v, m>>].up

(* The Extend messages of Control.  Where a display is matters no more than  *)
(* that it was said; a cursor unknown to both is an arrow.                 *)
RequestMsg(gen, size) == [kind |-> "request", gen |-> gen, size |-> size]
ExtendedMsg(gen, size) == [kind |-> "extended", gen |-> gen, size |-> size]
CursorMsg(gen, shape) == [kind |-> "cursor", gen |-> gen, shape |-> shape]
StopMsg == [kind |-> "stop"]
ResizeMsg(size) == [kind |-> "resize", size |-> size]
ArrangeMsg == [kind |-> "arrange"]

(* A message on a connection that is already lost goes nowhere. *)
Sent(queues, v, m, msg) ==
    IF Up(v, m) THEN [queues EXCEPT ![<<v, m>>] = Append(@, msg)] ELSE queues

-----------------------------------------------------------------------------
(* The app of viewer v. *)

Command(v, cmds) == commands' = [commands EXCEPT ![v] = @ \o cmds]

(* Mutant: a closed window is just closed. *)
ClosingWindow(v) == <<[cmd |-> "window", win |-> 0], [cmd |-> "area", area |-> 0]>>

Closing(v) == <<[cmd |-> "window", win |-> 0], [cmd |-> "area", area |-> 0],
                [cmd |-> "stop", to |-> app[v].viewer.peer]>>

(* App::start_display: a window, and a display as large.                   *)
StartDisplay(v, m, before) ==
    LET win == app[v].win + 1 IN
    /\ win <= MaxOpens
    /\ Command(v, Append(before, [cmd |-> "extend", to |-> m, size |-> 1]))
    /\ app' = [app EXCEPT ![v] =
                 [viewer |-> [peer |-> m, win |-> win, asked |-> 1],
                  win |-> win, handles |-> Append(@.handles, win)]]

ShowDisplay(v, m) ==
    /\ app[v].viewer = NoViewer
    /\ StartDisplay(v, m, <<>>)
    /\ UNCHANGED <<ended, pc, output, host, net, streams, troubles, left>>

(* New options while it is shown: start over (DisplayOptionsDone). *)
ShowAgain(v, m) ==
    /\ app[v].viewer # NoViewer
    /\ StartDisplay(v, m, Closing(v))
    /\ UNCHANGED <<ended, pc, output, host, net, streams, troubles, left>>

WindowClosed(v) ==
    /\ app[v].viewer # NoViewer
    /\ Command(v, Closing(v))
    /\ app' = [app EXCEPT ![v].viewer = NoViewer]
    /\ UNCHANGED <<ended, pc, output, host, net, streams, troubles, left>>

(* ViewerOpened has asked for the window's handle: the run loop gets it. *)
ViewerHandle(v) ==
    /\ app[v].handles # <<>>
    /\ Command(v, <<[cmd |-> "window", win |-> Head(app[v].handles)]>>)
    /\ app' = [app EXCEPT ![v].handles = Tail(@)]
    /\ UNCHANGED <<ended, pc, output, host, net, streams, troubles, left>>

(* The window has stayed put where it is, at the size it had or another. *)
ViewerSettled(v) ==
    /\ app[v].viewer # NoViewer
    /\ Spend
    /\ LET viewer == app[v].viewer IN
       \E size \in {viewer.asked, viewer.asked + 1} :
          /\ Command(v, <<[cmd |-> "area", area |-> size]>> \o
                        (IF size = viewer.asked THEN <<>>
                         ELSE <<[cmd |-> "resize", to |-> viewer.peer, size |-> size]>>))
          /\ app' = [app EXCEPT ![v].viewer.asked = size]
    /\ UNCHANGED <<ended, pc, output, host, net, streams, troubles>>

(* The app hears that a display went away, and closes the window. *)
ExtendEnded(v) ==
    /\ ended[v] # <<>>
    /\ ended' = [ended EXCEPT ![v] = Tail(@)]
    /\ IF app[v].viewer.peer = Head(ended[v])
       THEN /\ app' = [app EXCEPT ![v].viewer = NoViewer]
            /\ Command(v, <<[cmd |-> "window", win |-> 0]>>)
       ELSE UNCHANGED <<app, commands>>
    /\ UNCHANGED <<pc, output, host, net, streams, troubles, left>>

-----------------------------------------------------------------------------
(* The run loop of viewer v. *)

Viewed(v, m) == pc[v].viewing # None /\ pc[v].viewing.peer = m

(* set_portal: input over the window's picture goes to the Mac.            *)
Portal(viewing, win) ==
    IF viewing = None \/ win = 0 THEN None
    ELSE IF viewing.bounds = 0 THEN None
    ELSE [peer |-> viewing.peer, remote |-> viewing.bounds, window |-> win]

WithPortal(v, viewing, win) ==
    [pc[v] EXCEPT !.viewing = viewing, !.window = win, !.portal = Portal(viewing, win)]

(* Mutant: the placement is asked for whenever the display reports itself. *)
PlacementAlways(viewing, win) ==
    IF viewing = None \/ viewing.bounds = 0 \/ viewing.area = 0 THEN None
    ELSE [area |-> viewing.area, bounds |-> viewing.bounds, window |-> win]

(* Viewing::arrangement: where the Mac should have the display, if that    *)
(* has not been said already.                                              *)
Placement(viewing, win) ==
    IF viewing = None THEN None
    ELSE LET placement == [area |-> viewing.area, bounds |-> viewing.bounds, window |-> win]
         IN  IF viewing.bounds = 0 \/ viewing.area = 0 \/ viewing.arranged = placement
             THEN None ELSE placement

Arranged(v, viewing) ==
    LET placement == Placement(viewing, pc[v].window) IN
    IF placement = None THEN viewing ELSE [viewing EXCEPT !.arranged = placement]

Arrange(v, viewing) ==
    toMac' = IF Placement(viewing, pc[v].window) = None THEN toMac
             ELSE Sent(toMac, v, viewing.peer, ArrangeMsg)

(* A generation is never used twice. *)
NextGen(v) == pc[v].gen + 1

(* RunCommand::Extend. *)
OnExtend(v, to, size) ==
    LET old == pc[v].viewing
        gen == NextGen(v)
        stopped == IF old = None THEN toMac
                   ELSE IF old.peer = to THEN toMac
                   ELSE Sent(toMac, v, old.peer, StopMsg)
        new == [peer |-> to, gen |-> gen, bounds |-> 0, area |-> 0, arranged |-> None]
    IN  IF link[<<v, to>>].pc
        THEN /\ toMac' = Sent(stopped, v, to, RequestMsg(gen, size))
             /\ pc' = [pc EXCEPT ![v] = [WithPortal(v, new, @.window) EXCEPT !.gen = gen]]
             /\ output' = [output EXCEPT ![v] = Dark]
             /\ UNCHANGED ended
        ELSE /\ ended' = [ended EXCEPT ![v] = Append(@, to)]
             /\ UNCHANGED <<toMac, pc, output>>

OnStopExtend(v, to) ==
    IF Viewed(v, to)
    THEN /\ toMac' = Sent(toMac, v, to, StopMsg)
         /\ pc' = [pc EXCEPT ![v] = WithPortal(v, None, @.window)]
         /\ output' = [output EXCEPT ![v] = Dark]
    ELSE UNCHANGED <<toMac, pc, output>>

OnResize(v, to, size) ==
    IF Viewed(v, to)
    THEN toMac' = Sent(toMac, v, to, ResizeMsg(size))
    ELSE UNCHANGED toMac

OnArea(v, area) ==
    IF pc[v].viewing = None THEN UNCHANGED <<toMac, pc>>
    ELSE LET viewing == [pc[v].viewing EXCEPT !.area = area]
         IN  /\ Arrange(v, viewing)
             /\ pc' = [pc EXCEPT ![v].viewing = Arranged(v, viewing)]

OnCommand(v) ==
    LET c == Head(commands[v]) IN
    /\ commands[v] # <<>>
    /\ commands' = [commands EXCEPT ![v] = Tail(@)]
    /\ \/ c.cmd = "extend" /\ OnExtend(v, c.to, c.size)
       \/ c.cmd = "stop" /\ OnStopExtend(v, c.to) /\ UNCHANGED ended
       \/ c.cmd = "resize" /\ OnResize(v, c.to, c.size) /\ UNCHANGED <<pc, output, ended>>
       \/ c.cmd = "area" /\ OnArea(v, c.area) /\ UNCHANGED <<output, ended>>
       \/ /\ c.cmd = "window"
          /\ pc' = [pc EXCEPT ![v] = WithPortal(v, @.viewing, c.win)]
          /\ UNCHANGED <<toMac, output, ended>>
    /\ UNCHANGED <<app, host, link, toPc, streams, troubles, left>>

(* Viewing::matches. *)
Matches(v, m, gen) == Viewed(v, m) /\ pc[v].viewing.gen = gen

OnExtended(v, m, msg) ==
    IF ~Matches(v, m, msg.gen) THEN UNCHANGED <<pc, toMac>>
    ELSE LET viewing == [pc[v].viewing EXCEPT !.bounds = msg.size]
         IN  /\ Arrange(v, viewing)
             /\ pc' = [pc EXCEPT ![v] = WithPortal(v, Arranged(v, viewing), @.window)]

OnCursorShape(v, m, msg) ==
    output' = IF Matches(v, m, msg.gen)
              THEN [output EXCEPT ![v].cursor = msg.shape] ELSE output

(* Mutant: the app is told, and will say that it stops. *)
EndTold(v, m) ==
    /\ ended' = IF Viewed(v, m) THEN [ended EXCEPT ![v] = Append(@, m)] ELSE ended
    /\ UNCHANGED <<pc, output>>

(* The viewing ends: its outputs go dark, and the app is told (ExtendStop,  *)
(* Disconnected).                                                          *)
EndViewing(v, m) ==
    IF Viewed(v, m)
    THEN /\ pc' = [pc EXCEPT ![v] = WithPortal(v, None, @.window)]
         /\ output' = [output EXCEPT ![v] = Dark]
         /\ ended' = [ended EXCEPT ![v] = Append(@, m)]
    ELSE UNCHANGED <<pc, output, ended>>

PcHears(v, m) ==
    LET msg == Head(toPc[<<v, m>>]) IN
    /\ toPc[<<v, m>>] # <<>>
    /\ toPc' = [toPc EXCEPT ![<<v, m>>] = Tail(@)]
    /\ \/ msg.kind = "extended" /\ OnExtended(v, m, msg) /\ UNCHANGED <<output, ended, link>>
       \/ msg.kind = "cursor" /\ OnCursorShape(v, m, msg) /\ UNCHANGED <<pc, toMac, ended, link>>
       \/ msg.kind = "stop" /\ EndViewing(v, m) /\ UNCHANGED <<toMac, link>>
       \/ /\ msg.kind = "lost" /\ EndViewing(v, m)
          /\ link' = [link EXCEPT ![<<v, m>>].pc = FALSE]
          /\ UNCHANGED toMac
    /\ UNCHANGED <<app, commands, host, streams, troubles, left>>

(* SessionEvent::Video: a stream is decoded for whatever is viewed of that  *)
(* Mac now, or else let go.                                                *)
StreamArrives(s) ==
    /\ s \in streams /\ s.showing = 0
    /\ streams' = IF Viewed(s.viewer, s.mac)
                  THEN (streams \ {s}) \cup {[s EXCEPT !.showing = pc[s.viewer].viewing.gen]}
                  ELSE streams \ {s}
    /\ UNCHANGED <<ui, pc, output, host, net, troubles, left>>

-----------------------------------------------------------------------------
(* A decoder thread of a viewer. *)

Open(s) == pc[s.viewer].viewing # None /\ pc[s.viewer].viewing.gen = s.showing

(* Showing::show: the newest by timestamp, while the viewing is open.      *)
Show(s, f) ==
    IF ~Open(s) THEN output
    ELSE IF f.pts > output[s.viewer].pts
    THEN [output EXCEPT ![s.viewer] = [@ EXCEPT !.picture = f.at, !.pts = f.pts,
                                       !.newest = IF f.at > @ THEN f.at ELSE @]]
    ELSE [output EXCEPT ![s.viewer].newest = IF f.at > @ THEN f.at ELSE @]

Decode(s) ==
    /\ s \in streams /\ s.showing # 0 /\ s.frames # <<>>
    /\ output' = Show(s, Head(s.frames))
    /\ streams' = (streams \ {s}) \cup {[s EXCEPT !.frames = Tail(@)]}
    /\ UNCHANGED <<ui, pc, host, net, troubles, left>>

(* The stream has ended and all of it is decoded, or its viewing is over.  *)
DecodeEnds(s) ==
    /\ s \in streams /\ s.showing # 0
    /\ (s.done /\ s.frames = <<>>) \/ ~Open(s)
    /\ streams' = streams \ {s}
    /\ UNCHANGED <<ui, pc, output, host, net, troubles, left>>

(* No decoder can be set up: the thread tells the Mac to stop.             *)
DecoderFails(s) ==
    /\ s \in streams /\ s.showing # 0 /\ Open(s)
    /\ Trouble("decoder")
    /\ toMac' = Sent(toMac, s.viewer, s.mac, StopMsg)
    /\ streams' = streams \ {s}
    /\ UNCHANGED <<ui, pc, output, host, link, toPc, left>>

-----------------------------------------------------------------------------
(* The Mac. *)

Hosting(v, m) == host[m] # None /\ host[m].viewer = v

(* A host that stops has sent what it has sent. *)
Finished(m) == {[s EXCEPT !.done = @ \/ s.mac = m] : s \in streams}

Report(v, m, h) == Sent(toPc, v, m, ExtendedMsg(h.gen, h.size))

(* Host::start. *)
NewHost(v, msg) ==
    [viewer |-> v, gen |-> msg.gen, size |-> msg.size, pts |-> 0, said |-> FALSE]

(* macOS makes no display, or none of that mode.                           *)
NoDisplay == Trouble("display")

(* The display does not switch to the mode.                                *)
NoSuchMode == Trouble("size")

(* Control::ExtendRequest: the display it had goes, whoever it was for.    *)
OnRequest(v, m, msg) ==
    /\ streams' = Finished(m)
    /\ \/ /\ host' = [host EXCEPT ![m] = NewHost(v, msg)]
          /\ toPc' = Report(v, m, host'[m])
          /\ UNCHANGED troubles
       \/ /\ NoDisplay
          /\ host' = [host EXCEPT ![m] = None]
          /\ toPc' = Sent(toPc, v, m, StopMsg)

(* Host::reconfigure, which may fail and then changes nothing.             *)
OnHostResize(v, m, msg) ==
    /\ IF ~Hosting(v, m) THEN UNCHANGED <<host, toPc, troubles>>
       ELSE \/ /\ host' = [host EXCEPT ![m].size = msg.size]
               /\ toPc' = Report(v, m, host'[m])
               /\ UNCHANGED troubles
            \/ NoSuchMode /\ UNCHANGED <<host, toPc>>
    /\ UNCHANGED streams

(* Host::arrange: the display is moved, and says where it is.              *)
OnArrange(v, m) ==
    /\ toPc' = IF Hosting(v, m) THEN Report(v, m, host[m]) ELSE toPc
    /\ UNCHANGED <<host, streams, troubles>>

(* Host::stop, for ExtendStop or Disconnected. *)
StopHost(v, m) ==
    /\ IF Hosting(v, m)
       THEN host' = [host EXCEPT ![m] = None] /\ streams' = Finished(m)
       ELSE UNCHANGED <<host, streams>>
    /\ UNCHANGED <<toPc, troubles>>

MacHears(v, m) ==
    LET msg == Head(toMac[<<v, m>>]) IN
    /\ toMac[<<v, m>>] # <<>>
    /\ toMac' = [toMac EXCEPT ![<<v, m>>] = Tail(@)]
    /\ \/ msg.kind = "request" /\ OnRequest(v, m, msg) /\ UNCHANGED link
       \/ msg.kind = "resize" /\ OnHostResize(v, m, msg) /\ UNCHANGED link
       \/ msg.kind = "arrange" /\ OnArrange(v, m) /\ UNCHANGED link
       \/ msg.kind = "stop" /\ StopHost(v, m) /\ UNCHANGED link
       \/ /\ msg.kind = "lost" /\ StopHost(v, m)
          /\ link' = [link EXCEPT ![<<v, m>>].mac = FALSE]
    /\ UNCHANGED <<ui, pc, output, left>>

(* A picture is sent (send_track); the first opens the track's stream.     *)
SendPicture(m) ==
    /\ host[m] # None
    /\ Up(host[m].viewer, m)
    /\ Spend
    /\ LET h == host[m]
           f == [at |-> MaxEvents - left + 1, pts |-> h.pts + 1]
           mine == {s \in streams : s.mac = m /\ s.viewer = h.viewer /\ s.gen = h.gen /\ ~s.done}
       IN  /\ host' = [host EXCEPT ![m].pts = @ + 1]
           /\ streams' = (streams \ mine) \cup
                IF h.pts > 0 THEN {[s EXCEPT !.frames = Append(@, f)] : s \in mine}
                ELSE {[mac |-> m, viewer |-> h.viewer, gen |-> h.gen, showing |-> 0,
                       frames |-> <<f>>, done |-> FALSE]}
    /\ UNCHANGED <<ui, pc, output, net, troubles>>

(* mirror_cursor: the pointer over the display has another shape than the   *)
(* one it had last; here it changes once.                                  *)
MirrorCursor(m) ==
    /\ host[m] # None
    /\ ~host[m].said
    /\ Spend
    /\ host' = [host EXCEPT ![m].said = TRUE]
    /\ toPc' = Sent(toPc, host[m].viewer, m, CursorMsg(host[m].gen, "hand"))
    /\ UNCHANGED <<ui, pc, output, link, toMac, streams, troubles>>

-----------------------------------------------------------------------------
(* The connection breaks; each end finds out, and it comes back. *)

LinkFails(v, m) ==
    /\ Up(v, m)
    /\ Trouble("connection")
    /\ toMac' = [toMac EXCEPT ![<<v, m>>] = <<[kind |-> "lost"]>>]
    /\ toPc' = [toPc EXCEPT ![<<v, m>>] = <<[kind |-> "lost"]>>]
    /\ link' = [link EXCEPT ![<<v, m>>].up = FALSE]
    /\ streams' = {[s EXCEPT !.done = @ \/ (s.mac = m /\ s.viewer = v)] :
                     s \in {t \in streams : t.showing # 0 \/ t.mac # m \/ t.viewer # v}}
    /\ UNCHANGED <<ui, pc, output, host, left>>

Reconnect(v, m) ==
    /\ ~link[<<v, m>>].pc /\ ~link[<<v, m>>].mac
    /\ link' = [link EXCEPT ![<<v, m>>] = Connected]
    /\ UNCHANGED <<ui, pc, output, host, toMac, toPc, streams, troubles, left>>

-----------------------------------------------------------------------------

App(v) == ViewerHandle(v) \/ ExtendEnded(v)

User(v) == \/ WindowClosed(v) \/ ViewerSettled(v)
           \/ \E m \in Macs : ShowDisplay(v, m) \/ ShowAgain(v, m)

(* What the loops and threads do with what they were given. *)
Work ==
    \/ \E v \in Viewers : App(v) \/ OnCommand(v)
    \/ \E s \in streams : StreamArrives(s) \/ Decode(s) \/ DecodeEnds(s)
    \/ \E v \in Viewers, m \in Macs : PcHears(v, m) \/ MacHears(v, m) \/ Reconnect(v, m)

Next ==
    \/ Work
    \/ \E v \in Viewers : User(v)
    \/ \E m \in Macs : SendPicture(m) \/ MirrorCursor(m)
    \/ \E s \in streams : DecoderFails(s)
    \/ \E v \in Viewers, m \in Macs : LinkFails(v, m)

Spec == Init /\ [][Next]_vars

(* Some loop or thread goes on as long as any has something to do; nothing is *)
(* assumed of which, nor of users and failures.                               *)
FairSpec == Spec /\ WF_vars(Work)

-----------------------------------------------------------------------------

(* Nothing is left to handle, and nobody acts. *)
Quiet ==
    /\ \A s \in streams : s.showing # 0 /\ Open(s) /\ s.frames = <<>> /\ ~s.done
    /\ \A v \in Viewers : commands[v] = <<>> /\ ended[v] = <<>> /\ app[v].handles = <<>>
    /\ \A p \in Pairs : toMac[p] = <<>> /\ toPc[p] = <<>> /\ link[p].up

TypeOK ==
    /\ \A v \in Viewers :
         /\ app[v].viewer.peer \in Macs \cup {None}
         /\ pc[v].viewing = None \/ pc[v].viewing.gen \in 1..pc[v].gen
         /\ pc[v].gen <= MaxOpens
         /\ output[v].picture \in 0..MaxEvents
    /\ \A m \in Macs : host[m] = None \/ host[m].viewer \in Viewers
    /\ \A s \in streams : s.showing \in 0..MaxOpens

(* Once all is said, a viewer that shows a display is the one the Mac shows *)
(* it to, at the size asked for, with the Mac's cursor, whatever was opened,  *)
(* closed, resized, lost or refused before.  Not so when a decoder could not  *)
(* be set up or a size was refused, or another viewer asked for a display:    *)
(* the one it takes it from is not told, nor when it lets go of it.           *)
ViewedIsHosted ==
    \A v \in Viewers, m \in Macs :
        Quiet /\ Viewed(v, m) /\ troubles \cap {"size", "decoder"} = {} =>
            \/ \E w \in Viewers \ {v} : app[w].win > 0
            \/ /\ Hosting(v, m)
               /\ host[m].gen = pc[v].viewing.gen
               /\ pc[v].viewing.bounds = host[m].size
               /\ app[v].viewer.peer = m => host[m].size = app[v].viewer.asked
               /\ host[m].said => output[v].cursor = "hand"

(* What the app says one will see, and what the Mac makes of its request.     *)
Notes == [area \in DOMAIN Areas |-> [s \in Settings |-> StreamNote(s, Areas[area])]]
Made == [area \in DOMAIN Areas |->
            [s \in Settings |-> StreamConfig(RequestFor(s, Areas[area]))]]

Fits(size) == size \in {NoSize, UsableSize(size)}

(* ... and then it is as fast and as sharp as the viewer's app said it would  *)
(* be.  A size scaled down to less than a display may have is not as said.    *)
SeenAsTold ==
    \A v \in Viewers, m \in Macs : \A s \in Settings :
        Quiet /\ Hosting(v, m) /\ app[v].viewer.peer = m /\ troubles = {} =>
            LET note == Notes[app[v].viewer.asked][s]
                made == Made[host[m].size][s]
            IN  /\ made.fps = note.fps
                /\ Fits(note.still) => made.stream = note.still
                /\ Fits(note.still) /\ Fits(note.moving) => made.moving = note.moving

(* Once all is said, a Mac shows a display only to a viewer with a window for *)
(* it, if none ever failed to be added and no connection was lost.            *)
HostedIsViewed ==
    \A v \in Viewers, m \in Macs :
        Quiet /\ Hosting(v, m) /\ troubles \cap {"display", "connection"} = {} =>
            Viewed(v, m) /\ app[v].viewer.peer = m

(* It all comes to rest: a viewer and a Mac that answer each other do not go  *)
(* on for ever (Viewing::arrangement, Host::arrange).                         *)
ComesToRest == <>[]Quiet

(* The picture shown is the newest of those decoded for the viewing (extend.rs: *)
(* "The viewer shows whichever track's picture is newest").                     *)
NewestIsShown == \A v \in Viewers : output[v].picture = output[v].newest
=============================================================================
