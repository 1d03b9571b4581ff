------------------------------ MODULE AppShell ------------------------------
(***************************************************************************)
(* What surrounds the monitor: the order in which main starts its parts    *)
(* and how it ends, the menu bar item (internal/tray) with its queue of    *)
(* clicks and its animation, and the bridge to macOS notifications         *)
(* (internal/notify).                                                      *)
(*                                                                         *)
(* Cocoa works through its main queue of blocks on the main thread, where  *)
(* menu items are clicked as well; handleEvents, which takes one click     *)
(* after the other, and animate run beside it; the answers to requests     *)
(* for notifications come on threads of macOS.                             *)
(***************************************************************************)
EXTENDS Integers, Sequences, SequencesExt

CONSTANTS MaxSends,   \* bound: calls of notify.Send
          ClickCap,   \* capacity of menuClickCh
          MaxBlocks,  \* bound: blocks in the main queue
          Scenarios   \* bound: the items that are clicked and the calls of Send in a behaviour

ASSUME BoundsAssumption == MaxSends \in Nat /\ ClickCap \in Nat /\ MaxBlocks \in Nat

VARIABLES scenario,   \* the one of this behaviour
          main,       \* how far main has come
          engine,     \* the variable has been assigned
          cancelled,  \* the context is done
          blocks,     \* Cocoa's main queue
          clicks,     \* menuClickCh
          handler,    \* where handleEvents is
          animateIcon,  \* the setting
          saved,      \* the setting in the user defaults
          login,      \* whether macOS starts the program at login
          seen,       \* what getLaunchAtLogin said last
          outside,    \* login was changed in System Settings since: no code knows
          checked,    \* the marks of the two menu items
          turning, lastAnimating,  \* of animate: smoothedVel and angle are not 0
          tilted,     \* the icon on the screen is not upright
          sending, sender,  \* the state of the newest call of Send, and its number
          pending,    \* the requests in the table
          done,       \* the request whose answer is in the channel of each, or 0
          macOS,      \* how far macOS is with each request
          result      \* the request whose answer Send is about to return, or 0

starting  == <<scenario, main, engine>>
settings  == <<animateIcon, saved, login, seen, outside>>
menu      == <<clicks, handler, settings, checked>>
animation == <<turning, lastAnimating, tilted>>
bridge    == <<sending, sender, pending, done, macOS, result>>
vars      == <<starting, cancelled, blocks, menu, animation, bridge>>

Sends    == 1 .. MaxSends
Items    == {"open", "animate", "launch", "quit"}

Running == main = "loop"
Block(what, value) == [what |-> what, value |-> value]
Dispatch(block) == blocks' = Append(blocks, block)

Init ==
  /\ scenario \in Scenarios
  /\ main = "start" /\ engine = FALSE /\ cancelled = FALSE
  /\ blocks = << >> /\ clicks = << >> /\ handler = "none"
  /\ animateIcon = FALSE /\ saved \in BOOLEAN
  /\ login \in BOOLEAN /\ seen = FALSE /\ outside = FALSE
  /\ checked = [animate |-> FALSE, launch |-> FALSE]
  /\ turning = FALSE /\ lastAnimating = TRUE /\ tilted = FALSE
  /\ sending = "idle" /\ sender = 0 /\ pending = {}
  /\ done = [s \in Sends |-> 0] /\ macOS = [s \in Sends |-> "idle"] /\ result = 0

-----------------------------------------------------------------------------
(* main *)

\* The settings, for which there are defaults, and the database, which must open.
OpenStores ==
  /\ main = "start" /\ main' \in {"opened", "exited"}
  /\ UNCHANGED <<scenario, engine, cancelled, blocks, menu, animation, bridge>>

\* From now on macOS may queue what the user does with notifications.
InitNotify ==
  /\ main = "opened" /\ main' = "notified"
  /\ UNCHANGED <<scenario, engine, cancelled, blocks, menu, animation, bridge>>

\* alerts.New, and the goroutines that are started after it.
NewEngine ==
  /\ main = "notified"
  /\ \/ main' = "started" /\ engine' = TRUE
     \/ main' = "exited" /\ UNCHANGED engine
  /\ UNCHANGED <<scenario, cancelled, blocks, menu, animation, bridge>>

\* getLaunchAtLogin.
ReadLogin == seen' = login /\ outside' = FALSE /\ UNCHANGED login

\* Tray.Run.
RunLoop ==
  /\ main' = "loop" /\ handler' = "select"
  /\ animateIcon' = saved /\ ReadLogin
  /\ checked' = [animate |-> saved, launch |-> seen']
  /\ UNCHANGED <<scenario, engine, cancelled, blocks, clicks, saved, animation, bridge>>

\* Mutant: the run loop starts before the engine is made.
RunEarly == main \in {"notified", "started"} /\ RunLoop

Run ==
  \/ main = "started" /\ RunLoop
  \/ /\ main = "started" /\ main' = "exited"     \* the icon cannot be drawn
     /\ UNCHANGED <<scenario, engine, cancelled, blocks, menu, animation, bridge>>

\* A signal, or the server could not listen.
Cancel ==
  /\ main \in {"started", "loop"} /\ cancelled' = TRUE
  /\ UNCHANGED <<starting, blocks, menu, animation, bridge>>

\* The block that runs next; terminate: does not return.
RunBlock ==
  /\ Running /\ blocks # << >> /\ blocks' = Tail(blocks)
  /\ LET block == Head(blocks)
     IN  /\ main' = IF block.what = "terminate" THEN "exited" ELSE main
         /\ checked' = IF block.what \in {"animate", "launch"}
                       THEN [checked EXCEPT ![block.what] = block.value] ELSE checked
  /\ UNCHANGED <<scenario, engine, cancelled, clicks, handler, settings, animation, bridge>>

\* The user picks "Don't Alert for This App" on a notification, perhaps of an
\* earlier run of the program; action calls engine.Ignore in a goroutine.  (The
\* bound leaves room for the blocks of handleEvents.)
PickIgnore ==
  /\ main \notin {"start", "opened", "exited"} /\ Len(blocks) + 1 < MaxBlocks
  /\ Dispatch(Block("ignore", TRUE))
  /\ UNCHANGED <<starting, cancelled, menu, animation, bridge>>

-----------------------------------------------------------------------------
(* internal/tray *)

\* onMenuItemClicked drops the click if the channel is full.
Click(item) ==
  /\ Running /\ item \in scenario.items
  /\ clicks' = IF Len(clicks) < ClickCap THEN Append(clicks, item) ELSE clicks
  /\ UNCHANGED <<starting, cancelled, blocks, handler, settings, checked, animation, bridge>>

\* The user, or macOS, changes the login item in System Settings.
ChangeLogin ==
  /\ Running /\ login' = ~login /\ outside' = TRUE
  /\ UNCHANGED <<starting, cancelled, blocks, clicks, handler, animateIcon, saved, seen, checked,
                 animation, bridge>>

\* A step of handleEvents.
Handle(from, to) ==
  /\ Running /\ handler = from /\ handler' = to
  /\ UNCHANGED <<starting, checked, animation, bridge>>

\* Mutant: a done context is not noticed.
SeeNothing == FALSE /\ UNCHANGED vars

SeeCancel ==
  /\ Handle("select", "ended") /\ cancelled
  /\ Dispatch(Block("terminate", TRUE))
  /\ UNCHANGED <<cancelled, clicks, settings>>

\* The next click is received, and what follows before anybody can see it.
Take(item, to) ==
  /\ Handle("select", to)
  /\ clicks # << >> /\ Head(clicks) = item /\ clicks' = Tail(clicks)

\* The command `open` is waited for.
TakeOpen    == Take("open", "opening") /\ UNCHANGED <<cancelled, blocks, settings>>
OpenReturns == Handle("opening", "select") /\ UNCHANGED <<cancelled, blocks, clicks, settings>>

\* The icon obeys at once, the mark when the main thread runs the block, and
\* only then is the setting saved.
TakeAnimate ==
  /\ Take("animate", "mark")
  /\ animateIcon' = ~animateIcon
  /\ UNCHANGED <<cancelled, blocks, saved, login, seen, outside>>

MarkAnimate ==
  /\ Handle("mark", "save") /\ Len(blocks) < MaxBlocks
  /\ Dispatch(Block("animate", animateIcon))
  /\ UNCHANGED <<cancelled, clicks, settings>>

SaveAnimate ==
  /\ Handle("save", "select")
  /\ saved' = animateIcon
  /\ UNCHANGED <<cancelled, blocks, clicks, animateIcon, login, seen, outside>>

TakeLaunch ==
  /\ Take("launch", "set")
  /\ ReadLogin
  /\ UNCHANGED <<cancelled, blocks, animateIcon, saved>>

\* Registering the program, or taking it off, may fail.
SetLaunch ==
  /\ Handle("set", "reread")
  /\ login' \in {login, ~seen}
  /\ UNCHANGED <<cancelled, blocks, clicks, animateIcon, saved, seen, outside>>

\* Mutant: what was asked for is taken to be so.
TrustLaunch ==
  /\ Handle("reread", "show")
  /\ seen' = ~seen /\ outside' = FALSE
  /\ UNCHANGED <<cancelled, blocks, clicks, animateIcon, saved, login>>

ReadLaunch ==
  /\ Handle("reread", "show")
  /\ ReadLogin
  /\ UNCHANGED <<cancelled, blocks, clicks, animateIcon, saved>>

ShowLaunch ==
  /\ Handle("show", "select") /\ Len(blocks) < MaxBlocks
  /\ Dispatch(Block("launch", seen))
  /\ UNCHANGED <<cancelled, clicks, settings>>

TakeQuit == Take("quit", "quitting") /\ cancelled' = TRUE /\ UNCHANGED <<blocks, settings>>

Quit ==
  /\ Handle("quitting", "ended")
  /\ Dispatch(Block("terminate", TRUE))
  /\ UNCHANGED <<cancelled, clicks, settings>>

\* Mutant: the icon is left alone whenever it does not turn.
RedrawnIfTurning == turning'

\* (A changed color or theme is another reason to draw it.)
MustRedraw == animateIcon # lastAnimating \/ turning'

\* A tick of animate.  Turning begins with some load and slows down, but its
\* speed does not become 0 again before the animation is switched off.
Animate ==
  /\ Running
  /\ turning' \in (IF animateIcon THEN {turning, TRUE} ELSE {FALSE})
  /\ lastAnimating' = animateIcon
  /\ \/ tilted' = turning'
     \/ ~MustRedraw /\ UNCHANGED tilted
  /\ UNCHANGED <<starting, cancelled, blocks, menu, bridge>>

-----------------------------------------------------------------------------
(* internal/notify *)

\* Mutant: every request has the same number.
OneID(s) == 1

reqID(s) == s

\* Send puts a new channel into the table and asks macOS.
Send ==
  /\ main \in {"started", "loop"}
  /\ sending = "idle" /\ sender + 1 \in Sends /\ sender < scenario.sends
  /\ sender' = sender + 1 /\ sending' = "waiting"
  /\ pending' = pending \cup {reqID(sender')}
  /\ done' = [done EXCEPT ![reqID(sender')] = 0]
  /\ macOS' = [macOS EXCEPT ![sender'] = "asked"]
  /\ UNCHANGED <<starting, cancelled, blocks, menu, animation, result>>

\* An answer came, or the context has ended.
SendReceives ==
  /\ sending = "waiting" /\ main # "exited" /\ sending' = "returning"
  /\ LET id == reqID(sender)
     IN  \/ done[id] # 0 /\ result' = done[id] /\ done' = [done EXCEPT ![id] = 0]
         \/ result' = 0 /\ UNCHANGED done
  /\ UNCHANGED <<starting, cancelled, blocks, menu, animation, sender, pending, macOS>>

\* Mutant: a request that timed out stays in the table.
ReturnAnswered ==
  /\ sending = "returning" /\ main # "exited" /\ sending' = "idle"
  /\ pending' = IF result = 0 THEN pending ELSE pending \ {reqID(sender)}
  /\ result' = 0
  /\ UNCHANGED <<starting, cancelled, blocks, menu, animation, sender, done, macOS>>

SendReturns ==
  /\ sending = "returning" /\ main # "exited" /\ sending' = "idle"
  /\ pending' = pending \ {reqID(sender)}
  /\ result' = 0
  /\ UNCHANGED <<starting, cancelled, blocks, menu, animation, sender, done, macOS>>

\* macOS calls mmNotifyDone; complete looks for the channel, which it keeps.
Complete(s) ==
  /\ macOS[s] = "asked" /\ main # "exited"
  /\ macOS' = [macOS EXCEPT ![s] = IF reqID(s) \in pending THEN "found" ELSE "ended"]
  /\ UNCHANGED <<starting, cancelled, blocks, menu, animation, sending, sender, pending, done, result>>

\* Mutant: the channel has no buffer.
PassOnDirectly(s) ==
  /\ macOS[s] = "found" /\ main # "exited"
  /\ sending = "waiting" /\ sender = s /\ sending' = "returning"
  /\ result' = s
  /\ macOS' = [macOS EXCEPT ![s] = "ended"]
  /\ UNCHANGED <<starting, cancelled, blocks, menu, animation, sender, pending, done>>

\* The channel holds one answer, or the thread of macOS waits.
PassOn(s) ==
  /\ macOS[s] = "found" /\ main # "exited" /\ done[reqID(s)] = 0
  /\ done' = [done EXCEPT ![reqID(s)] = s]
  /\ macOS' = [macOS EXCEPT ![s] = "ended"]
  /\ UNCHANGED <<starting, cancelled, blocks, menu, animation, sending, sender, pending, result>>

-----------------------------------------------------------------------------
Main == OpenStores \/ InitNotify \/ NewEngine \/ Run \/ RunBlock

TakeClick ==
  \/ TakeOpen \/ OpenReturns
  \/ TakeAnimate \/ MarkAnimate \/ SaveAnimate
  \/ TakeLaunch \/ SetLaunch \/ ReadLaunch \/ ShowLaunch
  \/ TakeQuit \/ Quit

Tray == SeeCancel \/ TakeClick \/ Animate

Notify == Send \/ SendReceives \/ SendReturns \/ \E s \in Sends : Complete(s) \/ PassOn(s)

User == Cancel \/ PickIgnore \/ ChangeLogin \/ \E item \in Items : Click(item)

Next == Main \/ Tray \/ Notify \/ User

Spec == Init /\ [][Next]_vars

\* The goroutines and the main thread run, `open` ends, and a select that is made
\* again and again takes each of its ready cases at some time.
Fairness ==
  /\ WF_vars(OpenStores) /\ WF_vars(InitNotify) /\ WF_vars(NewEngine) /\ WF_vars(Run)
  /\ WF_vars(RunBlock)
  /\ WF_vars(TakeClick) /\ SF_vars(SeeCancel)
  /\ \A s \in Sends : WF_vars(PassOn(s))

FairSpec == Spec /\ Fairness

-----------------------------------------------------------------------------
TypeOK ==
  /\ main \in {"start", "opened", "notified", "started", "loop", "exited"}
  /\ engine \in BOOLEAN /\ cancelled \in BOOLEAN
  /\ Len(blocks) <= MaxBlocks + 1 /\ Len(clicks) <= ClickCap
  /\ handler \in {"none", "select", "opening", "mark", "save", "set", "reread", "show",
                  "quitting", "ended"}
  /\ animateIcon \in BOOLEAN /\ saved \in BOOLEAN
  /\ login \in BOOLEAN /\ seen \in BOOLEAN /\ outside \in BOOLEAN
  /\ checked \in [{"animate", "launch"} -> BOOLEAN]
  /\ turning \in BOOLEAN /\ lastAnimating \in BOOLEAN /\ tilted \in BOOLEAN
  /\ sending \in {"idle", "waiting", "returning"} /\ sender \in Sends \cup {0}
  /\ pending \subseteq (IF sending = "idle" THEN {} ELSE {sender})
  /\ done \in [Sends -> Sends \cup {0}] /\ result \in Sends \cup {0}
  /\ macOS \in [Sends -> {"idle", "asked", "found", "ended"}]

\* What the user does with an old notification while the program starts never
\* reaches an engine that does not exist yet: it waits in the main queue.
\* (main, action)
IgnoreFindsEngine == Running /\ Contains(blocks, Block("ignore", TRUE)) => engine

\* When handleEvents waits for the next click, or for `open', and its blocks have
\* run, the mark and what is saved are the setting in use, and the other mark is
\* what macOS has, even if it refused -- unless that was changed in System Settings
\* since the program last looked.  (handleEvents)
ChecksAreTrue ==
  Running /\ handler \in {"select", "opening"} /\ blocks = << >> =>
    /\ checked.animate = animateIcon /\ saved = animateIcon
    /\ checked.launch = login \/ outside

\* An icon that is not animated comes to rest upright, although it is not drawn
\* any more once it does not turn.  (animate)
RestingIconIsUpright == Running /\ ~animateIcon /\ ~lastAnimating => ~tilted

\* "Returns once macOS has accepted it": what Send returns is the answer to its
\* own request, however late the answers to earlier ones come.  (Send, complete)
AnswersReachTheirRequest == result \in {0, sender}

\* A thread of macOS that brings an answer is not kept waiting, also if Send
\* gives up while it has the channel in its hand.  (complete)
AnswersAreTaken ==
  \A s \in Sends : macOS[s] = "found" ~> macOS[s] = "ended" \/ main = "exited"

\* A signal, a server that cannot listen and a click on Quit that was queued all
\* end the program, whatever else is clicked meanwhile.  (main, handleEvents)
EndsWhenAsked == cancelled \/ Contains(clicks, "quit") ~> main = "exited"
=============================================================================
