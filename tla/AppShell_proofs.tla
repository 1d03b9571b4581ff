-------------------------- MODULE AppShell_proofs ---------------------------
(***************************************************************************)
(* Safety of AppShell for any number of sends, queued clicks and blocks.   *)
(* The invariant that is inductive says where everything that is under way *)
(* is: each mark in the menu is either right or will be made so by the     *)
(* last block in the queue that is about it or by the step handleEvents is *)
(* at, and a channel holds nothing but the answer to its own request.      *)
(***************************************************************************)
EXTENDS AppShell, TLAPS

Blocks == [what : {"ignore", "animate", "launch", "terminate"}, value : BOOLEAN]

\* TypeOK by parts, with the elements of the queues, and why the main queue may be
\* one block longer than its bound: nothing follows the block that ends the program.
StartType ==
  /\ main \in {"start", "opened", "notified", "started", "loop", "exited"}
  /\ engine \in BOOLEAN /\ cancelled \in BOOLEAN
  /\ main \in {"start", "opened", "notified", "started"} => handler = "none"

QueueType ==
  /\ blocks \in Seq(Blocks) /\ Len(blocks) <= MaxBlocks + 1
  /\ Len(blocks) = MaxBlocks + 1 => handler = "ended"

ClickType == clicks \in Seq(Items) /\ Len(clicks) <= ClickCap

MenuType ==
  /\ handler \in {"none", "select", "opening", "mark", "save", "set", "reread", "show",
                  "quitting", "ended"}
  /\ animateIcon \in BOOLEAN /\ saved \in BOOLEAN
  /\ login \in BOOLEAN /\ seen \in BOOLEAN /\ outside \in BOOLEAN
  /\ checked \in [{"animate", "launch"} -> BOOLEAN]

AnimationType == turning \in BOOLEAN /\ lastAnimating \in BOOLEAN /\ tilted \in BOOLEAN

BridgeType ==
  /\ sending \in {"idle", "waiting", "returning"} /\ sender \in Sends \cup {0}
  /\ sending # "idle" => sender \in Sends
  /\ pending \subseteq (IF sending = "idle" THEN {} ELSE {sender})
  /\ done \in [Sends -> Sends \cup {0}] /\ result \in Sends \cup {0}
  /\ macOS \in [Sends -> {"idle", "asked", "found", "ended"}]

TypeInv == StartType /\ QueueType /\ ClickType /\ MenuType /\ AnimationType /\ BridgeType

-----------------------------------------------------------------------------
(* Types *)

LEMMA DispatchType ==
  ASSUME QueueType, NEW what \in {"ignore", "animate", "launch", "terminate"}, NEW v \in BOOLEAN,
         Dispatch(Block(what, v))
  PROVE  blocks' \in Seq(Blocks) /\ Len(blocks') = Len(blocks) + 1
<1>1. Block(what, v) \in Blocks
  BY DEF Block, Blocks
<1> QED
  BY <1>1 DEF Dispatch, QueueType

\* A block is dispatched while there is room, or by the handler as it ends.
LEMMA QueueStep ==
  ASSUME QueueType, NEW what \in {"ignore", "animate", "launch", "terminate"}, NEW v \in BOOLEAN,
         Dispatch(Block(what, v)),
         Len(blocks) < MaxBlocks \/ (handler # "ended" /\ handler' = "ended")
  PROVE  QueueType'
<1>1. Len(blocks) \in Nat /\ Len(blocks') \in Nat /\ MaxBlocks \in Nat
  BY DispatchType, BoundsAssumption DEF QueueType
<1> QED
  BY <1>1, DispatchType DEF QueueType

LEMMA TakeType ==
  ASSUME ClickType, NEW item \in Items, NEW to, Take(item, to)
  PROVE  ClickType'
<1>1. clicks # << >> /\ clicks' = Tail(clicks)
  BY DEF Take
<1>2. clicks' \in Seq(Items) /\ Len(clicks') = Len(clicks) - 1
  BY <1>1 DEF ClickType
<1> QED
  BY <1>2, BoundsAssumption DEF ClickType

\* What the steps of handleEvents leave alone.
LEMMA HandlerFrame ==
  SeeCancel \/ TakeClick => /\ Running /\ handler \notin {"none", "ended"}
                            /\ UNCHANGED <<starting, checked, animation, bridge>>
BY DEF SeeCancel, TakeClick, TakeOpen, OpenReturns, TakeAnimate, MarkAnimate, SaveAnimate, TakeLaunch,
       SetLaunch, ReadLaunch, ShowLaunch, TakeQuit, Quit, Take, Handle

LEMMA ChecksType ==
  ASSUME NEW a \in BOOLEAN, NEW l \in BOOLEAN
  PROVE  [animate |-> a, launch |-> l] \in [{"animate", "launch"} -> BOOLEAN]
OBVIOUS

LEMMA TypeInit == Init => TypeInv
<1> SUFFICES ASSUME Init PROVE TypeInv
  OBVIOUS
<1> USE BoundsAssumption DEF Init
<1>1. QueueType /\ ClickType
  <2>1. << >> \in Seq(Blocks) /\ << >> \in Seq(Items) /\ Len(<< >>) = 0
    OBVIOUS
  <2> QED
    BY <2>1 DEF QueueType, ClickType
<1>2. StartType
  BY DEF StartType
<1>3. MenuType
  <2>1. checked \in [{"animate", "launch"} -> BOOLEAN]
    BY ChecksType
  <2> QED
    BY <2>1 DEF MenuType
<1>4. AnimationType
  BY DEF AnimationType
<1>5. BridgeType
  BY DEF BridgeType, Sends
<1> QED
  BY <1>1, <1>2, <1>3, <1>4, <1>5 DEF TypeInv

LEMMA MainType == TypeInv /\ Main => TypeInv'
<1> SUFFICES ASSUME TypeInv, Main PROVE TypeInv'
  OBVIOUS
<1>1. UNCHANGED <<animation, bridge, clicks, login, saved>>
  BY DEF Main, OpenStores, InitNotify, NewEngine, Run, RunLoop, RunBlock, ReadLogin, menu, settings
<1>2. ClickType' /\ AnimationType' /\ BridgeType'
  BY <1>1 DEF TypeInv, ClickType, AnimationType, BridgeType, animation, bridge
<1>3. CASE OpenStores \/ InitNotify \/ NewEngine
  <2>1. UNCHANGED <<blocks, menu, cancelled>> /\ engine' \in {engine, TRUE}
        /\ main' \in {"opened", "notified", "started", "exited"}
    BY <1>3 DEF OpenStores, InitNotify, NewEngine
  <2>2. StartType'
    BY <1>3, <2>1 DEF TypeInv, StartType, menu, OpenStores, InitNotify, NewEngine
  <2>3. QueueType' /\ MenuType'
    BY <2>1 DEF TypeInv, QueueType, MenuType, menu, settings
  <2> QED
    BY <1>2, <2>2, <2>3 DEF TypeInv
<1>4. CASE Run
  <2>1. UNCHANGED <<engine, cancelled, blocks>> /\ main' \in {"loop", "exited"}
    BY <1>4 DEF Run, RunLoop
  <2>2. handler = "none" /\ Len(blocks) # MaxBlocks + 1
    BY <1>4 DEF Run, RunLoop, TypeInv, StartType, QueueType
  <2>3. CASE main' = "exited" /\ UNCHANGED menu
    BY <1>2, <2>1, <2>3 DEF TypeInv, StartType, QueueType, MenuType, menu, settings
  <2>4. CASE RunLoop
    <3>1. checked' \in [{"animate", "launch"} -> BOOLEAN]
      BY <2>4, ChecksType DEF RunLoop, ReadLogin, TypeInv, MenuType
    <3>2. MenuType'
      BY <2>4, <3>1 DEF RunLoop, ReadLogin, TypeInv, MenuType
    <3> QED
      BY <1>2, <2>1, <2>2, <2>4, <3>2 DEF RunLoop, TypeInv, StartType, QueueType
  <2> QED
    BY <1>4, <2>3, <2>4 DEF Run
<1>5. CASE RunBlock
  <2>1. Head(blocks) \in Blocks /\ blocks' \in Seq(Blocks) /\ Len(blocks') = Len(blocks) - 1
    BY <1>5 DEF RunBlock, TypeInv, QueueType
  <2>2. QueueType'
    BY <2>1, BoundsAssumption DEF QueueType, TypeInv
  <2>3. StartType'
    BY <1>5 DEF RunBlock, StartType, TypeInv
  <2>4. MenuType'
    BY <1>5, <2>1 DEF RunBlock, MenuType, TypeInv, Blocks, settings
  <2> QED
    BY <1>2, <2>2, <2>3, <2>4 DEF TypeInv
<1> QED
  BY <1>3, <1>4, <1>5 DEF Main

LEMMA TrayType == TypeInv /\ Tray => TypeInv'
<1> SUFFICES ASSUME TypeInv, Tray PROVE TypeInv'
  OBVIOUS
<1>1. CASE Animate
  <2>1. AnimationType'
    BY <1>1 DEF Animate, TypeInv, AnimationType, MenuType
  <2> QED
    BY <1>1, <2>1 DEF Animate, TypeInv, StartType, QueueType, ClickType, MenuType, BridgeType,
                      starting, menu, settings, bridge
<1>2. CASE SeeCancel \/ TakeClick
  <2>1. AnimationType' /\ BridgeType'
    BY <1>2, HandlerFrame DEF TypeInv, AnimationType, BridgeType, animation, bridge
  <2>2. StartType'
    <3>1. cancelled' \in {cancelled, TRUE}
      BY <1>2 DEF SeeCancel, TakeClick, TakeOpen, OpenReturns, TakeAnimate, MarkAnimate, SaveAnimate,
                  TakeLaunch, SetLaunch, ReadLaunch, ShowLaunch, TakeQuit, Quit
    <3> QED
      BY <1>2, <3>1, HandlerFrame DEF TypeInv, StartType, starting, Running
  <2>3. MenuType'
    BY <1>2, HandlerFrame
       DEF TypeInv, MenuType, settings, SeeCancel, TakeClick, TakeOpen, OpenReturns, TakeAnimate,
           MarkAnimate, SaveAnimate, TakeLaunch, SetLaunch, ReadLaunch, ShowLaunch, TakeQuit, Quit,
           Take, Handle, ReadLogin
  <2>4. ClickType'
    <3>1. ASSUME NEW item \in Items, NEW to, Take(item, to) PROVE ClickType'
      BY <3>1, TakeType DEF TypeInv
    <3>2. ASSUME UNCHANGED clicks PROVE ClickType'
      BY <3>2 DEF TypeInv, ClickType
    <3> QED
      BY <1>2, <3>1, <3>2
         DEF SeeCancel, TakeClick, TakeOpen, OpenReturns, TakeAnimate, MarkAnimate, SaveAnimate,
             TakeLaunch, SetLaunch, ReadLaunch, ShowLaunch, TakeQuit, Quit, Items
  <2>5. CASE SeeCancel \/ Quit
    <3>1. handler # "ended" /\ handler' = "ended" /\ Dispatch(Block("terminate", TRUE))
      BY <2>5 DEF SeeCancel, Quit, Handle
    <3> QED
      BY <2>1, <2>2, <2>3, <2>4, <3>1, QueueStep DEF TypeInv
  <2>6. CASE MarkAnimate \/ ShowLaunch
    <3>1. PICK what \in {"animate", "launch"}, v \in BOOLEAN :
            Dispatch(Block(what, v)) /\ Len(blocks) < MaxBlocks
      BY <2>6 DEF MarkAnimate, ShowLaunch, TypeInv, MenuType
    <3> QED
      BY <2>1, <2>2, <2>3, <2>4, <3>1, QueueStep DEF TypeInv
  <2>7. CASE UNCHANGED blocks
    <3>1. QueueType'
      BY <1>2, <2>7, HandlerFrame DEF TypeInv, QueueType
    <3> QED
      BY <2>1, <2>2, <2>3, <2>4, <3>1 DEF TypeInv
  <2> QED
    BY <1>2, <2>5, <2>6, <2>7 DEF TakeClick, TakeOpen, OpenReturns, TakeAnimate, SaveAnimate,
                                  TakeLaunch, SetLaunch, ReadLaunch, TakeQuit
<1> QED
  BY <1>1, <1>2 DEF Tray

LEMMA NotifyType == TypeInv /\ Notify => TypeInv'
<1> SUFFICES ASSUME TypeInv, Notify PROVE TypeInv'
  OBVIOUS
<1>1. UNCHANGED <<starting, cancelled, blocks, menu, animation>>
  BY DEF Notify, Send, SendReceives, SendReturns, Complete, PassOn
<1>2. StartType' /\ QueueType' /\ ClickType' /\ MenuType' /\ AnimationType'
  BY <1>1 DEF TypeInv, StartType, QueueType, ClickType, MenuType, AnimationType, starting, menu,
              settings, animation
<1>3. BridgeType'
  <2> USE BoundsAssumption DEF TypeInv, BridgeType, Sends, reqID
  <2>1. CASE Send
    BY <2>1 DEF Send
  <2>2. CASE SendReceives
    <3>1. sender \in Sends /\ done[sender] \in Sends \cup {0}
      BY <2>2 DEF SendReceives
    <3>2. done' \in [Sends -> Sends \cup {0}] /\ result' \in Sends \cup {0}
      BY <2>2, <3>1 DEF SendReceives
    <3> QED
      BY <2>2, <3>1, <3>2 DEF SendReceives
  <2>3. CASE SendReturns
    BY <2>3 DEF SendReturns
  <2>4. ASSUME NEW s \in Sends, Complete(s) PROVE BridgeType'
    <3>1. macOS' \in [Sends -> {"idle", "asked", "found", "ended"}]
      BY <2>4 DEF Complete
    <3> QED
      BY <2>4, <3>1 DEF Complete
  <2>5. ASSUME NEW s \in Sends, PassOn(s) PROVE BridgeType'
    BY <2>5 DEF PassOn
  <2> QED
    BY <2>1, <2>2, <2>3, <2>4, <2>5 DEF Notify
<1> QED
  BY <1>2, <1>3 DEF TypeInv

LEMMA UserType == TypeInv /\ User => TypeInv'
<1> SUFFICES ASSUME TypeInv, User PROVE TypeInv'
  OBVIOUS
<1>1. UNCHANGED <<main, engine, handler, animateIcon, saved, seen, checked, animation, bridge>>
      /\ cancelled' \in {cancelled, TRUE} /\ login' \in {login, ~login} /\ outside' \in {outside, TRUE}
  BY DEF User, Cancel, PickIgnore, ChangeLogin, Click, starting, menu, settings
<1>2. StartType' /\ MenuType' /\ AnimationType' /\ BridgeType'
  <2>1. cancelled' \in BOOLEAN
    BY <1>1 DEF TypeInv, StartType
  <2>2. StartType'
    BY <1>1, <2>1 DEF TypeInv, StartType
  <2>3. MenuType' /\ AnimationType'
    BY <1>1 DEF TypeInv, MenuType, AnimationType, animation
  <2>4. BridgeType'
    BY <1>1 DEF TypeInv, BridgeType, bridge
  <2> QED
    BY <2>2, <2>3, <2>4
<1>3. CASE Cancel
  BY <1>2, <1>3 DEF Cancel, TypeInv, QueueType, ClickType, menu
<1>4. CASE PickIgnore
  <2>0. Len(blocks) < MaxBlocks
    BY <1>4, BoundsAssumption DEF PickIgnore, TypeInv, QueueType
  <2>1. QueueType'
    BY <1>4, <2>0, QueueStep DEF PickIgnore, TypeInv
  <2> QED
    BY <1>2, <1>4, <2>1 DEF PickIgnore, TypeInv, ClickType, menu
<1>5. ASSUME NEW item \in Items, Click(item) PROVE TypeInv'
  <2>1. ClickType'
    BY <1>5, BoundsAssumption DEF Click, TypeInv, ClickType
  <2> QED
    BY <1>2, <1>5, <2>1 DEF Click, TypeInv, QueueType
<1>6. CASE ChangeLogin
  BY <1>2, <1>6 DEF ChangeLogin, TypeInv, QueueType, ClickType
<1> QED
  BY <1>3, <1>4, <1>5, <1>6 DEF User

LEMMA TypeStep == TypeInv /\ [Next]_vars => TypeInv'
<1>1. TypeInv /\ UNCHANGED vars => TypeInv'
  BY DEF vars, starting, menu, settings, animation, bridge, TypeInv, StartType, QueueType, ClickType, MenuType,
         AnimationType, BridgeType
<1> QED
  BY <1>1, MainType, TrayType, NotifyType, UserType DEF Next

LEMMA TypesHold == Spec => []TypeInv
BY TypeInit, TypeStep, PTL DEF Spec

\* Every variable of AppShell keeps its type; in particular no request stays in
\* the table when its Send has returned.  (Send, complete)
THEOREM TypeCorrect == Spec => []TypeOK
<1>1. TypeInv => TypeOK
  BY DEF TypeInv, TypeOK, StartType, QueueType, ClickType, MenuType, AnimationType, BridgeType
<1> QED
  BY <1>1, TypesHold, PTL

-----------------------------------------------------------------------------
(* The engine *)

\* The run loop, which works through the main queue, is entered from "started" only.
Made == main \in {"started", "loop"} => engine

LEMMA MadeStep == Made /\ [Next]_vars => Made'
<1> SUFFICES ASSUME Made, [Next]_vars PROVE Made'
  OBVIOUS
<1>1. CASE NewEngine
  BY <1>1 DEF NewEngine, Made
<1>2. CASE OpenStores \/ InitNotify
  BY <1>2 DEF OpenStores, InitNotify, Made
<1>3. CASE Run
  BY <1>3 DEF Run, RunLoop, Made
<1>4. CASE RunBlock
  BY <1>4 DEF RunBlock, Running, Made
<1>5. CASE Tray \/ Notify \/ User \/ UNCHANGED vars
  <2>1. UNCHANGED starting
    BY <1>5, HandlerFrame DEF Tray, Animate, Notify, Send, SendReceives, SendReturns, Complete, PassOn,
                              User, Cancel, PickIgnore, ChangeLogin, Click, vars
  <2> QED
    BY <2>1 DEF Made, starting
<1> QED
  BY <1>1, <1>2, <1>3, <1>4, <1>5 DEF Next, Main

\* A click on a notification of an earlier run waits until there is an engine,
\* wherever in the start of the program it comes.  (main, action)
THEOREM IgnoreWaits == Spec => []IgnoreFindsEngine
<1>1. Init => Made
  BY DEF Init, Made
<1>2. Made => IgnoreFindsEngine
  BY DEF Made, IgnoreFindsEngine, Running
<1> QED
  BY <1>1, <1>2, MadeStep, PTL DEF Spec

-----------------------------------------------------------------------------
(* Answers *)

Own ==
  /\ result \in {0, sender} /\ (sending # "returning" => result = 0)
  /\ \A s \in Sends : done[s] \in {0, s}

LEMMA OwnStep == TypeInv /\ Own /\ [Next]_vars => Own'
<1> SUFFICES ASSUME TypeInv, Own, [Next]_vars PROVE Own'
  OBVIOUS
<1>1. CASE Notify
  <2> USE DEF TypeInv, BridgeType, Own, reqID
  <2>1. CASE Send
    BY <2>1 DEF Send
  <2>2. CASE SendReceives
    <3>1. sender \in Sends /\ done[sender] \in {0, sender}
      BY <2>2 DEF SendReceives
    <3>2. \A s \in Sends : done'[s] \in {0, s}
      BY <2>2 DEF SendReceives
    <3> QED
      BY <2>2, <3>1, <3>2 DEF SendReceives
  <2>3. CASE SendReturns
    BY <2>3 DEF SendReturns
  <2>4. ASSUME NEW s \in Sends, Complete(s) PROVE Own'
    BY <2>4 DEF Complete
  <2>5. ASSUME NEW s \in Sends, PassOn(s) PROVE Own'
    BY <2>5 DEF PassOn
  <2> QED
    BY <1>1, <2>1, <2>2, <2>3, <2>4, <2>5 DEF Notify
<1>2. CASE Main \/ Tray \/ User \/ UNCHANGED vars
  <2>1. UNCHANGED bridge
    BY <1>2, HandlerFrame DEF Main, OpenStores, InitNotify, NewEngine, Run, RunLoop, RunBlock, Tray,
                              Animate, User, Cancel, PickIgnore, ChangeLogin, Click, vars
  <2> QED
    BY <2>1 DEF Own, bridge
<1> QED
  BY <1>1, <1>2 DEF Next

\* What Send returns is the answer to its own request or none, for any number of
\* sends and however late the answers to earlier ones come.  (Send, complete)
THEOREM AnswersOwn == Spec => []AnswersReachTheirRequest
<1>1. Init => Own
  BY DEF Init, Own
<1>2. Own => AnswersReachTheirRequest
  BY DEF Own, AnswersReachTheirRequest
<1> QED
  BY <1>1, <1>2, TypesHold, OwnStep, PTL DEF Spec

-----------------------------------------------------------------------------
(* The icon *)

\* Whenever the last tick found the animation off it left the icon upright: it
\* drew it so, or it was so at the tick before.
Upright == ~lastAnimating => ~tilted

LEMMA UprightStep == TypeInv /\ Upright /\ [Next]_vars => Upright'
<1> SUFFICES ASSUME TypeInv, Upright, [Next]_vars PROVE Upright'
  OBVIOUS
<1>1. CASE Animate
  <2> SUFFICES ASSUME ~lastAnimating' PROVE ~tilted'
    BY DEF Upright
  <2>1. lastAnimating \in BOOLEAN /\ animateIcon \in BOOLEAN
    BY DEF TypeInv, AnimationType, MenuType
  <2>2. ~animateIcon /\ turning' = FALSE
    BY <1>1, <2>1 DEF Animate
  <2>3. CASE tilted' = turning'
    BY <2>2, <2>3
  <2>4. CASE ~MustRedraw /\ UNCHANGED tilted
    <3>1. ~lastAnimating
      BY <2>1, <2>2, <2>4 DEF MustRedraw
    <3> QED
      BY <2>4, <3>1 DEF Upright
  <2> QED
    BY <1>1, <2>3, <2>4 DEF Animate
<1>2. CASE ~Animate
  <2>1. UNCHANGED animation
    BY <1>2, HandlerFrame DEF Next, Main, OpenStores, InitNotify, NewEngine, Run, RunLoop, RunBlock,
                              Tray, User, Cancel, PickIgnore, ChangeLogin, Click, Notify, Send,
                              SendReceives, SendReturns, Complete, PassOn, vars
  <2> QED
    BY <2>1 DEF Upright, animation
<1> QED
  BY <1>1, <1>2

\* An icon that is not animated comes to rest upright, in whatever order clicks
\* and ticks come.  (animate)
THEOREM IconRests == Spec => []RestingIconIsUpright
<1>1. Init => Upright
  BY DEF Init, Upright
<1>2. Upright => RestingIconIsUpright
  BY DEF Upright, RestingIconIsUpright
<1> QED
  BY <1>1, <1>2, TypesHold, UprightStep, PTL DEF Spec

-----------------------------------------------------------------------------
(* The menu *)

\* With the blocks q in the queue, a mark is v or the last block about it makes
\* it v.
Comes(q, mark, what, v) ==
  \/ mark = v /\ \A i \in 1 .. Len(q) : q[i].what # what
  \/ \E i \in 1 .. Len(q) :
       q[i] = Block(what, v) /\ \A j \in 1 .. Len(q) : j > i => q[j].what # what

LEMMA AppendedBlock ==
  ASSUME NEW q \in Seq(Blocks), NEW b \in Blocks
  PROVE  /\ Len(Append(q, b)) = Len(q) + 1 /\ Append(q, b)[Len(q) + 1] = b
         /\ \A i \in 1 .. Len(q) : Append(q, b)[i] = q[i]
OBVIOUS

LEMMA ComesWithOther ==
  ASSUME NEW q \in Seq(Blocks), NEW mark, NEW what, NEW v, NEW b \in Blocks,
         Comes(q, mark, what, v), b.what # what
  PROVE  Comes(Append(q, b), mark, what, v)
<1>1. Len(Append(q, b)) = Len(q) + 1 /\ Append(q, b)[Len(q) + 1] = b
      /\ \A i \in 1 .. Len(q) : Append(q, b)[i] = q[i]
  BY AppendedBlock
<1>2. \A i \in 1 .. Len(q) + 1 : i \in 1 .. Len(q) \/ i = Len(q) + 1
  OBVIOUS
<1>3. CASE mark = v /\ \A i \in 1 .. Len(q) : q[i].what # what
  BY <1>1, <1>2, <1>3 DEF Comes
<1>4. ASSUME NEW i \in 1 .. Len(q), q[i] = Block(what, v),
             \A j \in 1 .. Len(q) : j > i => q[j].what # what
      PROVE  Comes(Append(q, b), mark, what, v)
  <2>1. i \in 1 .. Len(q) + 1 /\ Append(q, b)[i] = Block(what, v)
    BY <1>1, <1>4
  <2>2. \A j \in 1 .. Len(q) + 1 : j > i => Append(q, b)[j].what # what
    BY <1>1, <1>2, <1>4
  <2> QED
    BY <1>1, <2>1, <2>2 DEF Comes
<1> QED
  BY <1>3, <1>4 DEF Comes

LEMMA ComesWithOwn ==
  ASSUME NEW q \in Seq(Blocks), NEW mark, NEW what, NEW v
  PROVE  Comes(Append(q, Block(what, v)), mark, what, v)
<1> DEFINE b == Block(what, v)
<1>1. Len(Append(q, b)) = Len(q) + 1 /\ Append(q, b)[Len(q) + 1] = b
  OBVIOUS
<1>2. Len(q) + 1 \in 1 .. Len(q) + 1 /\ \A j \in 1 .. Len(q) + 1 : ~(j > Len(q) + 1)
  OBVIOUS
<1> HIDE DEF b
<1>3. Comes(Append(q, b), mark, what, v)
  BY <1>1, <1>2 DEF Comes, b
<1> QED
  BY <1>3 DEF b

LEMMA ComesWithoutFirst ==
  ASSUME NEW q \in Seq(Blocks), q # << >>, NEW mark, NEW what, NEW v, Comes(q, mark, what, v)
  PROVE  Comes(Tail(q), IF q[1].what = what THEN q[1].value ELSE mark, what, v)
<1>1. Len(Tail(q)) = Len(q) - 1 /\ \A i \in 1 .. Len(q) - 1 : Tail(q)[i] = q[i + 1]
  OBVIOUS
<1>2. Len(q) \in Nat /\ Len(q) >= 1
  OBVIOUS
<1>3. CASE mark = v /\ \A i \in 1 .. Len(q) : q[i].what # what
  BY <1>1, <1>2, <1>3 DEF Comes
<1>4. ASSUME NEW i \in 1 .. Len(q), q[i] = Block(what, v),
             \A j \in 1 .. Len(q) : j > i => q[j].what # what
      PROVE  Comes(Tail(q), IF q[1].what = what THEN q[1].value ELSE mark, what, v)
  <2>1. CASE i = 1
    <3>1. q[1].what = what /\ q[1].value = v
      BY <1>4, <2>1 DEF Block
    <3>2. \A j \in 1 .. Len(q) - 1 : Tail(q)[j].what # what
      BY <1>1, <1>2, <1>4, <2>1
    <3> QED
      BY <1>1, <3>1, <3>2 DEF Comes
  <2>2. CASE i # 1
    <3>1. i - 1 \in 1 .. Len(q) - 1 /\ Tail(q)[i - 1] = Block(what, v)
      BY <1>1, <1>2, <1>4, <2>2
    <3>2. \A j \in 1 .. Len(q) - 1 : j > i - 1 => Tail(q)[j].what # what
      BY <1>1, <1>2, <1>4
    <3> QED
      BY <1>1, <3>1, <3>2 DEF Comes
  <2> QED
    BY <2>1, <2>2
<1> QED
  BY <1>3, <1>4 DEF Comes

\* While main is starting nothing in the queue concerns the menu.  Then both marks
\* are right or will be, and the setting is saved, but for the step at which
\* handleEvents is about to see to that; and what it saw of the login item last is
\* so, unless somebody else changed it or it is to look again.
Marks ==
  /\ main \in {"start", "opened", "notified", "started"}
       => \A i \in 1 .. Len(blocks) : blocks[i].what = "ignore"
  /\ Running =>
       /\ handler \notin {"mark", "save"} => saved = animateIcon
       /\ handler # "mark" => Comes(blocks, checked["animate"], "animate", animateIcon)
       /\ handler \notin {"set", "reread", "show"} => Comes(blocks, checked["launch"], "launch", seen)
       /\ handler # "reread" => seen = login \/ outside

LEMMA BlockIs ==
  ASSUME NEW what \in {"ignore", "animate", "launch", "terminate"}, NEW v \in BOOLEAN
  PROVE  Block(what, v) \in Blocks /\ Block(what, v).what = what
BY DEF Block, Blocks

LEMMA MarksMain == TypeInv /\ Marks /\ Main => Marks'
<1> SUFFICES ASSUME TypeInv, Marks, Main PROVE Marks'
  OBVIOUS
<1>1. CASE OpenStores \/ InitNotify \/ NewEngine
  BY <1>1 DEF OpenStores, InitNotify, NewEngine, Marks, Running
<1>2. CASE Run
  <2>1. main = "started" /\ (main' = "exited" \/ RunLoop)
    BY <1>2 DEF Run
  <2>2. CASE main' = "exited"
    BY <2>2 DEF Marks, Running
  <2>3. CASE RunLoop
    <3>1. blocks' = blocks /\ \A i \in 1 .. Len(blocks) : blocks[i].what = "ignore"
      BY <2>1, <2>3 DEF RunLoop, Marks
    <3>2. saved' = animateIcon' /\ checked'["animate"] = animateIcon' /\ checked'["launch"] = seen'
          /\ seen' = login' /\ main' = "loop"
      BY <2>3 DEF RunLoop, ReadLogin
    <3> QED
      BY <3>1, <3>2 DEF Marks, Comes
  <2> QED
    BY <2>1, <2>2, <2>3
<1>3. CASE RunBlock
  <2>1. Running /\ blocks # << >> /\ blocks' = Tail(blocks) /\ Head(blocks) = blocks[1]
    BY <1>3 DEF RunBlock
  <2>2. UNCHANGED <<handler, saved, animateIcon, login, seen, outside>> /\ main' \in {main, "exited"}
    BY <1>3 DEF RunBlock, settings
  <2>3. /\ checked'["animate"] = IF blocks[1].what = "animate" THEN blocks[1].value
                                 ELSE checked["animate"]
        /\ checked'["launch"] = IF blocks[1].what = "launch" THEN blocks[1].value
                                ELSE checked["launch"]
    BY <1>3, <2>1 DEF RunBlock, TypeInv, MenuType
  <2>4. blocks \in Seq(Blocks)
    BY DEF TypeInv, QueueType
  <2>5. /\ Comes(blocks, checked["animate"], "animate", animateIcon)
             => Comes(blocks', checked'["animate"], "animate", animateIcon')
        /\ Comes(blocks, checked["launch"], "launch", seen)
             => Comes(blocks', checked'["launch"], "launch", seen')
    BY <2>1, <2>2, <2>3, <2>4, ComesWithoutFirst
  <2> QED
    BY <2>1, <2>2, <2>5 DEF Marks, Running
<1> QED
  BY <1>1, <1>2, <1>3 DEF Main

LEMMA MarksTray == TypeInv /\ Marks /\ Tray => Marks'
<1> SUFFICES ASSUME TypeInv, Marks, Tray PROVE Marks'
  OBVIOUS
<1>1. blocks \in Seq(Blocks) /\ animateIcon \in BOOLEAN /\ seen \in BOOLEAN
  BY DEF TypeInv, QueueType, MenuType
<1>2. Running /\ UNCHANGED <<main, checked>>
  BY HandlerFrame DEF Tray, Animate, Running, menu, starting
<1>3. /\ handler \notin {"mark", "save"} => saved = animateIcon
      /\ handler # "mark" => Comes(blocks, checked["animate"], "animate", animateIcon)
      /\ handler \notin {"set", "reread", "show"} => Comes(blocks, checked["launch"], "launch", seen)
      /\ handler # "reread" => seen = login \/ outside
  BY <1>2 DEF Marks
<1> SUFFICES /\ handler' \notin {"mark", "save"} => saved' = animateIcon'
             /\ handler' # "mark" => Comes(blocks', checked["animate"], "animate", animateIcon')
             /\ handler' \notin {"set", "reread", "show"}
                  => Comes(blocks', checked["launch"], "launch", seen')
             /\ handler' # "reread" => seen' = login' \/ outside'
  BY <1>2 DEF Marks, Running
<1>4. CASE SeeCancel \/ Quit
  <2>1. UNCHANGED settings /\ blocks' = Append(blocks, Block("terminate", TRUE))
        /\ handler \in {"select", "quitting"} /\ handler' = "ended"
    BY <1>4 DEF SeeCancel, Quit, Handle, Dispatch
  <2>2. Comes(blocks', checked["animate"], "animate", animateIcon)
        /\ Comes(blocks', checked["launch"], "launch", seen)
    BY <1>1, <1>3, <2>1, BlockIs, ComesWithOther
  <2> QED
    BY <1>3, <2>1, <2>2 DEF settings
<1>5. CASE TakeOpen \/ OpenReturns \/ TakeQuit \/ Animate
  BY <1>3, <1>5 DEF TakeOpen, OpenReturns, TakeQuit, Take, Handle, Animate, menu, settings
<1>6. CASE TakeAnimate \/ SaveAnimate
  BY <1>3, <1>6 DEF TakeAnimate, SaveAnimate, Take, Handle
<1>7. CASE MarkAnimate
  <2>1. UNCHANGED settings /\ blocks' = Append(blocks, Block("animate", animateIcon))
        /\ handler = "mark" /\ handler' = "save"
    BY <1>7 DEF MarkAnimate, Handle, Dispatch
  <2>2. Comes(blocks', checked["animate"], "animate", animateIcon)
    BY <1>1, <2>1, ComesWithOwn
  <2>3. Comes(blocks', checked["launch"], "launch", seen)
    BY <1>1, <1>3, <2>1, BlockIs, ComesWithOther
  <2> QED
    BY <1>3, <2>1, <2>2, <2>3 DEF settings
<1>8. CASE TakeLaunch \/ SetLaunch \/ ReadLaunch
  BY <1>3, <1>8 DEF TakeLaunch, SetLaunch, ReadLaunch, ReadLogin, Take, Handle
<1>9. CASE ShowLaunch
  <2>1. UNCHANGED settings /\ blocks' = Append(blocks, Block("launch", seen))
        /\ handler = "show" /\ handler' = "select"
    BY <1>9 DEF ShowLaunch, Handle, Dispatch
  <2>2. Comes(blocks', checked["launch"], "launch", seen)
    BY <1>1, <2>1, ComesWithOwn
  <2>3. Comes(blocks', checked["animate"], "animate", animateIcon)
    BY <1>1, <1>3, <2>1, BlockIs, ComesWithOther
  <2> QED
    BY <1>3, <2>1, <2>2, <2>3 DEF settings
<1> QED
  BY <1>4, <1>5, <1>6, <1>7, <1>8, <1>9 DEF Tray, TakeClick

LEMMA AppendedWhat ==
  ASSUME NEW q \in Seq(Blocks), NEW b \in Blocks, NEW what,
         b.what = what, \A i \in 1 .. Len(q) : q[i].what = what
  PROVE  \A i \in 1 .. Len(Append(q, b)) : Append(q, b)[i].what = what
<1> SUFFICES ASSUME NEW i \in 1 .. Len(Append(q, b)) PROVE Append(q, b)[i].what = what
  OBVIOUS
<1>1. i = Len(q) + 1 \/ i \in 1 .. Len(q)
  BY AppendedBlock
<1> QED
  BY <1>1, AppendedBlock

LEMMA MarksUser == TypeInv /\ Marks /\ User => Marks'
<1> SUFFICES ASSUME TypeInv, Marks, User PROVE Marks'
  OBVIOUS
<1>1. UNCHANGED <<main, handler, checked, saved, animateIcon, seen>>
      /\ (UNCHANGED <<login, outside>> \/ outside')
  BY DEF User, Cancel, PickIgnore, ChangeLogin, Click, starting, menu, settings
<1>2. CASE UNCHANGED blocks
  BY <1>1, <1>2 DEF Marks, Running
<1>3. CASE PickIgnore
  <2>1. blocks \in Seq(Blocks) /\ blocks' = Append(blocks, Block("ignore", TRUE))
    BY <1>3 DEF PickIgnore, Dispatch, TypeInv, QueueType
  <2>2. Block("ignore", TRUE) \in Blocks /\ Block("ignore", TRUE).what = "ignore"
    BY BlockIs
  <2>3. main \in {"start", "opened", "notified", "started"}
          => \A i \in 1 .. Len(blocks') : blocks'[i].what = "ignore"
    BY <2>1, <2>2, AppendedWhat DEF Marks
  <2>4. /\ Comes(blocks, checked["animate"], "animate", animateIcon)
             => Comes(blocks', checked["animate"], "animate", animateIcon)
        /\ Comes(blocks, checked["launch"], "launch", seen)
             => Comes(blocks', checked["launch"], "launch", seen)
    BY <2>1, <2>2, ComesWithOther
  <2> QED
    BY <1>1, <2>3, <2>4 DEF Marks, Running
<1> QED
  BY <1>2, <1>3 DEF User, Cancel, ChangeLogin, Click

LEMMA MarksStep == TypeInv /\ Marks /\ [Next]_vars => Marks'
<1>1. Marks /\ (Notify \/ UNCHANGED vars) => Marks'
  BY DEF Notify, Send, SendReceives, SendReturns, Complete, PassOn, vars, starting, menu,
         settings, Marks, Running
<1> QED
  BY <1>1, MarksMain, MarksTray, MarksUser DEF Next

\* Once handleEvents is through with a click and its blocks have run, both marks in
\* the menu and the saved setting are true, for queues of any length, failing
\* registrations and whatever the main thread and System Settings do between its
\* steps -- but for a login item changed there since the program last looked.
\* (handleEvents)
THEOREM MarksAreTrue == Spec => []ChecksAreTrue
<1>1. Init => Marks
  BY DEF Init, Marks, Running
<1>2. Marks => ChecksAreTrue
  BY DEF Marks, Comes, ChecksAreTrue
<1> QED
  BY <1>1, <1>2, TypesHold, MarksStep, PTL DEF Spec
=============================================================================
