-------------------------- MODULE MuxSession_proofs ---------------------------
(***************************************************************************)
(* Proofs about MuxSession.  TypeOK is inductive.  ModesAgree speaks of    *)
(* the states in which both tasks are at rest; what keeps the flags right  *)
(* between those is Handover, which says for every step of either task     *)
(* which transport is active and what mode it is in.                       *)
(***************************************************************************)
EXTENDS MuxSession, TLAPS

-------------------------------------------------------------------------------
(* Types *)

LEMMA InitTypeOK == Init => TypeOK
<1> SUFFICES ASSUME Init PROVE TypeOK
  OBVIOUS
<1> USE DEF Init
<1>1. /\ line \in Seq({"cmd", "frame", "close"}) 
      /\ events \in Seq({"data", "exit"}) /\ Len(events) = 0
  OBVIOUS
<1>2. mode \in [direct : BOOLEAN, handler : BOOLEAN, ctx : BOOLEAN]
  BY DEF AtMode
<1>3. /\ sent \in 0 .. MaxChunks /\ rxBuf \in 0 .. RxDepth
      /\ notes \in 0 .. CoreDepth /\ 0 =< EventDepth
  BY SessionAssumption
<1>4. /\ exit \in BOOLEAN /\ muxDirect \in BOOLEAN /\ running \in BOOLEAN
      /\ input \in BOOLEAN /\ overlap \in BOOLEAN
  BY Zenon
<1> QED
  BY <1>2, <1>3, <1>4 DEF TypeOK

LEMMA NextTypeOK == TypeOK /\ [Next]_vars => TypeOK'
<1> SUFFICES ASSUME TypeOK, [Next]_vars PROVE TypeOK'
  OBVIOUS
<1> USE SessionAssumption DEF TypeOK, Switching
<1>1. ASSUME NEW c \in Chunks, HostSends(c) PROVE TypeOK'
  BY <1>1 DEF HostSends, Chunks, Queued, modes, muxer
<1>2. CASE UartLoop
  <2>1. exit' \in BOOLEAN /\ UNCHANGED <<muxDirect, running, input, overlap>>
    BY <1>2 DEF UartLoop, UartStep, muxer
  <2>2. /\ UNCHANGED <<sent, speaks, line, events, mode, instance, at, rxBuf, notes, task>>
        /\ uart' \in {"wait", "gone"}
    BY <1>2 DEF UartLoop, UartStep, host, muxer
  <2> QED
    BY <2>1, <2>2
<1>3. CASE UartEvent
  BY <1>3 DEF UartEvent, UartStep, muxer, host
<1>4. CASE NotifyReceivedData
  BY <1>4 DEF NotifyReceivedData, UartStep, muxer, host
<1>5. CASE PostNote
  BY <1>5 DEF PostNote, UartStep, muxer, host
<1>6. CASE DataHandler
  <2>1. UNCHANGED <<sent, speaks, line, events, exit, mode, muxDirect, instance, running,
                    overlap, at, rxBuf, notes, task>>
    BY <1>6 DEF DataHandler, UartStep, host
  <2>2. input' \in BOOLEAN
    BY <1>6 DEF DataHandler
  <2>3. uart' \in {"check", "crashed"}
    BY <1>6 DEF DataHandler, UartStep
  <2> QED
    BY <2>1, <2>2, <2>3
<1>7. CASE CheckRunning
  BY <1>7 DEF CheckRunning, UartStep, muxer, host
<1>8. CASE StopMuxer
  <2>1. UNCHANGED <<sent, speaks, line, events, exit, mode, muxDirect, overlap, at, rxBuf,
                    notes, task>>
    BY <1>8 DEF StopMuxer, UartStep, host
  <2>2. running' \in BOOLEAN /\ input' \in BOOLEAN
    BY <1>8 DEF StopMuxer
  <2>3. uart' = "undirect" /\ instance' = "uart"
    BY <1>8 DEF StopMuxer, UartStep
  <2> QED
    BY <2>1, <2>2, <2>3
<1>9. CASE Undirect
  <2>1. UNCHANGED <<sent, speaks, line, events, exit, muxDirect, running, input, overlap,
                    instance, at, rxBuf, notes, task>>
    BY <1>9 DEF Undirect, UartStep, host, muxer
  <2>2. mode' \in [direct : BOOLEAN, handler : BOOLEAN, ctx : BOOLEAN] /\ uart' = "unhandle"
    BY <1>9 DEF Undirect, UartStep
  <2> QED
    BY <2>1, <2>2
<1>10. CASE Unhandle
  <2>1. UNCHANGED <<sent, speaks, line, events, exit, muxDirect, running, input, overlap,
                    instance, at, notes, task>>
    BY <1>10 DEF Unhandle, UartStep, host
  <2>2. /\ mode' \in [direct : BOOLEAN, handler : BOOLEAN, ctx : BOOLEAN]
        /\ uart' = "loop" /\ rxBuf' = 0
    BY <1>10 DEF Unhandle, UartStep
  <2> QED
    BY <2>1, <2>2
<1>11. CASE MuxerReads
  <2>1. UNCHANGED <<sent, speaks, events, exit, mode, muxDirect, instance, uart, task, at,
                    overlap>>
    BY <1>11 DEF MuxerReads, host, modes
  <2>2. input' \in BOOLEAN /\ running' \in BOOLEAN
    BY <1>11 DEF MuxerReads
  <2>3. line' \in Seq({"cmd", "frame", "close"})
    <3>1. line' = line \/ (line # <<>> /\ line' = Tail(line))
      BY <1>11 DEF MuxerReads
    <3> QED
      BY <3>1
  <2>4. rxBuf' \in 0 .. RxDepth
    <3>1. rxBuf' = rxBuf \/ rxBuf' = IF rxBuf < RxDepth THEN rxBuf + 1 ELSE rxBuf
      BY <1>11 DEF MuxerReads, Stored
    <3> QED
      BY <3>1
  <2>5. notes' \in 0 .. CoreDepth
    <3>1. \/ notes' = notes
          \/ notes' = IF ~muxDirect /\ notes < CoreDepth THEN notes + 1 ELSE notes
      BY <1>11 DEF MuxerReads
    <3> QED
      BY <3>1
  <2> QED
    BY <2>1, <2>2, <2>3, <2>4, <2>5
<1>12. CASE TakeNote
  BY <1>12 DEF TakeNote, TaskStep, modes
<1>13. CASE ReadNothing
  BY <1>13 DEF ReadNothing, TaskStep, modes
<1>14. CASE ReadCommand
  BY <1>14 DEF ReadCommand, Readable, TaskStep, modes
<1>15. CASE CmuxRefused
  BY <1>15 DEF CmuxRefused, TaskStep, modes
<1>16. CASE CmuxStarts
  BY <1>16 DEF CmuxStarts, modes
<1>17. CASE CmuxAnswered
  BY <1>17 DEF CmuxAnswered, TaskStep, modes
<1>18. CASE SetDirect
  BY <1>18 DEF SetDirect, SetMode, TaskStep
<1>19. CASE SetHandler
  BY <1>19 DEF SetHandler, SetMode, TaskStep
<1>20. CASE SetCtx
  BY <1>20 DEF SetCtx, SetMode, TaskStep
<1>21. CASE SetInstance
  BY <1>21 DEF SetInstance, TaskStep
<1>22. CASE FwupdBegins
  BY <1>22 DEF FwupdBegins, TaskStep, AtMode
<1>23. CASE FwupdEnds
  BY <1>23 DEF FwupdEnds, TaskStep, AtMode
<1>24. CASE PreRestart
  <2>1. exit' \in BOOLEAN /\ task' \in {"send_exit", "stopped"}
    BY <1>24 DEF PreRestart, TaskStep
  <2>2. overlap' \in BOOLEAN
    BY <1>24 DEF PreRestart, TaskStep
  <2>3. UNCHANGED <<sent, uart, running, speaks, line, events, mode, muxDirect, instance,
                    notes, input, rxBuf, at>>
    BY <1>24 DEF PreRestart, TaskStep, modes
  <2> QED
    BY <2>1, <2>2, <2>3
<1>25. CASE SendExit
  BY <1>25 DEF SendExit, TaskStep, modes
<1>26. CASE Joined
  BY <1>26 DEF Joined, TaskStep, modes
<1>27. CASE XmodemReads
  <2>1. UNCHANGED <<sent, speaks, events, exit, mode, muxDirect, instance, uart, running,
                    notes, at>> /\ task' = "xmodem"
    BY <1>27 DEF XmodemReads, TaskStep, modes
  <2>2. line' \in Seq({"cmd", "frame", "close"})
    <3>1. line' = line \/ (line # <<>> /\ line' = Tail(line))
      BY <1>27, Zenon DEF XmodemReads
    <3> QED
      BY <3>1
  <2>3. rxBuf' \in 0 .. RxDepth
    <3>1. rxBuf' = rxBuf \/ (rxBuf > 0 /\ rxBuf' = rxBuf - 1)
      BY <1>27, Zenon DEF XmodemReads
    <3> QED
      BY <3>1
  <2>4. input' \in BOOLEAN
    BY <1>27, Zenon DEF XmodemReads
  <2>5. overlap' \in BOOLEAN
    BY <1>27 DEF XmodemReads, TaskStep
  <2> QED
    BY <2>1, <2>2, <2>3, <2>4, <2>5
<1>28. CASE UNCHANGED vars
  BY <1>28 DEF vars, host, modes, muxer
<1> QED
  BY <1>1, <1>2, <1>3, <1>4, <1>5, <1>6, <1>7, <1>8, <1>9, <1>10, <1>11, <1>12, <1>13,
     <1>14, <1>15, <1>16, <1>17, <1>18, <1>19, <1>20, <1>21, <1>22, <1>23, <1>24, <1>25,
     <1>26, <1>27, <1>28
  DEF Next, UartThread, AtTask

-------------------------------------------------------------------------------
(* The handover between the AT core and the muxer *)

InSession == [direct |-> TRUE, handler |-> TRUE, ctx |-> TRUE]

\* The AT task is in AT+CMUX, and has started the muxer.
Starting == task = "answer" \/ task \in Switching

\* A transfer runs over the UART transport itself.
UartTransfer == task = "xmodem" /\ at = "uart"

\* The UART thread is in stopMuxer(), and the UART transport is already active.
Stopping == uart \in {"undirect", "unhandle"}

\* Which transport is active, by what the two tasks are doing.
ActiveInv ==
    /\ uart \in {"call", "check", "stop"} => instance = "mux"
    /\ Stopping \/ Starting \/ UartTransfer => instance = "uart"
    /\ Stopping => task \notin Switching
    /\ running => instance = "mux" \/ Starting

\* The mode of the UART transport that AT+CMUX has reached.
SwitchedMode ==
    CASE task = "set_handler"  -> [direct |-> TRUE, handler |-> FALSE, ctx |-> FALSE]
      [] task = "set_ctx"      -> [direct |-> TRUE, handler |-> TRUE, ctx |-> FALSE]
      [] task = "set_instance" -> InSession
      [] OTHER                 -> AtMode

\* The mode of the UART transport, but for the steps of stopMuxer() that change it.
ModeInv ==
    /\ instance = "mux" => mode = InSession
    /\ instance = "uart" /\ ~Stopping /\ ~UartTransfer => mode = SwitchedMode
    /\ UartTransfer /\ ~Stopping => ~mode.handler /\ ~mode.ctx
    /\ uart = "unhandle" /\ ~UartTransfer => ~mode.direct
    /\ muxDirect => task = "xmodem" /\ at = "mux"
    /\ uart # "crashed"

Handover == ~overlap => ActiveInv /\ ModeInv

LEMMA InitHandover == Init => Handover
BY DEF Init, Handover, ActiveInv, ModeInv, Switching, SwitchedMode, AtMode

LEMMA NextHandover ==
    ASSUME ~UartPreempts, TypeOK, Handover, [Next]_vars
    PROVE  Handover'
<1> SUFFICES ASSUME ~overlap' PROVE ActiveInv' /\ ModeInv'
  BY DEF Handover
<1>a. ~overlap
  BY DEF Next, vars, HostSends, UartThread, UartLoop, UartEvent, NotifyReceivedData,
         PostNote, DataHandler, CheckRunning, StopMuxer, Undirect, Unhandle, UartStep,
         MuxerReads, AtTask, TakeNote, ReadNothing, ReadCommand, CmuxRefused, CmuxStarts,
         CmuxAnswered, SetMode, SetDirect, SetHandler, SetCtx, SetInstance, FwupdBegins,
         FwupdEnds, PreRestart, SendExit, Joined, XmodemReads, TaskStep
<1>b. ActiveInv /\ ModeInv
  BY <1>a DEF Handover
<1>c. /\ mode \in [direct : BOOLEAN, handler : BOOLEAN, ctx : BOOLEAN]
      /\ instance \in {"uart", "mux"}
  BY DEF TypeOK
<1> USE <1>b, <1>c DEF ActiveInv, ModeInv, Starting, Stopping, UartTransfer, Switching
<1>1. ASSUME NEW c \in Chunks, HostSends(c) PROVE ActiveInv' /\ ModeInv'
  <2>1. ActiveInv'
    BY <1>1 DEF HostSends, modes, muxer
  <2>2. ModeInv'
    BY <1>1 DEF HostSends, modes, SwitchedMode
  <2> QED
    BY <2>1, <2>2
<1>2. CASE UartLoop
  <2>1. ActiveInv'
    BY <1>2 DEF UartLoop, UartStep, muxer
  <2>2. ModeInv'
    BY <1>2 DEF UartLoop, UartStep, SwitchedMode
  <2> QED
    BY <2>1, <2>2
<1>3. CASE UartEvent
  <2>1. ActiveInv'
    BY <1>3 DEF UartEvent, UartStep, muxer
  <2>2. ModeInv'
    BY <1>3 DEF UartEvent, UartStep, SwitchedMode
  <2> QED
    BY <2>1, <2>2
<1>4. CASE NotifyReceivedData
  <2>1. ActiveInv'
    BY <1>4 DEF NotifyReceivedData, UartStep, muxer, SwitchedMode, AtMode
  <2>2. ModeInv'
    BY <1>4 DEF NotifyReceivedData, UartStep, SwitchedMode
  <2> QED
    BY <2>1, <2>2
<1>5. CASE PostNote
  <2>1. ActiveInv'
    BY <1>5 DEF PostNote, UartStep, muxer
  <2>2. ModeInv'
    BY <1>5 DEF PostNote, UartStep, SwitchedMode
  <2> QED
    BY <2>1, <2>2
<1>6. CASE DataHandler
  <2>1. ActiveInv'
    BY <1>6 DEF DataHandler, UartStep
  <2>2. ModeInv'
    BY <1>6 DEF DataHandler, UartStep, InSession
  <2> QED
    BY <2>1, <2>2
<1>7. CASE CheckRunning
  <2>1. ActiveInv'
    BY <1>7 DEF CheckRunning, UartStep
  <2>2. ModeInv'
    BY <1>7 DEF CheckRunning, UartStep
  <2> QED
    BY <2>1, <2>2
<1>8. CASE StopMuxer
  <2>1. ActiveInv'
    BY <1>8 DEF StopMuxer, UartStep
  <2>2. ModeInv'
    BY <1>8 DEF StopMuxer, UartStep
  <2> QED
    BY <2>1, <2>2
<1>9. CASE Undirect
  <2>1. ActiveInv'
    BY <1>9 DEF Undirect, UartStep, muxer
  <2>2. ModeInv'
    BY <1>9 DEF Undirect, UartStep
  <2> QED
    BY <2>1, <2>2
<1>10. CASE Unhandle
  <2>1. ActiveInv'
    BY <1>10 DEF Unhandle, UartStep
  <2>2. mode' = [direct |-> mode.direct, handler |-> FALSE, ctx |-> FALSE]
    BY <1>10 DEF Unhandle
  <2>3. ModeInv'
    BY <1>10, <2>2 DEF Unhandle, UartStep, SwitchedMode, AtMode
  <2> QED
    BY <2>1, <2>3
<1>11. CASE MuxerReads
  <2>1. ActiveInv'
    BY <1>11 DEF MuxerReads, modes
  <2>2. ModeInv'
    BY <1>11 DEF MuxerReads, modes, SwitchedMode
  <2> QED
    BY <2>1, <2>2
<1>12. CASE TakeNote
  <2>1. ActiveInv'
    BY <1>12 DEF TakeNote, TaskStep, modes
  <2>2. ModeInv'
    BY <1>12 DEF TakeNote, TaskStep, modes, SwitchedMode
  <2> QED
    BY <2>1, <2>2
<1>13. CASE ReadNothing
  <2>1. ActiveInv'
    BY <1>13 DEF ReadNothing, TaskStep, modes
  <2>2. ModeInv'
    BY <1>13 DEF ReadNothing, TaskStep, modes, SwitchedMode
  <2> QED
    BY <2>1, <2>2
<1>14. CASE ReadCommand
  <2>1. ActiveInv'
    BY <1>14 DEF ReadCommand, TaskStep, modes
  <2>2. ModeInv'
    BY <1>14 DEF ReadCommand, TaskStep, modes, SwitchedMode
  <2> QED
    BY <2>1, <2>2
<1>15. CASE CmuxRefused
  <2>1. ActiveInv'
    BY <1>15 DEF CmuxRefused, TaskStep, modes
  <2>2. ModeInv'
    BY <1>15 DEF CmuxRefused, TaskStep, modes, SwitchedMode
  <2> QED
    BY <2>1, <2>2
<1>16. CASE CmuxStarts
  <2>1. ActiveInv'
    BY <1>16 DEF CmuxStarts, modes
  <2>2. ModeInv'
    BY <1>16 DEF CmuxStarts, modes, SwitchedMode
  <2> QED
    BY <2>1, <2>2
<1>17. CASE CmuxAnswered
  <2>1. ActiveInv'
    BY <1>17 DEF CmuxAnswered, TaskStep, modes
  <2>2. ModeInv'
    BY <1>17 DEF CmuxAnswered, TaskStep, modes, SwitchedMode
  <2> QED
    BY <2>1, <2>2
<1>18. CASE SetDirect
  <2>1. ActiveInv'
    BY <1>18 DEF SetDirect, SetMode, TaskStep
  <2>2. ModeInv'
    <3>1. mode = [direct |-> FALSE, handler |-> FALSE, ctx |-> FALSE]
      BY <1>18 DEF SetDirect, SetMode, TaskStep, SwitchedMode, AtMode
    <3>2. mode' = [mode EXCEPT !.direct = TRUE]
      BY <1>18 DEF SetDirect, SetMode
    <3>3. mode' = [direct |-> TRUE, handler |-> FALSE, ctx |-> FALSE]
      BY <3>1, <3>2
    <3> QED
      BY <1>18, <3>3 DEF SetDirect, SetMode, TaskStep, SwitchedMode
  <2> QED
    BY <2>1, <2>2
<1>19. CASE SetHandler
  <2>1. ActiveInv'
    BY <1>19 DEF SetHandler, SetMode, TaskStep
  <2>2. ModeInv'
    <3>1. mode = [direct |-> TRUE, handler |-> FALSE, ctx |-> FALSE]
      BY <1>19 DEF SetHandler, SetMode, TaskStep, SwitchedMode
    <3>2. mode' = [mode EXCEPT !.handler = TRUE]
      BY <1>19 DEF SetHandler, SetMode
    <3>3. mode' = [direct |-> TRUE, handler |-> TRUE, ctx |-> FALSE]
      BY <3>1, <3>2
    <3> QED
      BY <1>19, <3>3 DEF SetHandler, SetMode, TaskStep, SwitchedMode
  <2> QED
    BY <2>1, <2>2
<1>20. CASE SetCtx
  <2>1. ActiveInv'
    BY <1>20 DEF SetCtx, SetMode, TaskStep
  <2>2. ModeInv'
    <3>1. mode = [direct |-> TRUE, handler |-> TRUE, ctx |-> FALSE]
      BY <1>20 DEF SetCtx, SetMode, TaskStep, SwitchedMode
    <3>2. mode' = InSession
      BY <1>20, <3>1 DEF SetCtx, SetMode, InSession
    <3> QED
      BY <1>20, <3>2 DEF SetCtx, SetMode, TaskStep, SwitchedMode
  <2> QED
    BY <2>1, <2>2
<1>21. CASE SetInstance
  <2>1. ActiveInv'
    BY <1>21 DEF SetInstance, TaskStep
  <2>2. ModeInv'
    BY <1>21 DEF SetInstance, TaskStep, SwitchedMode
  <2> QED
    BY <2>1, <2>2
<1>22. CASE FwupdBegins
  <2>1. ActiveInv'
    BY <1>22 DEF FwupdBegins, TaskStep
  <2>2. ModeInv'
    BY <1>22 DEF FwupdBegins, TaskStep, AtMode
  <2> QED
    BY <2>1, <2>2
<1>23. CASE FwupdEnds
  <2>1. ActiveInv'
    BY <1>23 DEF FwupdEnds, TaskStep
  <2>2. ModeInv'
    BY <1>23 DEF FwupdEnds, TaskStep, SwitchedMode, AtMode
  <2> QED
    BY <2>1, <2>2
<1>24. CASE PreRestart
  <2>1. ActiveInv'
    BY <1>24 DEF PreRestart, TaskStep, modes
  <2>2. ModeInv'
    BY <1>24 DEF PreRestart, TaskStep, modes, SwitchedMode
  <2> QED
    BY <2>1, <2>2
<1>25. CASE SendExit
  <2>1. ActiveInv'
    BY <1>25 DEF SendExit, TaskStep, modes
  <2>2. ModeInv'
    BY <1>25 DEF SendExit, TaskStep, modes, SwitchedMode
  <2> QED
    BY <2>1, <2>2
<1>26. CASE Joined
  <2>1. ActiveInv'
    BY <1>26 DEF Joined, TaskStep, modes
  <2>2. ModeInv'
    BY <1>26 DEF Joined, TaskStep, modes, SwitchedMode
  <2> QED
    BY <2>1, <2>2
<1>27. CASE XmodemReads
  <2>1. ActiveInv'
    BY <1>27 DEF XmodemReads, TaskStep, modes
  <2>2. ModeInv'
    BY <1>27 DEF XmodemReads, TaskStep, modes, SwitchedMode
  <2> QED
    BY <2>1, <2>2
<1>28. CASE UNCHANGED vars
  <2>1. ActiveInv'
    BY <1>28 DEF vars, modes, muxer
  <2>2. ModeInv'
    BY <1>28 DEF vars, modes, SwitchedMode
  <2> QED
    BY <2>1, <2>2
<1> QED
  BY <1>1, <1>2, <1>3, <1>4, <1>5, <1>6, <1>7, <1>8, <1>9, <1>10, <1>11, <1>12, <1>13,
     <1>14, <1>15, <1>16, <1>17, <1>18, <1>19, <1>20, <1>21, <1>22, <1>23, <1>24, <1>25,
     <1>26, <1>27, <1>28
  DEF Next, UartThread, AtTask

-------------------------------------------------------------------------------
(* Theorems *)

\* What every variable may hold, whatever the priorities of the tasks.
THEOREM Types == Safe => []TypeOK
<1>1. Init => TypeOK
  BY InitTypeOK
<1>2. TypeOK /\ [Next]_vars => TypeOK'
  BY NextTypeOK
<1> QED
  BY <1>1, <1>2, PTL DEF Safe

\* Whenever the tasks are at rest the flags agree on who gets the host's bytes, and
\* the handler is never called without its context: for any depths of the queues and
\* any number of sessions, as long as the UART thread cannot preempt the AT task.
THEOREM FlagsAgree ==
    ASSUME ~UartPreempts
    PROVE  Safe => []ModesAgree
<1>1. Init => TypeOK /\ Handover
  BY InitTypeOK, InitHandover
<1>2. TypeOK /\ Handover /\ [Next]_vars => (TypeOK /\ Handover)'
  BY NextTypeOK, NextHandover
<1>3. TypeOK /\ Handover => ModesAgree
  BY DEF TypeOK, Handover, ActiveInv, ModeInv, ModesAgree, Starting, Stopping, UartTransfer,
         Switching, SwitchedMode, InSession
<1> QED
  BY <1>1, <1>2, <1>3, PTL DEF Safe

===============================================================================
