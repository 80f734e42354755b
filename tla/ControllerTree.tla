--------------------------- MODULE ControllerTree ---------------------------
(***************************************************************************)
(* MAC: how a controller gets one of its children through the states of an *)
(* observation.  ChildControl is the task in the parent, ParentControl the *)
(* one in the child, and the child's main task does the work.              *)
(*                                                                         *)
(*   ObservationControl --requestState--> ChildControl                     *)
(*            downlink |  | uplink          one TCP connection             *)
(*                  ParentControl --main--> the main task                  *)
(*                                                                         *)
(* The timers of ObservationControl ask for states without waiting for the *)
(* previous one; ParentControl puts in the states that are missing.  The   *)
(* child makes the connection, makes it anew when it is lost, and then     *)
(* tells the state it is in.                                               *)
(*                                                                         *)
(* Children are independent of each other: there is one.  Left out are the *)
(* emergency timers and rescheduling, which not all controllers use, and   *)
(* controllers that several parents share.                                 *)
(***************************************************************************)
EXTENDS Integers, Sequences

CONSTANTS
    Requests,    \* the states ObservationControl may ask for, in this order
    MaxFaults    \* bound on lost connections, start daemons and parents, and on
                 \* connections that take every retry

\* CTState::CTstateNr.  CLAIM is the state on the way to CLAIMED, and so on.
NOSTATE   == 0
CREATED   == 1
CONNECT   == 2
CONNECTED == 3
CLAIM     == 8
CLAIMED   == 9
PREPARE   == 10
PREPARED  == 11
RESUME    == 12
RESUMED   == 13
SUSPEND   == 14
SUSPENDED == 15
RELEASE   == 16
RELEASED  == 17
QUIT      == 18
QUITED    == 19

ASSUME TreeAssumption ==
    /\ Requests \subseteq {CLAIMED, PREPARED, RESUMED, SUSPENDED, RELEASED, QUITED}
    /\ MaxFaults \in Nat

VARIABLES
    asked,      \* the state ObservationControl asked for last
    cc,         \* ChildControl's entry: its port is "null", "open", "broken" (open, and
                \* the connection gone), "invalid" (-1), or "absent" with the entry
    actions,    \* itsActionList
    gcTimer,    \* itsGarbageTimer is set
    daemon,     \* the child's start daemon: "idle", "asked" or "done"
    uplink, downlink,
    pc,         \* ParentControl's entry: its port is "none" (not started), "opening" (the
                \* first time), "open", "broken", "reopening", or "removed" with the entry;
                \* lastRetry: nrRetries is 0
    main,       \* the commands in the hands of the main task
    confirmed,  \* history: the states the main task has reached
    unsent,     \* history: the actions ChildControl did not pass on
    faults

ccvars == <<asked, cc, actions, gcTimer, daemon, unsent>>
pcvars == <<pc, main, confirmed>>
vars == <<ccvars, pcvars, uplink, downlink, faults>>

Init ==
    /\ asked = CONNECTED
    /\ cc = [port |-> "null", requested |-> CONNECTED, current |-> NOSTATE,
             inResync |-> FALSE, failed |-> FALSE]
    /\ actions = <<CONNECTED>>
    /\ gcTimer = FALSE
    /\ daemon = "idle"
    /\ uplink = <<>> /\ downlink = <<>>
    /\ pc = [port |-> "none", requested |-> CONNECTED, current |-> NOSTATE,
             lastRetry |-> FALSE]
    /\ main = <<>>
    /\ confirmed = {}
    /\ unsent = {}
    /\ faults = 0

-----------------------------------------------------------------------------
(* ChildControl                                                            *)

Listed == cc.port # "absent"

\* _setEstablishedState()
Establish(c, state, ok) ==
    [c EXCEPT !.current = IF ok \/ state = QUITED THEN state ELSE @,
              !.failed = ~ok,
              !.inResync = @ /\ state < c.requested]

SendDown(msg) == downlink' = IF cc.port = "open" THEN Append(downlink, msg) ELSE downlink

\* A timer of ObservationControl. Without a connection, QUITED clears the actions first.
RequestState(s) ==
    /\ asked < s
    /\ asked' = s
    /\ IF Listed
       THEN LET early == s >= QUIT /\ cc.port = "null"
            IN  /\ cc' = [cc EXCEPT !.requested = s, !.failed = FALSE,
                                    !.port = IF early THEN "invalid" ELSE @]
                /\ actions' = IF early /\ actions # <<>> THEN Append(Tail(actions), s)
                                                         ELSE Append(actions, s)
       ELSE UNCHANGED <<cc, actions>>
    /\ UNCHANGED <<gcTimer, daemon, unsent, pcvars, uplink, downlink, faults>>

\* _processActionList(), which handles one action after the other. Actions
\* other than the start of the child are parked until there is a connection.
ProcessAction ==
    /\ actions # <<>>
    /\ actions' = Tail(actions)
    /\ \/ /\ cc.port \in {"absent", "invalid"}
          /\ unsent' = unsent \cup {Head(actions)}
          /\ UNCHANGED <<cc, daemon, downlink>>
       \/ /\ cc.port \notin {"absent", "invalid"} /\ ~cc.inResync
          /\ Head(actions) = CONNECTED
          /\ daemon' = "asked"
          /\ UNCHANGED <<cc, unsent, downlink>>
       \/ /\ cc.port \in {"open", "broken"} /\ ~cc.inResync
          /\ Head(actions) # CONNECTED
          /\ SendDown(<<"request", Head(actions)>>)
          /\ UNCHANGED <<cc, daemon, unsent>>
       \/ /\ cc.port \in {"open", "broken"} /\ cc.inResync
          /\ cc' = Establish(cc, Head(actions), TRUE)
          /\ unsent' = unsent \cup {Head(actions)}
          /\ UNCHANGED <<daemon, downlink>>
    /\ UNCHANGED <<asked, gcTimer, pcvars, uplink, faults>>

\* The start daemon reports that it cannot start the child.
StartFails ==
    /\ daemon = "asked"
    /\ daemon' = "done"
    /\ cc' = IF Listed THEN [Establish(cc, CREATED, FALSE) EXCEPT !.port = "invalid"] ELSE cc
    /\ gcTimer' = TRUE
    /\ UNCHANGED <<asked, actions, unsent, pcvars, uplink, downlink, faults>>

\* _startDaemonOffline(), and the garbage collection it calls
StartDaemonOffline ==
    /\ faults < MaxFaults
    /\ faults' = faults + 1
    /\ Listed /\ cc.requested = CONNECTED
    /\ cc' = [Establish(cc, QUITED, FALSE) EXCEPT !.port = "invalid"]
    /\ gcTimer' = TRUE
    /\ UNCHANGED <<asked, actions, daemon, unsent, pcvars, uplink, downlink>>

\* _doGarbageCollection(), when the time for a connection is over
GarbageCollection ==
    /\ gcTimer
    /\ gcTimer' = (cc.port = "null")
    /\ cc' = CASE cc.port = "null" -> [Establish(cc, QUITED, FALSE) EXCEPT !.port = "invalid"]
               [] cc.port = "invalid" -> [cc EXCEPT !.port = "absent"]
               [] OTHER -> cc
    /\ UNCHANGED <<asked, actions, daemon, unsent, pcvars, uplink, downlink, faults>>

\* F_DISCONNECTED
ChildDisconnected ==
    /\ cc.port = "broken"
    /\ cc' = IF cc.current >= RELEASED THEN [cc EXCEPT !.port = "absent"]
                                       ELSE [cc EXCEPT !.port = "null", !.failed = TRUE]
    /\ gcTimer' = TRUE
    /\ UNCHANGED <<asked, actions, daemon, unsent, pcvars, uplink, downlink, faults>>

Entry(state, resync) ==
    [cc EXCEPT !.port = "open", !.requested = state, !.current = state, !.inResync = resync]

ResyncUnread(state) == [Entry(cc.current, TRUE) EXCEPT !.requested = state]

\* CONTROL_RESYNC, which reconstructs an entry that is no longer there
Resync(state) ==
    LET new == IF Listed THEN Entry(state, TRUE)
                         ELSE [Entry(state, TRUE) EXCEPT !.failed = FALSE]
    IN  IF Listed /\ state = CONNECTED THEN Establish(new, CONNECTED, TRUE) ELSE new

\* Messages of the child
ReceiveUp ==
    /\ uplink # <<>>
    /\ uplink' = Tail(uplink)
    /\ LET kind == Head(uplink)[1]
           state == Head(uplink)[2]
       IN  \/ /\ kind = "connect"
              /\ cc' = IF Listed THEN [Establish(cc, CONNECTED, TRUE) EXCEPT !.port = "open"]
                                 ELSE cc
              /\ downlink' = Append(downlink, <<"connected", CONNECTED>>)
           \/ /\ kind = "resync"
              /\ cc' = Resync(state)
              /\ downlink' = Append(downlink, <<"resynced", state>>)
           \/ /\ kind \in {"done", "failed"}
              /\ cc' = IF ~Listed THEN cc
                       ELSE IF state = QUITED THEN [cc EXCEPT !.port = "absent"]
                       ELSE Establish(cc, state, kind = "done")
              /\ UNCHANGED downlink
    /\ UNCHANGED <<asked, actions, gcTimer, daemon, unsent, pcvars, faults>>

-----------------------------------------------------------------------------
(* ParentControl                                                           *)

\* The state a signal is expected in, and the one it asks for.
stateFlowTable == <<
    <<NOSTATE, CONNECTED>>,   <<CONNECT, CONNECTED>>,
    <<CONNECTED, CLAIMED>>,   <<CLAIM, CLAIMED>>,
    <<CLAIMED, PREPARED>>,    <<PREPARE, PREPARED>>,
    <<PREPARED, RESUMED>>,    <<SUSPENDED, RESUMED>>,   <<RESUME, RESUMED>>,
    <<RESUMED, SUSPENDED>>,   <<PREPARED, SUSPENDED>>,  <<SUSPEND, SUSPENDED>>,
    <<CLAIMED, RELEASED>>,    <<PREPARED, RELEASED>>,   <<SUSPENDED, RELEASED>>,
    <<RELEASE, RELEASED>>,
    <<CONNECTED, QUITED>>,    <<RELEASED, QUITED>>,     <<QUIT, QUITED>> >>

States == NOSTATE .. QUITED

\* The rows that lead to goal from the current state or a later one, and the state
\* that the first of them leads from.
Rows(goal, current) ==
    {i \in DOMAIN stateFlowTable : stateFlowTable[i][2] = goal /\ stateFlowTable[i][1] >= current}
Before(goal, current) ==
    stateFlowTable[CHOOSE i \in Rows(goal, current) : \A j \in Rows(goal, current) : i <= j][1]

\* The first state on a path to the requested one, found backwards from there.
FirstOnPath(current, requested) ==
    LET first[goal \in States] ==
            IF Rows(goal, current) = {} THEN requested
            ELSE IF Before(goal, current) = current THEN goal
            ELSE first[Before(goal, current)]
    IN  first[requested]

AsRequested(current, requested) == requested

\* The requested state if it is allowed in the current one, or else the first
\* state on a path to it.
getNextState(current, requested) ==
    IF current = requested \/ \E i \in DOMAIN stateFlowTable :
                                 stateFlowTable[i] = <<current, requested>>
    THEN requested
    ELSE IF current >= QUIT THEN QUITED
    ELSE FirstOnPath(current, requested)

Known == pc.port \notin {"none", "removed"}

SendUp(msgs) == uplink' = IF pc.port = "open" THEN uplink \o msgs ELSE uplink

\* _doRequestedAction(p): what it sends to the main task, and to the parent
Command(p) ==
    LET next == getNextState(p.current, p.requested)
    IN  IF p.current = p.requested \/ next = CONNECTED THEN <<>> ELSE <<next>>

\* When no retry is left it does not identify itself.
NoHello(p) == <<>>
Hello(p) ==
    IF p.current = CONNECT /\ getNextState(p.current, p.requested) = CONNECTED /\ ~p.lastRetry
    THEN << <<"connect", CONNECT>> >> ELSE <<>>

\* A state that is reached resets nrRetries.
ResetRetries(p) == [p EXCEPT !.lastRetry = @ /\ p.current # p.requested]

\* STARTDAEMON_NEWPARENT. The daemon tells ChildControl at the same time, which
\* hears it before the child has made its connection.
NewParent ==
    /\ daemon = "asked"
    /\ daemon' = "done"
    /\ pc' = [pc EXCEPT !.port = "opening"]
    /\ main' = <<CONNECTED>>
    /\ cc' = IF Listed THEN Establish(cc, CREATED, TRUE) ELSE cc
    /\ UNCHANGED <<asked, actions, gcTimer, unsent, confirmed, uplink, downlink, faults>>

\* F_CONNECTED: what was asked meanwhile is done now, and after a reconnect the
\* parent is told the current state first.  It may be the last retry.
ParentConnected(last) ==
    /\ pc.port \in {"opening", "reopening"} /\ ~pc.lastRetry
    /\ last => faults < MaxFaults
    /\ faults' = IF last THEN faults + 1 ELSE faults
    /\ pc' = [pc EXCEPT !.port = "open", !.lastRetry = last]
    /\ \/ /\ pc.port = "opening"
          /\ uplink' = Hello(pc')
          /\ main' = main \o Command(pc)
       \/ /\ pc.port = "reopening"
          /\ uplink' = << <<"resync", pc.current>> >>
          /\ UNCHANGED main
    /\ UNCHANGED <<ccvars, confirmed, downlink>>

\* F_DISCONNECTED: removeParent(), or reconnect
ParentDisconnected ==
    /\ pc.port = "broken"
    /\ pc' = [pc EXCEPT !.port = IF pc.requested >= RELEASED THEN "removed" ELSE "reopening"]
    /\ UNCHANGED <<ccvars, main, confirmed, uplink, downlink, faults>>

\* The last retry has failed: removeParent().
GiveUp ==
    /\ pc.port \in {"opening", "reopening"}
    /\ ~pc.lastRetry => faults < MaxFaults
    /\ faults' = IF pc.lastRetry THEN faults ELSE faults + 1
    /\ pc' = [pc EXCEPT !.port = "removed"]
    /\ UNCHANGED <<ccvars, main, confirmed, uplink, downlink>>

\* Messages of the parent
ReceiveDown ==
    /\ downlink # <<>>
    /\ downlink' = Tail(downlink)
    /\ LET kind == Head(downlink)[1]
           new == CASE kind = "connected" ->
                              [pc EXCEPT !.current = CONNECTED, !.lastRetry = FALSE]
                    [] kind = "request"   -> [pc EXCEPT !.requested = Head(downlink)[2]]
                    [] kind = "resynced"  -> pc
       IN  /\ pc' = ResetRetries(new)
           /\ IF kind = "connected" THEN UNCHANGED <<main, uplink>>
              ELSE /\ main' = main \o Command(pc')
                   /\ SendUp(Hello(pc'))
    /\ UNCHANGED <<ccvars, confirmed, faults>>

OnTheWay(state) == [pc EXCEPT !.current = state - 1]
Reached(state) == [pc EXCEPT !.current = state]

\* _confirmState(): a state is reached, and perhaps not the last one.
Confirm(state) ==
    /\ confirmed' = confirmed \cup {state}
    /\ IF Known
       THEN /\ pc' = ResetRetries(Reached(state))
            /\ main' = Tail(main) \o Command(pc')
            /\ SendUp(<< <<"done", state>> >>)
       ELSE main' = Tail(main) /\ UNCHANGED <<pc, uplink>>

\* The main task answers: it is done ...
MainTaskReady ==
    /\ main # <<>>
    /\ LET state == Head(main)
       IN  \/ state = CONNECTED /\ Known
              /\ pc' = [pc EXCEPT !.current = CONNECT]
              /\ SendUp(<< <<"connect", CONNECT>> >>)
              /\ main' = Tail(main)
              /\ confirmed' = confirmed \cup {CONNECTED}
           \/ state = QUITED /\ Known
              /\ pc' = [port |-> "removed", requested |-> QUITED, current |-> QUITED,
                         lastRetry |-> FALSE]
              /\ SendUp(<< <<"done", QUITED>> >>)
              /\ main' = Tail(main)
              /\ confirmed' = confirmed \cup {QUITED}
           \/ (state \notin {CONNECTED, QUITED} \/ ~Known) /\ Confirm(state)
    /\ UNCHANGED <<ccvars, downlink, faults>>

\* ... or has failed ...
MainTaskFails ==
    /\ main # <<>> /\ Head(main) \notin {CONNECTED, QUITED}
    /\ main' = Tail(main)
    /\ IF Known THEN SendUp(<< <<"failed", Head(main)>> >>) ELSE UNCHANGED uplink
    /\ UNCHANGED <<ccvars, pc, confirmed, downlink, faults>>

\* ... or leaves a command unanswered because it has to quit.
MainTaskAborts ==
    /\ main # <<>> /\ \E i \in 2 .. Len(main) : main[i] = QUITED
    /\ main' = Tail(main)
    /\ UNCHANGED <<ccvars, pc, confirmed, uplink, downlink, faults>>

-----------------------------------------------------------------------------
\* The connection is lost with all that is under way.
LinkBreaks ==
    /\ faults < MaxFaults
    /\ faults' = faults + 1
    /\ pc.port = "open"
    /\ pc' = [pc EXCEPT !.port = "broken"]
    /\ cc' = [cc EXCEPT !.port = IF @ = "open" THEN "broken" ELSE @]
    /\ uplink' = <<>> /\ downlink' = <<>>
    /\ UNCHANGED <<asked, actions, gcTimer, daemon, unsent, main, confirmed>>

ChildControlStep == ProcessAction \/ ChildDisconnected \/ ReceiveUp
DaemonStep == StartFails \/ NewParent
ParentControlStep ==
    (\E last \in BOOLEAN : ParentConnected(last)) \/ ParentDisconnected \/ ReceiveDown
MainTaskStep == MainTaskReady \/ MainTaskFails \/ MainTaskAborts

Next ==
    \/ \E s \in Requests : RequestState(s)
    \/ ChildControlStep \/ GarbageCollection \/ DaemonStep
    \/ ParentControlStep \/ MainTaskStep
    \/ StartDaemonOffline \/ GiveUp \/ LinkBreaks

Spec == Init /\ [][Next]_vars

\* Timers and messages come, and the main task answers or reports an error. What
\* ObservationControl asks for, and when, is up to it.
Fairness ==
    /\ WF_vars(ProcessAction) /\ WF_vars(ChildDisconnected) /\ WF_vars(ReceiveUp)
    /\ WF_vars(GarbageCollection) /\ WF_vars(DaemonStep)
    /\ WF_vars(\E last \in BOOLEAN : ParentConnected(last))
    /\ WF_vars(ParentDisconnected) /\ WF_vars(ReceiveDown)
    /\ WF_vars(MainTaskStep)

FairSpec == Spec /\ Fairness

-----------------------------------------------------------------------------
(* Properties                                                              *)

Settled == {NOSTATE, CONNECTED, CLAIMED, PREPARED, RESUMED, SUSPENDED, RELEASED, QUITED}

\* The two administrations, and what is between them.
TypeOK ==
    /\ asked \in Requests \cup {CONNECTED}
    /\ cc \in [port : {"null", "open", "broken", "invalid", "absent"}, requested : States,
               current : States, inResync : BOOLEAN, failed : BOOLEAN]
    /\ actions \in Seq(Requests \cup {CONNECTED})
    /\ gcTimer \in BOOLEAN
    /\ daemon \in {"idle", "asked", "done"}
    /\ uplink \in Seq({"connect", "resync", "done", "failed"} \X States)
    /\ downlink \in Seq({"connected", "resynced", "request"} \X States)
    /\ pc \in [port : {"none", "opening", "open", "broken", "reopening", "removed"},
               requested : Settled, current : Settled \cup {CONNECT}, lastRetry : BOOLEAN]
    /\ main \in Seq(Settled)
    /\ confirmed \subseteq Settled
    /\ unsent \subseteq Requests \cup {CONNECTED}
    /\ faults \in 0 .. MaxFaults
    /\ cc.port = "open" => pc.port \in {"open", "removed"}

Expected(state) == {stateFlowTable[i][1] :
                    i \in {j \in DOMAIN stateFlowTable : stateFlowTable[j][2] = state}}

\* ParentControl puts in the missing states: whatever is asked, however early,
\* whatever fails, and over a new connection too, the main task gets no command
\* before it has reached a state in which the stateFlowTable expects that
\* command, and none that leads up behind one that leads down.
CommandsInBand ==
    \A i \in DOMAIN main : main[i] # CONNECTED =>
        /\ Expected(main[i]) \cap confirmed # {}
        /\ \A j \in 1 .. i - 1 : main[j] >= SUSPENDED => main[i] >= SUSPENDED

Quiet == uplink = <<>> /\ downlink = <<>> /\ main = <<>> /\ actions = <<>>

\* When nothing is under way, ChildControl knows the state the child is in, after
\* errors and repeated commands, and over a new connection too - unless it took
\* a request to be carried out that it did not pass on.  A child that lost its
\* connection before the first contact was complete makes it twice, and the
\* second one takes it back to CONNECTED, whatever it has reached.
StatesAgree ==
    Quiet /\ cc.port = "open" /\ pc.port = "open" /\ unsent = {} =>
        pc.current = cc.current \/ (faults > 0 /\ pc.current = CONNECTED)

\* A state that is asked for is reached, or ChildControl learns that it is not.
\* A lost connection, and requests that are not passed on, are another matter.
RequestReached ==
    \A s \in Requests :
        asked = s ~> \/ asked # s \/ s \in unsent \/ faults > 0
                     \/ cc.port = "absent" \/ cc.failed \/ cc.current >= s

\* requestState() "sends a state-change request to the given child": a child that
\* is asked to quit does so, or an error is reported.
QuitIsCarriedOut == <>[](asked = QUITED => cc.failed \/ pc.port \in {"none", "removed"})

=============================================================================
