------------------------ MODULE ControllerTree_proofs ------------------------
(***************************************************************************)
(* Theorems on ChildControl and ParentControl.                             *)
(***************************************************************************)
EXTENDS ControllerTree, TLAPS

-----------------------------------------------------------------------------
(* The invariant                                                           *)

\* What may be asked of a child, and what its main task may be told.
Targets == {CONNECTED, CLAIMED, PREPARED, RESUMED, SUSPENDED, RELEASED, QUITED}

\* What is asked of this child.
Asked == Requests \cup {CONNECTED}

\* The first contact: there is one start, and before the first connection nothing is
\* known but the start.  Nothing is under way without a connection.
Contact ==
    /\ daemon # "done" => pc.port = "none"
    /\ \A i \in DOMAIN actions : actions[i] = CONNECTED => daemon = "idle"
    /\ pc.port = "none" => main = <<>>
    /\ pc.port \in {"none", "opening"} => pc.requested = CONNECTED
    /\ pc.port \notin {"open", "removed"} => uplink = <<>> /\ downlink = <<>>

\* A request is later than those that were sent before it, and than the one the
\* child is at.
Request(i) == downlink[i][1] = "request"
Order ==
    /\ pc.requested \in Asked /\ pc.requested <= asked
    /\ \A i \in DOMAIN downlink :
          Request(i) => /\ downlink[i][2] \in Requests
                        /\ pc.requested < downlink[i][2] /\ downlink[i][2] <= asked
    /\ \A i, j \in DOMAIN downlink :
          i < j /\ Request(i) /\ Request(j) => downlink[i][2] < downlink[j][2]
    /\ \A i \in DOMAIN actions :
          /\ actions[i] <= asked
          /\ actions[i] # CONNECTED =>
                /\ pc.requested < actions[i]
                /\ \A j \in DOMAIN downlink : Request(j) => downlink[j][2] < actions[i]
    /\ \A i, j \in DOMAIN actions : i < j => actions[i] < actions[j]

\* The child is not beyond what was asked, and where it is its main task has been.
InHand ==
    /\ \A i \in DOMAIN main : main[i] \in Targets /\ main[i] <= pc.requested
    /\ pc.current <= pc.requested
    /\ pc.current \in {NOSTATE, CONNECT} \cup confirmed
    /\ \/ pc.current # NOSTATE
       \/ \E i \in DOMAIN main : main[i] # CONNECTED
       \/ \E i \in DOMAIN uplink : uplink[i][1] = "connect"
       \/ \E i \in DOMAIN downlink : downlink[i][1] = "connected"
       => CONNECTED \in confirmed

\* The first thing that is said over a new connection is the state the child is in, and
\* a child that is being released or has to quit makes no new connection.
Fresh ==
    /\ pc.port = "reopening" => pc.requested < RELEASED
    /\ \A i \in DOMAIN uplink : uplink[i][1] = "resync" =>
          i = 1 /\ downlink = <<>> /\ cc.port # "open" /\ pc.requested < RELEASED
    /\ \A i \in DOMAIN downlink : downlink[i][1] = "resynced" =>
          i = 1 /\ pc.requested < RELEASED

TreeInv == TypeOK /\ Contact /\ Order /\ InHand /\ Fresh

-----------------------------------------------------------------------------
(* getNextState()                                                          *)

USE DEF NOSTATE, CREATED, CONNECT, CONNECTED, CLAIM, CLAIMED, PREPARE, PREPARED, RESUME,
        RESUMED, SUSPEND, SUSPENDED, RELEASE, RELEASED, QUIT, QUITED

\* The rows of the table, by the state they lead to.
LEMMA TableRows ==
    /\ DOMAIN stateFlowTable = 1 .. 19
    /\ stateFlowTable[1] = <<NOSTATE, CONNECTED>>
    /\ stateFlowTable[2] = <<CONNECT, CONNECTED>>
    /\ stateFlowTable[3] = <<CONNECTED, CLAIMED>>
    /\ stateFlowTable[4] = <<CLAIM, CLAIMED>>
    /\ stateFlowTable[5] = <<CLAIMED, PREPARED>>
    /\ stateFlowTable[6] = <<PREPARE, PREPARED>>
    /\ stateFlowTable[7] = <<PREPARED, RESUMED>>
    /\ stateFlowTable[8] = <<SUSPENDED, RESUMED>>
    /\ stateFlowTable[9] = <<RESUME, RESUMED>>
    /\ stateFlowTable[10] = <<RESUMED, SUSPENDED>>
    /\ stateFlowTable[11] = <<PREPARED, SUSPENDED>>
    /\ stateFlowTable[12] = <<SUSPEND, SUSPENDED>>
    /\ stateFlowTable[13] = <<CLAIMED, RELEASED>>
    /\ stateFlowTable[14] = <<PREPARED, RELEASED>>
    /\ stateFlowTable[15] = <<SUSPENDED, RELEASED>>
    /\ stateFlowTable[16] = <<RELEASE, RELEASED>>
    /\ stateFlowTable[17] = <<CONNECTED, QUITED>>
    /\ stateFlowTable[18] = <<RELEASED, QUITED>>
    /\ stateFlowTable[19] = <<QUIT, QUITED>>
BY DEF stateFlowTable

\* The first row that leads to a goal, found.
LEMMA FirstRow ==
    ASSUME NEW goal, NEW c \in Int, NEW n \in 1 .. 19,
           stateFlowTable[n][2] = goal, stateFlowTable[n][1] >= c,
           \A j \in 1 .. n - 1 : stateFlowTable[j][2] = goal => ~(stateFlowTable[j][1] >= c)
    PROVE  Rows(goal, c) # {} /\ Before(goal, c) = stateFlowTable[n][1]
<1>1. \A j \in Rows(goal, c) : n <= j
  <2> SUFFICES ASSUME NEW j \in Rows(goal, c), ~(n <= j) PROVE FALSE
    OBVIOUS
  <2>1. j \in 1 .. 19 /\ stateFlowTable[j][2] = goal /\ stateFlowTable[j][1] >= c
    BY TableRows DEF Rows
  <2> QED
    BY <2>1
<1>2. n \in Rows(goal, c)
  BY TableRows DEF Rows
<1> DEFINE IsFirst(i) == \A j \in Rows(goal, c) : i <= j
<1>3. (CHOOSE i \in Rows(goal, c) : IsFirst(i)) = n
  <2>1. ASSUME NEW i \in Rows(goal, c), IsFirst(i) PROVE i = n
    <3>1. i \in 1 .. 19 /\ i <= n /\ n <= i
      BY <1>1, <1>2, <2>1, TableRows DEF Rows
    <3> QED
      BY <3>1
  <2> HIDE DEF IsFirst
  <2> QED
    BY <1>1, <1>2, <2>1 DEF IsFirst
<1> QED
  BY <1>2, <1>3 DEF Before

LEMMA NoRows ==
    ASSUME NEW goal, NEW c \in Int,
           \A j \in 1 .. 19 : stateFlowTable[j][2] = goal => ~(stateFlowTable[j][1] >= c)
    PROVE  Rows(goal, c) = {}
BY TableRows DEF Rows

\* Where the search comes from each state that a row leads to.
LEMMA SearchBack ==
    ASSUME NEW c \in {NOSTATE, CONNECT, CONNECTED, CLAIMED, PREPARED, RESUMED, SUSPENDED, RELEASED}
    PROVE  /\ c \in {NOSTATE} => Rows(CONNECTED, c) # {} /\ Before(CONNECTED, c) = NOSTATE
           /\ c \in {CONNECT} => Rows(CONNECTED, c) # {} /\ Before(CONNECTED, c) = CONNECT
           /\ c \in {CONNECTED, CLAIMED, PREPARED, RESUMED, SUSPENDED, RELEASED} => Rows(CONNECTED, c) = {}
           /\ c \in {NOSTATE, CONNECT, CONNECTED} => Rows(CLAIMED, c) # {} /\ Before(CLAIMED, c) = CONNECTED
           /\ c \in {CLAIMED, PREPARED, RESUMED, SUSPENDED, RELEASED} => Rows(CLAIMED, c) = {}
           /\ c \in {NOSTATE, CONNECT, CONNECTED, CLAIMED} => Rows(PREPARED, c) # {} /\ Before(PREPARED, c) = CLAIMED
           /\ c \in {PREPARED, RESUMED, SUSPENDED, RELEASED} => Rows(PREPARED, c) = {}
           /\ c \in {NOSTATE, CONNECT, CONNECTED, CLAIMED, PREPARED} => Rows(RESUMED, c) # {} /\ Before(RESUMED, c) = PREPARED
           /\ c \in {RESUMED, SUSPENDED} => Rows(RESUMED, c) # {} /\ Before(RESUMED, c) = SUSPENDED
           /\ c \in {RELEASED} => Rows(RESUMED, c) = {}
           /\ c \in {NOSTATE, CONNECT, CONNECTED, CLAIMED, PREPARED, RESUMED} => Rows(SUSPENDED, c) # {} /\ Before(SUSPENDED, c) = RESUMED
           /\ c \in {SUSPENDED, RELEASED} => Rows(SUSPENDED, c) = {}
           /\ c \in {NOSTATE, CONNECT, CONNECTED, CLAIMED} => Rows(RELEASED, c) # {} /\ Before(RELEASED, c) = CLAIMED
           /\ c \in {PREPARED} => Rows(RELEASED, c) # {} /\ Before(RELEASED, c) = PREPARED
           /\ c \in {RESUMED, SUSPENDED} => Rows(RELEASED, c) # {} /\ Before(RELEASED, c) = SUSPENDED
           /\ c \in {RELEASED} => Rows(RELEASED, c) = {}
           /\ c \in {NOSTATE, CONNECT, CONNECTED} => Rows(QUITED, c) # {} /\ Before(QUITED, c) = CONNECTED
           /\ c \in {CLAIMED, PREPARED, RESUMED, SUSPENDED, RELEASED} => Rows(QUITED, c) # {} /\ Before(QUITED, c) = RELEASED
<1>1. c \in {NOSTATE} =>
         Rows(CONNECTED, c) # {} /\ Before(CONNECTED, c) = NOSTATE
  <2> SUFFICES ASSUME c \in {NOSTATE} PROVE Rows(CONNECTED, c) # {} /\ Before(CONNECTED, c) = NOSTATE
    OBVIOUS
  <2>1. /\ stateFlowTable[1][2] = CONNECTED /\ stateFlowTable[1][1] >= c /\ stateFlowTable[1][1] = NOSTATE
        /\ \A j \in 1 .. 0 : stateFlowTable[j][2] = CONNECTED => ~(stateFlowTable[j][1] >= c)
    BY TableRows
  <2> QED
    BY <2>1, FirstRow
<1>2. c \in {CONNECT} =>
         Rows(CONNECTED, c) # {} /\ Before(CONNECTED, c) = CONNECT
  <2> SUFFICES ASSUME c \in {CONNECT} PROVE Rows(CONNECTED, c) # {} /\ Before(CONNECTED, c) = CONNECT
    OBVIOUS
  <2>1. /\ stateFlowTable[2][2] = CONNECTED /\ stateFlowTable[2][1] >= c /\ stateFlowTable[2][1] = CONNECT
        /\ \A j \in 1 .. 1 : stateFlowTable[j][2] = CONNECTED => ~(stateFlowTable[j][1] >= c)
    BY TableRows
  <2> QED
    BY <2>1, FirstRow
<1>3. c \in {CONNECTED, CLAIMED, PREPARED, RESUMED, SUSPENDED, RELEASED} => Rows(CONNECTED, c) = {}
  BY NoRows, TableRows
<1>4. c \in {NOSTATE, CONNECT, CONNECTED} =>
         Rows(CLAIMED, c) # {} /\ Before(CLAIMED, c) = CONNECTED
  <2> SUFFICES ASSUME c \in {NOSTATE, CONNECT, CONNECTED} PROVE Rows(CLAIMED, c) # {} /\ Before(CLAIMED, c) = CONNECTED
    OBVIOUS
  <2>1. /\ stateFlowTable[3][2] = CLAIMED /\ stateFlowTable[3][1] >= c /\ stateFlowTable[3][1] = CONNECTED
        /\ \A j \in 1 .. 2 : stateFlowTable[j][2] = CLAIMED => ~(stateFlowTable[j][1] >= c)
    BY TableRows
  <2> QED
    BY <2>1, FirstRow
<1>5. c \in {CLAIMED, PREPARED, RESUMED, SUSPENDED, RELEASED} => Rows(CLAIMED, c) = {}
  BY NoRows, TableRows
<1>6. c \in {NOSTATE, CONNECT, CONNECTED, CLAIMED} =>
         Rows(PREPARED, c) # {} /\ Before(PREPARED, c) = CLAIMED
  <2> SUFFICES ASSUME c \in {NOSTATE, CONNECT, CONNECTED, CLAIMED} PROVE Rows(PREPARED, c) # {} /\ Before(PREPARED, c) = CLAIMED
    OBVIOUS
  <2>1. /\ stateFlowTable[5][2] = PREPARED /\ stateFlowTable[5][1] >= c /\ stateFlowTable[5][1] = CLAIMED
        /\ \A j \in 1 .. 4 : stateFlowTable[j][2] = PREPARED => ~(stateFlowTable[j][1] >= c)
    BY TableRows
  <2> QED
    BY <2>1, FirstRow
<1>7. c \in {PREPARED, RESUMED, SUSPENDED, RELEASED} => Rows(PREPARED, c) = {}
  BY NoRows, TableRows
<1>8. c \in {NOSTATE, CONNECT, CONNECTED, CLAIMED, PREPARED} =>
         Rows(RESUMED, c) # {} /\ Before(RESUMED, c) = PREPARED
  <2> SUFFICES ASSUME c \in {NOSTATE, CONNECT, CONNECTED, CLAIMED, PREPARED} PROVE Rows(RESUMED, c) # {} /\ Before(RESUMED, c) = PREPARED
    OBVIOUS
  <2>1. /\ stateFlowTable[7][2] = RESUMED /\ stateFlowTable[7][1] >= c /\ stateFlowTable[7][1] = PREPARED
        /\ \A j \in 1 .. 6 : stateFlowTable[j][2] = RESUMED => ~(stateFlowTable[j][1] >= c)
    BY TableRows
  <2> QED
    BY <2>1, FirstRow
<1>9. c \in {RESUMED, SUSPENDED} =>
         Rows(RESUMED, c) # {} /\ Before(RESUMED, c) = SUSPENDED
  <2> SUFFICES ASSUME c \in {RESUMED, SUSPENDED} PROVE Rows(RESUMED, c) # {} /\ Before(RESUMED, c) = SUSPENDED
    OBVIOUS
  <2>1. /\ stateFlowTable[8][2] = RESUMED /\ stateFlowTable[8][1] >= c /\ stateFlowTable[8][1] = SUSPENDED
        /\ \A j \in 1 .. 7 : stateFlowTable[j][2] = RESUMED => ~(stateFlowTable[j][1] >= c)
    BY TableRows
  <2> QED
    BY <2>1, FirstRow
<1>10. c \in {RELEASED} => Rows(RESUMED, c) = {}
  BY NoRows, TableRows
<1>11. c \in {NOSTATE, CONNECT, CONNECTED, CLAIMED, PREPARED, RESUMED} =>
         Rows(SUSPENDED, c) # {} /\ Before(SUSPENDED, c) = RESUMED
  <2> SUFFICES ASSUME c \in {NOSTATE, CONNECT, CONNECTED, CLAIMED, PREPARED, RESUMED} PROVE Rows(SUSPENDED, c) # {} /\ Before(SUSPENDED, c) = RESUMED
    OBVIOUS
  <2>1. /\ stateFlowTable[10][2] = SUSPENDED /\ stateFlowTable[10][1] >= c /\ stateFlowTable[10][1] = RESUMED
        /\ \A j \in 1 .. 9 : stateFlowTable[j][2] = SUSPENDED => ~(stateFlowTable[j][1] >= c)
    BY TableRows
  <2> QED
    BY <2>1, FirstRow
<1>12. c \in {SUSPENDED, RELEASED} => Rows(SUSPENDED, c) = {}
  BY NoRows, TableRows
<1>13. c \in {NOSTATE, CONNECT, CONNECTED, CLAIMED} =>
         Rows(RELEASED, c) # {} /\ Before(RELEASED, c) = CLAIMED
  <2> SUFFICES ASSUME c \in {NOSTATE, CONNECT, CONNECTED, CLAIMED} PROVE Rows(RELEASED, c) # {} /\ Before(RELEASED, c) = CLAIMED
    OBVIOUS
  <2>1. /\ stateFlowTable[13][2] = RELEASED /\ stateFlowTable[13][1] >= c /\ stateFlowTable[13][1] = CLAIMED
        /\ \A j \in 1 .. 12 : stateFlowTable[j][2] = RELEASED => ~(stateFlowTable[j][1] >= c)
    BY TableRows
  <2> QED
    BY <2>1, FirstRow
<1>14. c \in {PREPARED} =>
         Rows(RELEASED, c) # {} /\ Before(RELEASED, c) = PREPARED
  <2> SUFFICES ASSUME c \in {PREPARED} PROVE Rows(RELEASED, c) # {} /\ Before(RELEASED, c) = PREPARED
    OBVIOUS
  <2>1. /\ stateFlowTable[14][2] = RELEASED /\ stateFlowTable[14][1] >= c /\ stateFlowTable[14][1] = PREPARED
        /\ \A j \in 1 .. 13 : stateFlowTable[j][2] = RELEASED => ~(stateFlowTable[j][1] >= c)
    BY TableRows
  <2> QED
    BY <2>1, FirstRow
<1>15. c \in {RESUMED, SUSPENDED} =>
         Rows(RELEASED, c) # {} /\ Before(RELEASED, c) = SUSPENDED
  <2> SUFFICES ASSUME c \in {RESUMED, SUSPENDED} PROVE Rows(RELEASED, c) # {} /\ Before(RELEASED, c) = SUSPENDED
    OBVIOUS
  <2>1. /\ stateFlowTable[15][2] = RELEASED /\ stateFlowTable[15][1] >= c /\ stateFlowTable[15][1] = SUSPENDED
        /\ \A j \in 1 .. 14 : stateFlowTable[j][2] = RELEASED => ~(stateFlowTable[j][1] >= c)
    BY TableRows
  <2> QED
    BY <2>1, FirstRow
<1>16. c \in {RELEASED} => Rows(RELEASED, c) = {}
  BY NoRows, TableRows
<1>17. c \in {NOSTATE, CONNECT, CONNECTED} =>
         Rows(QUITED, c) # {} /\ Before(QUITED, c) = CONNECTED
  <2> SUFFICES ASSUME c \in {NOSTATE, CONNECT, CONNECTED} PROVE Rows(QUITED, c) # {} /\ Before(QUITED, c) = CONNECTED
    OBVIOUS
  <2>1. /\ stateFlowTable[17][2] = QUITED /\ stateFlowTable[17][1] >= c /\ stateFlowTable[17][1] = CONNECTED
        /\ \A j \in 1 .. 16 : stateFlowTable[j][2] = QUITED => ~(stateFlowTable[j][1] >= c)
    BY TableRows
  <2> QED
    BY <2>1, FirstRow
<1>18. c \in {CLAIMED, PREPARED, RESUMED, SUSPENDED, RELEASED} =>
         Rows(QUITED, c) # {} /\ Before(QUITED, c) = RELEASED
  <2> SUFFICES ASSUME c \in {CLAIMED, PREPARED, RESUMED, SUSPENDED, RELEASED} PROVE Rows(QUITED, c) # {} /\ Before(QUITED, c) = RELEASED
    OBVIOUS
  <2>1. /\ stateFlowTable[18][2] = QUITED /\ stateFlowTable[18][1] >= c /\ stateFlowTable[18][1] = RELEASED
        /\ \A j \in 1 .. 17 : stateFlowTable[j][2] = QUITED => ~(stateFlowTable[j][1] >= c)
    BY TableRows
  <2> QED
    BY <2>1, FirstRow
<1> QED
  BY <1>1, <1>2, <1>3, <1>4, <1>5, <1>6, <1>7, <1>8, <1>9, <1>10, <1>11, <1>12, <1>13, <1>14, <1>15, <1>16, <1>17, <1>18

LEMMA OtherGoals ==
    ASSUME NEW c \in Int, NEW goal, goal \notin Targets
    PROVE  Rows(goal, c) = {}
BY NoRows, TableRows DEF Targets

\* The search ends, from each of these states, so that it defines a function.
Search(f, c, r) ==
    f = [goal \in States |->
            IF Rows(goal, c) = {} THEN r
            ELSE IF Before(goal, c) = c THEN goal
            ELSE f[Before(goal, c)]]

LEMMA SearchEnds ==
    ASSUME NEW r,
           NEW c \in {NOSTATE, CONNECT, CONNECTED, CLAIMED, PREPARED, RESUMED, SUSPENDED, RELEASED}
    PROVE  \E f : Search(f, c, r)
<1> DEFINE step(f, goal) == IF Rows(goal, c) = {} THEN r
                            ELSE IF Before(goal, c) = c THEN goal
                            ELSE f[Before(goal, c)]
<1>1. ASSUME NEW f, f = [goal \in States |-> f[goal]],
             \A goal \in States : f[goal] = step(f, goal)
      PROVE  Search(f, c, r)
  BY <1>1 DEF Search
<1>2. \A goal \in States : goal \notin Targets => Rows(goal, c) = {}
  BY OtherGoals
<1>3. Targets \subseteq States
  BY DEF Targets, States
<1>4. CASE c \in {NOSTATE, CONNECT}
  <2> DEFINE w == [goal \in States |->
                   IF goal \in {CONNECTED, CLAIMED, PREPARED, RESUMED, SUSPENDED, RELEASED, QUITED} THEN CONNECTED
                   ELSE r]
  <2>1. ASSUME NEW goal \in States PROVE w[goal] = step(w, goal)
    <3>1. CASE goal \notin Targets
      BY <1>2, <3>1 DEF Targets
    <3>2. CASE goal \in Targets
      BY <1>3, <1>4, <3>2, SearchBack DEF Targets
    <3> QED
      BY <3>1, <3>2
  <2>2. w = [goal \in States |-> w[goal]]
    OBVIOUS
  <2> HIDE DEF w, step
  <2> QED
    BY <1>1, <2>1, <2>2
<1>5. CASE c = CONNECTED
  <2> DEFINE w == [goal \in States |->
                   IF goal \in {CLAIMED, PREPARED, RESUMED, SUSPENDED, RELEASED} THEN CLAIMED
                   ELSE IF goal \in {QUITED} THEN QUITED
                   ELSE r]
  <2>1. ASSUME NEW goal \in States PROVE w[goal] = step(w, goal)
    <3>1. CASE goal \notin Targets
      BY <1>2, <3>1 DEF Targets
    <3>2. CASE goal \in Targets
      BY <1>3, <1>5, <3>2, SearchBack DEF Targets
    <3> QED
      BY <3>1, <3>2
  <2>2. w = [goal \in States |-> w[goal]]
    OBVIOUS
  <2> HIDE DEF w, step
  <2> QED
    BY <1>1, <2>1, <2>2
<1>6. CASE c = CLAIMED
  <2> DEFINE w == [goal \in States |->
                   IF goal \in {PREPARED, RESUMED, SUSPENDED} THEN PREPARED
                   ELSE IF goal \in {RELEASED, QUITED} THEN RELEASED
                   ELSE r]
  <2>1. ASSUME NEW goal \in States PROVE w[goal] = step(w, goal)
    <3>1. CASE goal \notin Targets
      BY <1>2, <3>1 DEF Targets
    <3>2. CASE goal \in Targets
      BY <1>3, <1>6, <3>2, SearchBack DEF Targets
    <3> QED
      BY <3>1, <3>2
  <2>2. w = [goal \in States |-> w[goal]]
    OBVIOUS
  <2> HIDE DEF w, step
  <2> QED
    BY <1>1, <2>1, <2>2
<1>7. CASE c = PREPARED
  <2> DEFINE w == [goal \in States |->
                   IF goal \in {RESUMED, SUSPENDED} THEN RESUMED
                   ELSE IF goal \in {RELEASED, QUITED} THEN RELEASED
                   ELSE r]
  <2>1. ASSUME NEW goal \in States PROVE w[goal] = step(w, goal)
    <3>1. CASE goal \notin Targets
      BY <1>2, <3>1 DEF Targets
    <3>2. CASE goal \in Targets
      BY <1>3, <1>7, <3>2, SearchBack DEF Targets
    <3> QED
      BY <3>1, <3>2
  <2>2. w = [goal \in States |-> w[goal]]
    OBVIOUS
  <2> HIDE DEF w, step
  <2> QED
    BY <1>1, <2>1, <2>2
<1>8. CASE c = RESUMED
  <2> DEFINE w == [goal \in States |->
                   IF goal \in {RESUMED, SUSPENDED, RELEASED, QUITED} THEN SUSPENDED
                   ELSE r]
  <2>1. ASSUME NEW goal \in States PROVE w[goal] = step(w, goal)
    <3>1. CASE goal \notin Targets
      BY <1>2, <3>1 DEF Targets
    <3>2. CASE goal \in Targets
      BY <1>3, <1>8, <3>2, SearchBack DEF Targets
    <3> QED
      BY <3>1, <3>2
  <2>2. w = [goal \in States |-> w[goal]]
    OBVIOUS
  <2> HIDE DEF w, step
  <2> QED
    BY <1>1, <2>1, <2>2
<1>9. CASE c = SUSPENDED
  <2> DEFINE w == [goal \in States |->
                   IF goal \in {RESUMED} THEN RESUMED
                   ELSE IF goal \in {RELEASED, QUITED} THEN RELEASED
                   ELSE r]
  <2>1. ASSUME NEW goal \in States PROVE w[goal] = step(w, goal)
    <3>1. CASE goal \notin Targets
      BY <1>2, <3>1 DEF Targets
    <3>2. CASE goal \in Targets
      BY <1>3, <1>9, <3>2, SearchBack DEF Targets
    <3> QED
      BY <3>1, <3>2
  <2>2. w = [goal \in States |-> w[goal]]
    OBVIOUS
  <2> HIDE DEF w, step
  <2> QED
    BY <1>1, <2>1, <2>2
<1>10. CASE c = RELEASED
  <2> DEFINE w == [goal \in States |->
                   IF goal \in {QUITED} THEN QUITED
                   ELSE r]
  <2>1. ASSUME NEW goal \in States PROVE w[goal] = step(w, goal)
    <3>1. CASE goal \notin Targets
      BY <1>2, <3>1 DEF Targets
    <3>2. CASE goal \in Targets
      BY <1>3, <1>10, <3>2, SearchBack DEF Targets
    <3> QED
      BY <3>1, <3>2
  <2>2. w = [goal \in States |-> w[goal]]
    OBVIOUS
  <2> HIDE DEF w, step
  <2> QED
    BY <1>1, <2>1, <2>2
<1> QED
  BY <1>4, <1>5, <1>6, <1>7, <1>8, <1>9, <1>10

LEMMA FirstFound ==
    ASSUME NEW r \in States,
           NEW c \in {NOSTATE, CONNECT, CONNECTED, CLAIMED, PREPARED, RESUMED, SUSPENDED, RELEASED}
    PROVE  \E f : /\ FirstOnPath(c, r) = f[r]
                  /\ \A goal \in States :
                        f[goal] = IF Rows(goal, c) = {} THEN r
                                  ELSE IF Before(goal, c) = c THEN goal
                                  ELSE f[Before(goal, c)]
<1> DEFINE g == CHOOSE f : Search(f, c, r)
<1>1. Search(g, c, r)
  BY SearchEnds
<1>2. FirstOnPath(c, r) = g[r]
  BY DEF FirstOnPath, Search
<1> HIDE DEF g
<1>3. ASSUME NEW goal \in States
      PROVE  g[goal] = IF Rows(goal, c) = {} THEN r
                       ELSE IF Before(goal, c) = c THEN goal
                       ELSE g[Before(goal, c)]
  BY <1>1 DEF Search
<1> QED
  BY <1>2, <1>3

\* What comes next on the way from c to r.
LEMMA NextState ==
    ASSUME NEW c \in Settled \cup {CONNECT}, NEW r \in Targets, c < r
    PROVE  /\ c < CONNECTED => getNextState(c, r) = CONNECTED
           /\ c = CONNECTED => getNextState(c, r) = IF r = QUITED THEN QUITED ELSE CLAIMED
           /\ c = CLAIMED => getNextState(c, r) = IF r >= RELEASED THEN RELEASED ELSE PREPARED
           /\ c = PREPARED => getNextState(c, r) = IF r >= RELEASED THEN RELEASED ELSE r
           /\ c = RESUMED => getNextState(c, r) = SUSPENDED
           /\ c = SUSPENDED => getNextState(c, r) = RELEASED
           /\ c = RELEASED => getNextState(c, r) = QUITED
<1>1. c \in {NOSTATE, CONNECT, CONNECTED, CLAIMED, PREPARED, RESUMED, SUSPENDED, RELEASED}
  BY DEF Settled, Targets
<1>2. /\ r \in States /\ Targets \subseteq States /\ \A s \in States : s \in Int
  BY DEF Targets, States
<1>3. PICK f : /\ FirstOnPath(c, r) = f[r]
               /\ \A goal \in States :
                     f[goal] = IF Rows(goal, c) = {} THEN r
                               ELSE IF Before(goal, c) = c THEN goal
                               ELSE f[Before(goal, c)]
  BY <1>1, <1>2, FirstFound
<1> DEFINE inBand == \E i \in DOMAIN stateFlowTable : stateFlowTable[i] = <<c, r>>
<1>4. getNextState(c, r) = IF inBand THEN r ELSE f[r]
  BY <1>1, <1>3 DEF getNextState
<1>5. inBand <=> \/ c \in {NOSTATE, CONNECT} /\ r = CONNECTED
                 \/ c = CONNECTED /\ r \in {CLAIMED, QUITED}
                 \/ c = CLAIMED /\ r \in {PREPARED, RELEASED}
                 \/ c = PREPARED /\ r \in {RESUMED, SUSPENDED, RELEASED}
                 \/ c = RESUMED /\ r = SUSPENDED
                 \/ c = SUSPENDED /\ r = RELEASED
                 \/ c = RELEASED /\ r = QUITED
  BY <1>1, TableRows DEF Targets
<1> HIDE DEF inBand
<1>6. CASE c \in {NOSTATE, CONNECT}
  BY <1>1, <1>2, <1>3, <1>4, <1>5, <1>6, SearchBack DEF Targets
<1>7. CASE c = CONNECTED
  BY <1>1, <1>2, <1>3, <1>4, <1>5, <1>7, SearchBack DEF Targets
<1>8. CASE c = CLAIMED
  BY <1>1, <1>2, <1>3, <1>4, <1>5, <1>8, SearchBack DEF Targets
<1>9. CASE c = PREPARED
  BY <1>1, <1>2, <1>3, <1>4, <1>5, <1>9, SearchBack DEF Targets
<1>10. CASE c = RESUMED
  BY <1>1, <1>2, <1>3, <1>4, <1>5, <1>10, SearchBack DEF Targets
<1>11. CASE c = SUSPENDED
  BY <1>1, <1>2, <1>3, <1>4, <1>5, <1>11, SearchBack DEF Targets
<1>12. CASE c = RELEASED
  BY <1>1, <1>2, <1>3, <1>4, <1>5, <1>12, SearchBack DEF Targets
<1> QED
  BY <1>1, <1>6, <1>7, <1>8, <1>9, <1>10, <1>11, <1>12

-----------------------------------------------------------------------------
(* What _doRequestedAction() sends                                         *)

Ports == {"none", "opening", "open", "broken", "reopening", "removed"}
Entries == [port : Ports, requested : Settled, current : Settled \cup {CONNECT},
            lastRetry : BOOLEAN]
Children == [port : {"null", "open", "broken", "invalid", "absent"}, requested : States,
             current : States, inResync : BOOLEAN, failed : BOOLEAN]

\* Command w takes p on its way.
Follows(p, w) ==
    /\ w # CONNECTED /\ w <= p.requested
    /\ p.current \in Expected(w) /\ p.current \notin {NOSTATE, CONNECT}
    /\ p.requested = QUITED => w >= SUSPENDED
    /\ p.requested = RELEASED /\ p.current # CONNECTED => w >= SUSPENDED

LEMMA CommandFacts ==
    ASSUME NEW p \in Entries, p.requested \in Targets, p.current <= p.requested
    PROVE  \/ Command(p) = <<>>
           \/ \E w \in Targets : Command(p) = <<w>> /\ Follows(p, w)
<1> DEFINE c == p.current
           r == p.requested
           w == getNextState(c, r)
<1>1. c \in Settled \cup {CONNECT} /\ c \in Int /\ r \in Int
  BY DEF Entries, Settled, Targets
<1>2. Command(p) = IF c = r \/ w = CONNECTED THEN <<>> ELSE <<w>>
  BY DEF Command
<1>3. CASE c = r
  BY <1>2, <1>3
<1>4. CASE c < r
  <2>1. /\ c < CONNECTED => w = CONNECTED
        /\ c = CONNECTED => w = IF r = QUITED THEN QUITED ELSE CLAIMED
        /\ c = CLAIMED => w = IF r >= RELEASED THEN RELEASED ELSE PREPARED
        /\ c = PREPARED => w = IF r >= RELEASED THEN RELEASED ELSE r
        /\ c = RESUMED => w = SUSPENDED
        /\ c = SUSPENDED => w = RELEASED
        /\ c = RELEASED => w = QUITED
    BY <1>1, <1>4, NextState
  <2> HIDE DEF w, c, r
  <2>2. \/ w = CONNECTED
        \/ <<c, w>> \in {<<CONNECTED, QUITED>>, <<CONNECTED, CLAIMED>>, <<CLAIMED, RELEASED>>,
                         <<CLAIMED, PREPARED>>, <<PREPARED, RELEASED>>, <<PREPARED, RESUMED>>,
                         <<PREPARED, SUSPENDED>>, <<RESUMED, SUSPENDED>>,
                         <<SUSPENDED, RELEASED>>, <<RELEASED, QUITED>>}
    BY <1>1, <1>4, <2>1 DEF Targets, Settled, r
  <2>3. w # CONNECTED => c \in Expected(w)
    BY <2>2, TableRows DEF Expected
  <2>4. w # CONNECTED =>
          /\ w \in Targets /\ w <= r /\ c \notin {NOSTATE, CONNECT}
          /\ r = QUITED => w >= SUSPENDED
          /\ r = RELEASED /\ c # CONNECTED => w >= SUSPENDED
    BY <1>1, <1>4, <2>1 DEF Targets, Settled, r
  <2> QED
    BY <1>2, <2>3, <2>4 DEF Follows, c, r
<1> QED
  BY <1>1, <1>3, <1>4

\* The commands in hand stay within what is requested, and the first comes after the
\* first contact.
Within(q, p) == \A i \in DOMAIN q : q[i] \in Targets /\ q[i] <= p.requested
AfterContact(q) == \E i \in DOMAIN q : q[i] # CONNECTED

LEMMA CommandsKept ==
    ASSUME NEW p \in Entries, p.requested \in Targets, p.current <= p.requested,
           NEW q \in Seq(Settled), Within(q, p)
    PROVE  /\ q \o Command(p) \in Seq(Settled) /\ Within(q \o Command(p), p)
           /\ AfterContact(q \o Command(p)) =>
                 AfterContact(q) \/ p.current \notin {NOSTATE, CONNECT}
<1>1. CASE Command(p) = <<>>
  <2>1. q \o Command(p) = q
    BY <1>1
  <2> QED
    BY <2>1
<1>2. ASSUME NEW w \in Targets, Command(p) = <<w>>, Follows(p, w)
      PROVE  /\ q \o Command(p) \in Seq(Settled) /\ Within(q \o Command(p), p)
             /\ p.current \notin {NOSTATE, CONNECT}
  <2>1. w \in Settled /\ w <= p.requested
    BY <1>2 DEF Targets, Settled, Follows
  <2>2. q \o Command(p) \in Seq(Settled) /\ DOMAIN (q \o Command(p)) = 1 .. Len(q) + 1
    BY <1>2, <2>1
  <2>3. ASSUME NEW i \in 1 .. Len(q) + 1
        PROVE  (q \o Command(p))[i] = IF i <= Len(q) THEN q[i] ELSE w
    BY <1>2, <2>1
  <2> QED
    BY <1>2, <2>1, <2>2, <2>3 DEF Within, Follows
<1> QED
  BY <1>1, <1>2, CommandFacts

LEMMA HelloFacts ==
    ASSUME NEW p
    PROVE  \/ Hello(p) = <<>>
           \/ p.current = CONNECT /\ ~p.lastRetry /\ Hello(p) = << <<"connect", CONNECT>> >>
BY DEF Hello

-----------------------------------------------------------------------------
(* Sequences                                                               *)

LEMMA TailEntries ==
    ASSUME NEW S, NEW q \in Seq(S), q # <<>>
    PROVE  /\ Tail(q) \in Seq(S) /\ Head(q) \in S /\ Head(q) = q[1] /\ 1 \in DOMAIN q
           /\ \A i \in DOMAIN Tail(q) : i \in Int /\ i + 1 \in DOMAIN q /\ Tail(q)[i] = q[i + 1]
           /\ \A i \in DOMAIN q : i \in Int /\ i >= 1
OBVIOUS

LEMMA ConcatEntries ==
    ASSUME NEW S, NEW q \in Seq(S), NEW m \in Seq(S)
    PROVE  /\ q \o m \in Seq(S)
           /\ \A i \in DOMAIN (q \o m) :
                 \/ i \in DOMAIN q /\ (q \o m)[i] = q[i]
                 \/ i - Len(q) \in DOMAIN m /\ (q \o m)[i] = m[i - Len(q)]
OBVIOUS

LEMMA AppendEntries ==
    ASSUME NEW S, NEW q \in Seq(S), NEW x \in S
    PROVE  /\ Append(q, x) \in Seq(S)
           /\ \A i \in DOMAIN Append(q, x) : i \in Int /\
                 \/ i \in DOMAIN q /\ Append(q, x)[i] = q[i]
                 \/ i = Len(q) + 1 /\ Append(q, x)[i] = x
           /\ \A i \in DOMAIN q : i \in Int /\ i < Len(q) + 1
           /\ q = <<>> => Append(q, x) = <<x>>
<1>1. Append(q, x) \in Seq(S) /\ DOMAIN Append(q, x) = 1 .. Len(q) + 1 /\ Len(q) \in Nat
      /\ DOMAIN q = 1 .. Len(q)
  OBVIOUS
<1>2. \A i \in 1 .. Len(q) + 1 : Append(q, x)[i] = IF i <= Len(q) THEN q[i] ELSE x
  OBVIOUS
<1>3. q = <<>> => Append(q, x) = <<x>>
  OBVIOUS
<1> QED
  BY <1>1, <1>2, <1>3

-----------------------------------------------------------------------------
(* Types                                                                   *)

UpMessages == {"connect", "resync", "done", "failed"} \X States
DownMessages == {"connected", "resynced", "request"} \X States

CCTypes ==
    /\ asked \in Asked /\ actions \in Seq(Asked) /\ unsent \subseteq Asked
    /\ gcTimer \in BOOLEAN /\ daemon \in {"idle", "asked", "done"}
    /\ cc \in Children
PCTypes == pc \in Entries /\ main \in Seq(Settled) /\ confirmed \subseteq Settled
LinkTypes ==
    /\ uplink \in Seq(UpMessages) /\ downlink \in Seq(DownMessages)
    /\ faults \in 0 .. MaxFaults
    /\ cc.port = "open" => pc.port \in {"open", "removed"}

LEMMA Types == TypeOK <=> CCTypes /\ PCTypes /\ LinkTypes
BY DEF TypeOK, CCTypes, PCTypes, LinkTypes, UpMessages, DownMessages, Asked, Children, Entries, Ports

LEMMA TypesPrimed == TypeOK' <=> CCTypes' /\ PCTypes' /\ LinkTypes'
BY DEF TypeOK, CCTypes, PCTypes, LinkTypes, UpMessages, DownMessages, Asked, Children, Entries, Ports

LEMMA StateSets ==
    /\ Asked \subseteq Targets /\ Targets \subseteq Settled /\ Settled \subseteq States
    /\ States \subseteq Int /\ CONNECTED \in Asked /\ Requests \subseteq Asked
    /\ CONNECTED \notin Requests /\ CONNECT \in States /\ CREATED \in States
    /\ \A s \in Requests : s > CONNECTED
BY TreeAssumption DEF Asked, Targets, Settled, States

LEMMA Established ==
    ASSUME NEW c \in Children, NEW state \in States, NEW ok \in BOOLEAN
    PROVE  Establish(c, state, ok) \in Children /\ Establish(c, state, ok).port = c.port
BY DEF Children, Establish

LEMMA PortChanged ==
    ASSUME NEW c \in Children, NEW p \in {"null", "open", "broken", "invalid", "absent"}
    PROVE  [c EXCEPT !.port = p] \in Children /\ [c EXCEPT !.port = p].port = p
BY DEF Children

LEMMA EntryChanged ==
    ASSUME NEW e \in Entries, NEW p \in Ports, NEW r \in Settled, NEW s \in Settled \cup {CONNECT}
    PROVE  /\ [e EXCEPT !.port = p] \in Entries /\ [e EXCEPT !.port = p].port = p
           /\ [e EXCEPT !.port = p].requested = e.requested
           /\ [e EXCEPT !.port = p].current = e.current
           /\ [e EXCEPT !.requested = r] \in Entries /\ [e EXCEPT !.requested = r].requested = r
           /\ [e EXCEPT !.requested = r].port = e.port
           /\ [e EXCEPT !.requested = r].current = e.current
           /\ [e EXCEPT !.current = s] \in Entries /\ [e EXCEPT !.current = s].current = s
           /\ [e EXCEPT !.current = s].port = e.port
           /\ [e EXCEPT !.current = s].requested = e.requested
BY DEF Entries

LEMMA EntryFields ==
    ASSUME NEW e \in Entries
    PROVE  /\ e.port \in Ports /\ e.requested \in Settled /\ e.current \in Settled \cup {CONNECT}
           /\ e.requested \in Int /\ e.current \in Int
BY DEF Entries, Settled

\* To reset the retries leaves everything else as it is.
LEMMA ResetFacts ==
    ASSUME NEW e \in Entries
    PROVE  /\ ResetRetries(e) \in Entries
           /\ ResetRetries(e).port = e.port /\ ResetRetries(e).requested = e.requested
           /\ ResetRetries(e).current = e.current
           /\ ResetRetries(e).lastRetry => e.lastRetry
BY DEF Entries, ResetRetries

-----------------------------------------------------------------------------
(* The steps                                                               *)

LEMMA TreeInit == Init => TreeInv
<1> SUFFICES ASSUME Init PROVE TreeInv
  OBVIOUS
<1>1. CCTypes
  <2>1. <<CONNECTED>> \in Seq(Asked) /\ CONNECTED \in Asked
    BY StateSets
  <2>2. cc \in Children
    BY DEF Init, Children, States
  <2> QED
    BY <2>1, <2>2 DEF Init, CCTypes
<1>2. PCTypes
  BY DEF Init, PCTypes, Entries, Ports, Settled
<1>3. LinkTypes
  BY TreeAssumption DEF Init, LinkTypes
<1>4. Contact
  BY DEF Init, Contact
<1>5. Order
  BY DEF Init, Order, Asked
<1>6. InHand
  BY DEF Init, InHand
<1>7. Fresh
  BY DEF Init, Fresh
<1> QED
  BY <1>1, <1>2, <1>3, <1>4, <1>5, <1>6, <1>7, Types DEF TreeInv

\* Steps that change nothing but the entry in ChildControl.
LEMMA EntryStep ==
    ASSUME TreeInv, CCTypes', faults' \in 0 .. MaxFaults,
           cc'.port = "open" => cc.port = "open",
           daemon' # "done" => daemon # "done", daemon = "idle" => daemon' = "idle",
           UNCHANGED <<asked, actions, pcvars, uplink, downlink>>
    PROVE  TreeInv'
<1>1. TypeOK'
  BY Types, TypesPrimed DEF TreeInv, PCTypes, LinkTypes, pcvars
<1>2. Contact'
  BY DEF TreeInv, Contact, pcvars
<1>3. Order'
  BY DEF TreeInv, Order, Request, pcvars
<1>4. InHand'
  BY DEF TreeInv, InHand, pcvars
<1>5. Fresh'
  BY DEF TreeInv, Fresh, pcvars
<1> QED
  BY <1>1, <1>2, <1>3, <1>4, <1>5 DEF TreeInv

LEMMA EntrySteps ==
    ASSUME TreeInv,
           StartFails \/ StartDaemonOffline \/ GarbageCollection \/ ChildDisconnected
    PROVE  TreeInv'
<1>1. CCTypes /\ LinkTypes /\ cc \in Children
  BY Types DEF TreeInv, CCTypes
<1> DEFINE gone(state) == [Establish(cc, state, FALSE) EXCEPT !.port = "invalid"]
<1>2. \A state \in States : gone(state) \in Children /\ gone(state).port = "invalid"
  BY <1>1, Established, PortChanged
<1>3. CREATED \in States /\ QUITED \in States
  BY DEF States
<1> HIDE DEF gone
<1>4. CASE StartFails
  <2>1. cc' = IF Listed THEN gone(CREATED) ELSE cc
    BY <1>4 DEF StartFails, gone
  <2>2. cc' \in Children /\ (cc'.port = "open" => cc.port = "open")
    BY <1>1, <1>2, <1>3, <2>1
  <2>3. /\ daemon = "asked" /\ daemon' = "done" /\ gcTimer' = TRUE
        /\ UNCHANGED <<asked, actions, unsent, pcvars, uplink, downlink, faults>>
    BY <1>4 DEF StartFails
  <2>4. CCTypes' /\ faults' \in 0 .. MaxFaults
    BY <1>1, <2>2, <2>3 DEF CCTypes, LinkTypes
  <2> QED
    BY <2>2, <2>3, <2>4, EntryStep
<1>5. CASE StartDaemonOffline
  <2>1. /\ cc' = gone(QUITED) /\ gcTimer' = TRUE
        /\ faults < MaxFaults /\ faults' = faults + 1
        /\ UNCHANGED <<asked, actions, daemon, unsent, pcvars, uplink, downlink>>
    BY <1>5 DEF StartDaemonOffline, gone
  <2>2. cc' \in Children /\ cc'.port # "open"
    BY <1>2, <1>3, <2>1
  <2>3. CCTypes' /\ faults' \in 0 .. MaxFaults
    BY <1>1, <2>1, <2>2, TreeAssumption DEF CCTypes, LinkTypes
  <2> QED
    BY <2>1, <2>2, <2>3, EntryStep
<1>6. CASE GarbageCollection
  <2>1. /\ \/ cc.port = "null" /\ cc' = gone(QUITED)
           \/ cc.port = "invalid" /\ cc' = [cc EXCEPT !.port = "absent"]
           \/ cc' = cc
        /\ gcTimer' \in BOOLEAN
        /\ UNCHANGED <<asked, actions, daemon, unsent, pcvars, uplink, downlink, faults>>
    BY <1>6 DEF GarbageCollection, gone
  <2>2. cc' \in Children /\ (cc'.port = "open" => cc.port = "open")
    BY <1>1, <1>2, <1>3, <2>1, PortChanged
  <2>3. CCTypes' /\ faults' \in 0 .. MaxFaults
    BY <1>1, <2>1, <2>2 DEF CCTypes, LinkTypes
  <2> QED
    BY <2>1, <2>2, <2>3, EntryStep
<1>7. CASE ChildDisconnected
  <2>1. /\ \/ cc' = [cc EXCEPT !.port = "absent"]
           \/ cc' = [cc EXCEPT !.port = "null", !.failed = TRUE]
        /\ gcTimer' = TRUE
        /\ UNCHANGED <<asked, actions, daemon, unsent, pcvars, uplink, downlink, faults>>
    BY <1>7 DEF ChildDisconnected
  <2>2. cc' \in Children /\ cc'.port # "open"
    BY <1>1, <2>1 DEF Children
  <2>3. CCTypes' /\ faults' \in 0 .. MaxFaults
    BY <1>1, <2>1, <2>2 DEF CCTypes, LinkTypes
  <2> QED
    BY <2>1, <2>2, <2>3, EntryStep
<1> QED
  BY <1>4, <1>5, <1>6, <1>7

LEMMA RequestStep ==
    ASSUME TreeInv, NEW s \in Requests, RequestState(s)
    PROVE  TreeInv'
<1>1. CCTypes /\ PCTypes /\ LinkTypes
  BY Types DEF TreeInv
<1>2. /\ asked < s /\ asked' = s
      /\ UNCHANGED <<gcTimer, daemon, unsent, pcvars, uplink, downlink, faults>>
  BY DEF RequestState
<1>3. /\ cc' \in Children
      /\ cc'.port = "open" => cc.port = "open"
      /\ \/ actions' = actions
         \/ actions' = Append(actions, s)
         \/ actions # <<>> /\ actions' = Append(Tail(actions), s)
  <2>1. cc \in Children /\ s \in States
    BY <1>1, StateSets DEF CCTypes
  <2>2. \/ cc' = cc
        \/ cc' = [cc EXCEPT !.requested = s, !.failed = FALSE, !.port = "invalid"]
        \/ cc' = [cc EXCEPT !.requested = s, !.failed = FALSE, !.port = @]
    BY DEF RequestState
  <2>3. \/ actions' = actions
        \/ actions' = Append(actions, s)
        \/ actions # <<>> /\ actions' = Append(Tail(actions), s)
    BY DEF RequestState
  <2> QED
    BY <2>1, <2>2, <2>3 DEF Children
<1>4. /\ actions \in Seq(Asked) /\ s \in Asked /\ s \in Int /\ asked \in Int /\ s > CONNECTED
      /\ \A x \in Asked : x \in Int
      /\ pc.requested \in Int
      /\ pc.requested \in Asked /\ pc.requested <= asked
  BY <1>1, StateSets, EntryFields DEF CCTypes, PCTypes, TreeInv, Order
<1>5. /\ actions' \in Seq(Asked)
      /\ \A i \in DOMAIN actions' :
            i \in Int /\ (\/ actions'[i] = s
                          \/ \E j \in DOMAIN actions : actions'[i] = actions[j])
      /\ \A i, j \in DOMAIN actions' : i < j =>
            \/ actions'[j] = s /\ \E k \in DOMAIN actions : actions'[i] = actions[k]
            \/ \E k, l \in DOMAIN actions :
                  k < l /\ actions'[i] = actions[k] /\ actions'[j] = actions[l]
  <2>1. CASE actions' = actions
    BY <1>4, <2>1
  <2>2. CASE actions' = Append(actions, s)
    BY <1>4, <2>2, AppendEntries
  <2>3. CASE actions # <<>> /\ actions' = Append(Tail(actions), s)
    <3> DEFINE t == Tail(actions)
    <3>1. /\ t \in Seq(Asked)
          /\ \A i \in DOMAIN t : i \in Int /\ i + 1 \in DOMAIN actions /\ t[i] = actions[i + 1]
      BY <1>4, <2>3, TailEntries
    <3>2. actions' = Append(t, s)
      BY <2>3
    <3> HIDE DEF t
    <3>3. /\ actions' \in Seq(Asked)
          /\ \A i \in DOMAIN actions' : i \in Int /\
                \/ i \in DOMAIN t /\ actions'[i] = t[i]
                \/ i = Len(t) + 1 /\ actions'[i] = s
          /\ \A i \in DOMAIN t : i < Len(t) + 1
      BY <1>4, <3>1, <3>2, AppendEntries
    <3>4. \A i \in DOMAIN actions' :
             i \in Int /\ (\/ actions'[i] = s
                          \/ \E j \in DOMAIN actions : actions'[i] = actions[j])
      BY <3>1, <3>3
    <3>5. ASSUME NEW i \in DOMAIN actions', NEW j \in DOMAIN actions', i < j
          PROVE  \/ actions'[j] = s /\ \E k \in DOMAIN actions : actions'[i] = actions[k]
                 \/ \E k, l \in DOMAIN actions :
                       k < l /\ actions'[i] = actions[k] /\ actions'[j] = actions[l]
      <4>1. i \in DOMAIN t /\ actions'[i] = t[i] /\ i \in Int /\ j \in Int
        <5>1. Len(t) \in Int
          BY <3>1
        <5> QED
          BY <3>3, <3>5, <5>1
      <4>2. i + 1 \in DOMAIN actions /\ actions'[i] = actions[i + 1]
        BY <3>1, <4>1
      <4>3. CASE actions'[j] = s
        BY <4>2, <4>3
      <4>4. CASE j \in DOMAIN t /\ actions'[j] = t[j]
        <5>1. j + 1 \in DOMAIN actions /\ actions'[j] = actions[j + 1] /\ i + 1 < j + 1
          BY <3>1, <3>5, <4>1, <4>4
        <5> QED
          BY <4>2, <5>1
      <4> QED
        BY <3>3, <4>3, <4>4
    <3> QED
      BY <3>3, <3>4, <3>5
  <2> QED
    BY <1>3, <2>1, <2>2, <2>3
<1>6. TypeOK'
  <2>1. CCTypes'
    BY <1>1, <1>2, <1>3, <1>4, <1>5 DEF CCTypes
  <2> QED
    BY <1>1, <1>2, <1>3, <2>1, TypesPrimed DEF PCTypes, LinkTypes, pcvars
<1>7. Contact'
  BY <1>2, <1>4, <1>5 DEF TreeInv, Contact, pcvars
<1>8. \A i \in DOMAIN downlink : Request(i) => downlink[i][2] \in Int
  <2>1. \A i \in DOMAIN downlink : downlink[i] \in DownMessages
    BY <1>1 DEF LinkTypes
  <2> QED
    BY <2>1, StateSets DEF DownMessages
<1>9. \A i \in DOMAIN actions : actions[i] \in Int
  <2>1. actions \in Seq(Asked) /\ \A x \in Asked : x \in Int
    BY <1>4
  <2>2. \A i \in DOMAIN actions : actions[i] \in Asked
    BY <2>1
  <2> QED
    BY <2>1, <2>2
<1>10. Order'
  <2>1. pc' = pc /\ downlink' = downlink
    BY <1>2 DEF pcvars
  <2>2. \A i \in DOMAIN downlink :
           Request(i) => /\ downlink[i][2] \in Requests
                         /\ pc.requested < downlink[i][2] /\ downlink[i][2] <= asked
    BY DEF TreeInv, Order
  <2>3. \A i \in DOMAIN actions' :
          /\ actions'[i] <= s
          /\ actions'[i] # CONNECTED =>
                /\ pc.requested < actions'[i]
                /\ \A j \in DOMAIN downlink : Request(j) => downlink[j][2] < actions'[i]
    <3> TAKE i \in DOMAIN actions'
    <3>1. CASE actions'[i] = s
      BY <1>2, <1>4, <1>8, <2>2, <3>1
    <3>2. ASSUME NEW k \in DOMAIN actions, actions'[i] = actions[k]
          PROVE  /\ actions'[i] <= s
                 /\ actions'[i] # CONNECTED =>
                       /\ pc.requested < actions'[i]
                       /\ \A j \in DOMAIN downlink : Request(j) => downlink[j][2] < actions'[i]
      BY <1>2, <1>4, <1>9, <3>2 DEF TreeInv, Order
    <3> QED
      BY <1>5, <3>1, <3>2
  <2>4. \A i, j \in DOMAIN actions' : i < j => actions'[i] < actions'[j]
    <3>1. \A k \in DOMAIN actions : actions[k] <= asked
      BY DEF TreeInv, Order
    <3>2. \A k, l \in DOMAIN actions : k < l => actions[k] < actions[l]
      BY DEF TreeInv, Order
    <3> QED
      BY <1>2, <1>4, <1>5, <1>9, <3>1, <3>2
  <2> QED
    BY <1>2, <1>4, <1>8, <2>1, <2>2, <2>3, <2>4 DEF TreeInv, Order, Request
<1>11. InHand'
  BY <1>2 DEF TreeInv, InHand, pcvars
<1>12. Fresh'
  BY <1>2, <1>3 DEF TreeInv, Fresh, pcvars
<1> QED
  BY <1>6, <1>7, <1>10, <1>11, <1>12 DEF TreeInv

\* What is in the two queues of messages and in the list of actions.
LEMMA Contents ==
    ASSUME TreeInv
    PROVE  /\ actions \in Seq(Asked) /\ uplink \in Seq(UpMessages) /\ downlink \in Seq(DownMessages)
           /\ \A i \in DOMAIN actions : actions[i] \in Asked /\ actions[i] \in Int
           /\ \A i \in DOMAIN uplink : uplink[i] \in UpMessages
           /\ \A i \in DOMAIN downlink : downlink[i] \in DownMessages /\ downlink[i][2] \in Int
           /\ asked \in Int /\ pc.requested \in Int /\ pc.current \in Int
<1>1. CCTypes /\ PCTypes /\ LinkTypes
  BY Types DEF TreeInv
<1>2. actions \in Seq(Asked) /\ uplink \in Seq(UpMessages) /\ downlink \in Seq(DownMessages)
  BY <1>1 DEF CCTypes, LinkTypes
<1>3. /\ \A i \in DOMAIN actions : actions[i] \in Asked
      /\ \A i \in DOMAIN uplink : uplink[i] \in UpMessages
      /\ \A i \in DOMAIN downlink : downlink[i] \in DownMessages
  BY <1>2
<1>4. \A m \in DownMessages : m[2] \in Int
  BY StateSets DEF DownMessages
<1>5. \A x \in Asked : x \in Int
  BY StateSets
<1> QED
  BY <1>1, <1>2, <1>3, <1>4, <1>5, EntryFields DEF CCTypes, PCTypes

LEMMA ActionStep ==
    ASSUME TreeInv, ProcessAction
    PROVE  TreeInv'
<1>1. CCTypes /\ PCTypes /\ LinkTypes
  BY Types DEF TreeInv
<1> DEFINE a == Head(actions)
           t == Tail(actions)
           msg == <<"request", a>>
<1>2. /\ actions # <<>> /\ actions' = t
      /\ UNCHANGED <<asked, gcTimer, pcvars, uplink, faults>>
  BY DEF ProcessAction
<1>3. /\ cc' = cc \/ cc' = Establish(cc, a, TRUE)
      /\ unsent' = unsent \/ unsent' = unsent \cup {a}
      /\ \/ daemon' = daemon
         \/ daemon' = "asked" /\ a = CONNECTED
      /\ \/ downlink' = downlink
         \/ /\ a # CONNECTED /\ downlink' = Append(downlink, msg)
            /\ cc.port = "open" /\ cc' = cc
  BY DEF ProcessAction, SendDown
<1>4. /\ t \in Seq(Asked) /\ a \in Asked /\ a = actions[1] /\ 1 \in DOMAIN actions
      /\ \A i \in DOMAIN t : i \in Int /\ i + 1 \in DOMAIN actions /\ t[i] = actions[i + 1]
      /\ \A i \in DOMAIN actions : i \in Int /\ i >= 1
  BY <1>2, Contents, TailEntries
<1>5. \A i \in DOMAIN t : t[i] > a /\ t[i] \in Asked
  BY <1>4, Contents DEF TreeInv, Order
<1>6. a \in States /\ a \in Int /\ a >= CONNECTED
  <2>1. a \in Targets
    BY <1>4, StateSets
  <2> HIDE DEF a
  <2> QED
    BY <2>1 DEF Targets, States
<1>7. cc' \in Children /\ cc'.port = cc.port
  BY <1>1, <1>3, <1>6, Established DEF CCTypes
<1>8. msg \in DownMessages
  BY <1>6 DEF DownMessages
<1>9. /\ downlink' \in Seq(DownMessages)
      /\ \A i \in DOMAIN downlink' : i \in Int /\
            \/ i \in DOMAIN downlink /\ downlink'[i] = downlink[i]
            \/ i = Len(downlink) + 1 /\ downlink'[i] = msg /\ a # CONNECTED
               /\ cc.port = "open"
      /\ \A i \in DOMAIN downlink : i \in Int /\ i < Len(downlink) + 1
      /\ Len(downlink) \in Nat
  <2>1. downlink \in Seq(DownMessages)
    BY Contents
  <2>2. CASE downlink' = downlink
    BY <2>1, <2>2
  <2>3. CASE /\ a # CONNECTED /\ downlink' = Append(downlink, msg)
             /\ cc.port = "open"
    <3> HIDE DEF a, t, msg
    <3> DEFINE n == Append(downlink, msg)
    <3>1. /\ n \in Seq(DownMessages)
          /\ \A i \in DOMAIN n :
                /\ i \in Int
                /\ \/ i \in DOMAIN downlink /\ n[i] = downlink[i]
                   \/ i = Len(downlink) + 1 /\ n[i] = msg
          /\ \A i \in DOMAIN downlink : i \in Int /\ i < Len(downlink) + 1
      BY <1>8, <2>1, AppendEntries
    <3>2. downlink' = n
      BY <2>3
    <3> HIDE DEF n
    <3> QED
      BY <2>1, <2>3, <3>1, <3>2
  <2> QED
    BY <1>3, <2>2, <2>3
<1>10. msg[1] = "request" /\ msg[2] = a
  OBVIOUS
<1> HIDE DEF msg
<1> HIDE DEF a, t
<1>11. pc' = pc /\ main' = main /\ confirmed' = confirmed
  BY <1>2 DEF pcvars
<1>12. TypeOK'
  <2>1. CCTypes'
    BY <1>1, <1>2, <1>3, <1>4, <1>7 DEF CCTypes
  <2> QED
    BY <1>1, <1>2, <1>7, <1>9, <1>11, <2>1, TypesPrimed DEF PCTypes, LinkTypes
<1>13. cc.port = "open" => pc.port \in {"open", "removed"}
  BY <1>1 DEF LinkTypes
<1>14. Contact'
  <2>1. daemon' # "done" => pc.port = "none"
    BY <1>3, <1>4 DEF TreeInv, Contact
  <2>2. \A i \in DOMAIN t : t[i] # CONNECTED
    BY <1>5, <1>6, StateSets
  <2>3. pc.port \notin {"open", "removed"} => downlink' = <<>>
    BY <1>3, <1>13 DEF TreeInv, Contact
  <2> QED
    BY <1>2, <1>11, <2>1, <2>2, <2>3 DEF TreeInv, Contact
<1>15. Order'
  <2>1. /\ pc.requested \in Asked /\ pc.requested <= asked /\ a <= asked
        /\ a # CONNECTED => a \in Requests
        /\ a # CONNECTED => /\ pc.requested < a
                            /\ \A j \in DOMAIN downlink : Request(j) => downlink[j][2] < a
    BY <1>4 DEF TreeInv, Order, Asked
  <2>2. \A i \in DOMAIN downlink' :
           downlink'[i][1] = "request" =>
              /\ downlink'[i][2] \in Requests
              /\ pc.requested < downlink'[i][2] /\ downlink'[i][2] <= asked
    <3> TAKE i \in DOMAIN downlink'
    <3>1. CASE i \in DOMAIN downlink /\ downlink'[i] = downlink[i]
      BY <3>1 DEF TreeInv, Order, Request
    <3>2. CASE downlink'[i] = msg /\ a # CONNECTED
      BY <1>10, <2>1, <3>2
    <3> QED
      BY <1>9, <3>1, <3>2
  <2>3. \A i, j \in DOMAIN downlink' :
           i < j /\ downlink'[i][1] = "request" /\ downlink'[j][1] = "request" =>
              downlink'[i][2] < downlink'[j][2]
    <3> SUFFICES ASSUME NEW i \in DOMAIN downlink', NEW j \in DOMAIN downlink', i < j,
                        downlink'[i][1] = "request", downlink'[j][1] = "request"
                 PROVE  downlink'[i][2] < downlink'[j][2]
      OBVIOUS
    <3>1. i \in DOMAIN downlink /\ downlink'[i] = downlink[i]
      BY <1>9
    <3>2. CASE j \in DOMAIN downlink /\ downlink'[j] = downlink[j]
      BY <3>1, <3>2 DEF TreeInv, Order, Request
    <3>3. CASE downlink'[j] = msg /\ a # CONNECTED
      BY <1>10, <2>1, <3>1, <3>3 DEF Request
    <3> QED
      BY <1>9, <3>2, <3>3
  <2>4. \A i \in DOMAIN t : /\ t[i] <= asked
                            /\ pc.requested < t[i]
                            /\ \A j \in DOMAIN downlink' :
                                  downlink'[j][1] = "request" => downlink'[j][2] < t[i]
    <3> TAKE i \in DOMAIN t
    <3>1. /\ t[i] = actions[i + 1] /\ i + 1 \in DOMAIN actions /\ t[i] > a
          /\ t[i] # CONNECTED
      BY <1>4, <1>5, <1>6, StateSets
    <3>2. /\ t[i] <= asked /\ pc.requested < t[i]
          /\ \A j \in DOMAIN downlink : Request(j) => downlink[j][2] < t[i]
      BY <3>1 DEF TreeInv, Order
    <3>3. ASSUME NEW j \in DOMAIN downlink', downlink'[j][1] = "request"
          PROVE  downlink'[j][2] < t[i]
      BY <1>9, <1>10, <3>1, <3>2, <3>3 DEF Request
    <3> QED
      BY <3>2, <3>3
  <2>5. \A i, j \in DOMAIN t : i < j => t[i] < t[j]
    BY <1>4 DEF TreeInv, Order
  <2> QED
    BY <1>2, <1>11, <2>1, <2>2, <2>3, <2>4, <2>5 DEF Order, Request
<1>16. InHand'
  <2>1. \A i \in DOMAIN downlink' : downlink'[i][1] = "connected" =>
           i \in DOMAIN downlink /\ downlink[i][1] = "connected"
    BY <1>9, <1>10
  <2> QED
    BY <1>2, <1>11, <2>1 DEF TreeInv, InHand
<1>17. Fresh'
  <2>1. \A i \in DOMAIN downlink' : downlink'[i][1] = "resynced" =>
           i \in DOMAIN downlink /\ downlink[i][1] = "resynced"
    BY <1>9, <1>10
  <2>2. \A i \in DOMAIN uplink : uplink[i][1] = "resync" => downlink' = downlink
    BY <1>3 DEF TreeInv, Fresh
  <2> QED
    BY <1>2, <1>7, <1>11, <2>1, <2>2 DEF TreeInv, Fresh
<1> QED
  BY <1>12, <1>14, <1>15, <1>16, <1>17 DEF TreeInv

LEMMA UpStep ==
    ASSUME TreeInv, ReceiveUp
    PROVE  TreeInv'
<1>1. CCTypes /\ PCTypes /\ LinkTypes
  BY Types DEF TreeInv
<1> DEFINE m == Head(uplink)
           t == Tail(uplink)
           x == IF m[1] = "connect" THEN <<"connected", CONNECTED>> ELSE <<"resynced", m[2]>>
<1>2. /\ uplink # <<>> /\ uplink' = t
      /\ UNCHANGED <<asked, actions, gcTimer, daemon, unsent, pcvars, faults>>
      /\ pc' = pc /\ main' = main /\ confirmed' = confirmed
  BY DEF ReceiveUp, pcvars
<1>3. /\ t \in Seq(UpMessages) /\ m \in UpMessages /\ m = uplink[1] /\ 1 \in DOMAIN uplink
      /\ \A i \in DOMAIN t : i \in Int /\ i + 1 \in DOMAIN uplink /\ t[i] = uplink[i + 1]
      /\ \A i \in DOMAIN uplink : i \in Int /\ i >= 1
  BY <1>2, Contents, TailEntries
<1>4. m[1] \in {"connect", "resync", "done", "failed"} /\ m[2] \in States
  BY <1>3 DEF UpMessages
<1>5. /\ m[1] \in {"connect", "resync"} => downlink' = Append(downlink, x)
      /\ m[1] \notin {"connect", "resync"} => downlink' = downlink
  BY <1>4 DEF ReceiveUp
<1>6. cc' \in Children /\ (m[1] \notin {"connect", "resync"} /\ cc'.port = "open" => cc.port = "open")
  <2>1. cc \in Children /\ CONNECTED \in States
    BY <1>1, StateSets DEF CCTypes, States
  <2>2. \A s \in States, ok \in BOOLEAN : Establish(cc, s, ok) \in Children
                                          /\ Establish(cc, s, ok).port = cc.port
    BY <2>1, Established
  <2>3. CASE m[1] = "connect"
    <3>1. cc' = IF Listed THEN [Establish(cc, CONNECTED, TRUE) EXCEPT !.port = "open"] ELSE cc
      BY <2>3 DEF ReceiveUp
    <3> QED
      BY <2>1, <2>2, <2>3, <3>1, PortChanged
  <2>4. CASE m[1] = "resync"
    <3> DEFINE n == Entry(m[2], TRUE)
    <3>1. cc' = Resync(m[2])
      BY <2>4 DEF ReceiveUp
    <3>2. n \in Children /\ [n EXCEPT !.failed = FALSE] \in Children
      BY <1>4, <2>1 DEF Entry, Children
    <3>3. Establish(n, CONNECTED, TRUE) \in Children
      BY <2>1, <3>2, Established
    <3> QED
      BY <2>4, <3>1, <3>2, <3>3 DEF Resync
  <2>5. CASE m[1] \in {"done", "failed"}
    <3>1. \/ cc' = cc
          \/ cc' = [cc EXCEPT !.port = "absent"]
          \/ cc' = Establish(cc, m[2], m[1] = "done")
      BY <2>5 DEF ReceiveUp
    <3>2. [cc EXCEPT !.port = "absent"] \in Children /\ [cc EXCEPT !.port = "absent"].port = "absent"
      BY <2>1, PortChanged
    <3>3. Establish(cc, m[2], m[1] = "done") \in Children
          /\ Establish(cc, m[2], m[1] = "done").port = cc.port
      BY <1>4, <2>2
    <3>4. cc' \in Children /\ (cc'.port = "open" => cc.port = "open")
      BY <2>1, <3>1, <3>2, <3>3
    <3> QED
      BY <3>4
  <2> QED
    BY <1>4, <2>3, <2>4, <2>5
<1>7. x \in DownMessages
  <2>1. CONNECTED \in States
    BY DEF States
  <2> QED
    BY <1>4, <2>1 DEF DownMessages
<1>8. /\ x[1] # "request"
      /\ x[1] = "connected" => m[1] = "connect"
      /\ x[1] = "resynced" => m[1] # "connect"
  OBVIOUS
<1> HIDE DEF x
<1> HIDE DEF m, t
<1>9. /\ downlink' \in Seq(DownMessages)
      /\ \A i \in DOMAIN downlink' : i \in Int /\
            \/ i \in DOMAIN downlink /\ downlink'[i] = downlink[i]
            \/ i = Len(downlink) + 1 /\ downlink'[i] = x /\ m[1] \in {"connect", "resync"}
  <2>1. downlink \in Seq(DownMessages)
    BY Contents
  <2>2. CASE downlink' = downlink
    BY <2>1, <2>2
  <2>3. CASE downlink' = Append(downlink, x) /\ m[1] \in {"connect", "resync"}
    BY <1>7, <2>1, <2>3, AppendEntries
  <2> QED
    BY <1>5, <2>2, <2>3
<1>10. pc.port \in {"open", "removed"}
  BY <1>2 DEF TreeInv, Contact
<1>11. TypeOK'
  <2>1. CCTypes'
    BY <1>1, <1>2, <1>6 DEF CCTypes
  <2> QED
    BY <1>1, <1>2, <1>3, <1>9, <1>10, <2>1, TypesPrimed DEF PCTypes, LinkTypes
<1>12. Contact'
  BY <1>2, <1>10 DEF TreeInv, Contact
<1>13. \A i \in DOMAIN downlink' : downlink'[i][1] = "request" =>
          i \in DOMAIN downlink /\ downlink'[i] = downlink[i] /\ Request(i)
  BY <1>8, <1>9 DEF Request
<1>14. Order'
  BY <1>2, <1>13 DEF TreeInv, Order, Request
<1>15. InHand'
  <2>1. ASSUME \/ \E i \in DOMAIN t : t[i][1] = "connect"
               \/ \E i \in DOMAIN downlink' : downlink'[i][1] = "connected"
        PROVE  CONNECTED \in confirmed
    <3>1. CASE \E i \in DOMAIN t : t[i][1] = "connect"
      BY <1>3, <3>1 DEF TreeInv, InHand
    <3>2. ASSUME NEW i \in DOMAIN downlink', downlink'[i][1] = "connected"
          PROVE  CONNECTED \in confirmed
      <4>1. CASE i \in DOMAIN downlink /\ downlink'[i] = downlink[i]
        BY <3>2, <4>1 DEF TreeInv, InHand
      <4>2. CASE downlink'[i] = x
        BY <1>3, <1>8, <3>2, <4>2 DEF TreeInv, InHand
      <4> QED
        BY <1>9, <4>1, <4>2
    <3> QED
      BY <2>1, <3>1, <3>2
  <2> QED
    BY <1>2, <2>1 DEF TreeInv, InHand
<1>16. Fresh'
  <2>1. \A i \in DOMAIN t : t[i][1] # "resync"
    BY <1>3 DEF TreeInv, Fresh
  <2>2. \A i \in DOMAIN downlink' : downlink'[i][1] = "resynced" =>
           i = 1 /\ pc.requested < RELEASED
    <3> SUFFICES ASSUME NEW i \in DOMAIN downlink', downlink'[i][1] = "resynced"
                 PROVE  i = 1 /\ pc.requested < RELEASED
      OBVIOUS
    <3>1. CASE i \in DOMAIN downlink /\ downlink'[i] = downlink[i]
      BY <3>1 DEF TreeInv, Fresh
    <3>2. CASE i = Len(downlink) + 1 /\ downlink'[i] = x /\ m[1] \in {"connect", "resync"}
      <4>1. m[1] = "resync"
        BY <1>8, <3>2
      <4>2. downlink = <<>> /\ pc.requested < RELEASED
        BY <1>3, <4>1 DEF TreeInv, Fresh
      <4> QED
        BY <3>2, <4>2
    <3> QED
      BY <1>9, <3>1, <3>2
  <2>3. pc.port # "reopening"
    BY <1>10
  <2> QED
    BY <1>2, <2>1, <2>2, <2>3 DEF Fresh
<1> QED
  BY <1>11, <1>12, <1>14, <1>15, <1>16 DEF TreeInv

LEMMA NewParentStep ==
    ASSUME TreeInv, NewParent
    PROVE  TreeInv'
<1>1. CCTypes /\ PCTypes /\ LinkTypes
  BY Types DEF TreeInv
<1>2. /\ daemon = "asked" /\ daemon' = "done"
      /\ pc' = [pc EXCEPT !.port = "opening"] /\ main' = <<CONNECTED>>
      /\ UNCHANGED <<asked, actions, gcTimer, unsent, confirmed, uplink, downlink, faults>>
  BY DEF NewParent
<1>3. cc' \in Children /\ cc'.port = cc.port
  <2>1. cc \in Children /\ CREATED \in States
    BY <1>1, StateSets DEF CCTypes
  <2>2. cc' = cc \/ cc' = Establish(cc, CREATED, TRUE)
    BY DEF NewParent
  <2> QED
    BY <2>1, <2>2, Established
<1>4. pc.port = "none" /\ pc.requested = CONNECTED /\ uplink = <<>> /\ downlink = <<>>
  BY <1>2 DEF TreeInv, Contact
<1>5. /\ pc' \in Entries /\ pc'.port = "opening"
      /\ pc'.requested = pc.requested /\ pc'.current = pc.current
  BY <1>1, <1>2 DEF PCTypes, Entries, Ports
<1>6. main' \in Seq(Settled) /\ DOMAIN main' = {1} /\ main'[1] = CONNECTED
  BY <1>2 DEF Settled
<1>7. TypeOK'
  <2>1. CCTypes' /\ cc'.port # "open"
    BY <1>1, <1>2, <1>3, <1>4 DEF CCTypes, LinkTypes
  <2> QED
    BY <1>1, <1>2, <1>5, <1>6, <2>1, TypesPrimed DEF PCTypes, LinkTypes
<1>8. Contact'
  BY <1>2, <1>4, <1>5 DEF TreeInv, Contact
<1>9. Order'
  BY <1>2, <1>5 DEF TreeInv, Order, Request
<1>10. InHand'
  BY <1>2, <1>4, <1>5, <1>6 DEF TreeInv, InHand, Targets
<1>11. Fresh'
  BY <1>2, <1>4, <1>5 DEF TreeInv, Fresh
<1> QED
  BY <1>7, <1>8, <1>9, <1>10, <1>11 DEF TreeInv

LEMMA LinkStep ==
    ASSUME TreeInv, LinkBreaks
    PROVE  TreeInv'
<1>1. CCTypes /\ PCTypes /\ LinkTypes
  BY Types DEF TreeInv
<1>2. /\ faults < MaxFaults /\ faults' = faults + 1
      /\ pc.port = "open" /\ pc' = [pc EXCEPT !.port = "broken"]
      /\ uplink' = <<>> /\ downlink' = <<>>
      /\ UNCHANGED <<asked, actions, gcTimer, daemon, unsent, main, confirmed>>
  BY DEF LinkBreaks
<1>3. cc' \in Children /\ cc'.port # "open"
  BY <1>1 DEF LinkBreaks, CCTypes, Children
<1>4. /\ pc' \in Entries /\ pc'.port = "broken"
      /\ pc'.requested = pc.requested /\ pc'.current = pc.current
  BY <1>1, <1>2 DEF PCTypes, Entries, Ports
<1>5. TypeOK'
  <2>1. CCTypes'
    BY <1>1, <1>2, <1>3 DEF CCTypes
  <2>2. uplink' \in Seq(UpMessages) /\ downlink' \in Seq(DownMessages)
    BY <1>2
  <2>3. faults' \in 0 .. MaxFaults
    BY <1>1, <1>2, TreeAssumption DEF LinkTypes
  <2> QED
    BY <1>1, <1>2, <1>3, <1>4, <2>1, <2>2, <2>3, TypesPrimed DEF PCTypes, LinkTypes
<1>6. Contact'
  BY <1>2, <1>4 DEF TreeInv, Contact
<1>7. Order'
  BY <1>2, <1>4 DEF TreeInv, Order, Request
<1>8. InHand'
  BY <1>2, <1>4 DEF TreeInv, InHand
<1>9. Fresh'
  BY <1>2, <1>4 DEF TreeInv, Fresh
<1> QED
  BY <1>5, <1>6, <1>7, <1>8, <1>9 DEF TreeInv

\* Steps of ParentControl that are about the connection only.
LEMMA PortStep ==
    ASSUME TreeInv, ParentDisconnected \/ GiveUp
    PROVE  TreeInv'
<1>1. CCTypes /\ PCTypes /\ LinkTypes
  BY Types DEF TreeInv
<1>2. /\ pc.port \in {"broken", "opening", "reopening"}
      /\ \/ pc' = [pc EXCEPT !.port = "removed"]
         \/ pc' = [pc EXCEPT !.port = "reopening"] /\ ~(pc.requested >= RELEASED)
      /\ faults' \in 0 .. MaxFaults
      /\ UNCHANGED <<ccvars, main, confirmed, uplink, downlink>>
  <2>1. CASE ParentDisconnected
    BY <1>1, <2>1 DEF ParentDisconnected, LinkTypes
  <2>2. CASE GiveUp
    BY <1>1, <2>2, TreeAssumption DEF GiveUp, LinkTypes
  <2> QED
    BY <2>1, <2>2
<1>3. /\ pc' \in Entries /\ pc'.port \in {"removed", "reopening"}
      /\ pc'.requested = pc.requested /\ pc'.current = pc.current
      /\ pc'.port = "reopening" => ~(pc.requested >= RELEASED)
  BY <1>1, <1>2 DEF PCTypes, Entries, Ports
<1>4. cc.port # "open" /\ uplink = <<>> /\ downlink = <<>> /\ daemon = "done"
  BY <1>1, <1>2 DEF TreeInv, Contact, LinkTypes
<1>5. TypeOK'
  BY <1>1, <1>2, <1>3, <1>4, TypesPrimed DEF CCTypes, PCTypes, LinkTypes, ccvars
<1>6. Contact'
  BY <1>2, <1>3, <1>4 DEF TreeInv, Contact, ccvars
<1>7. Order'
  BY <1>2, <1>3 DEF TreeInv, Order, Request, ccvars
<1>8. InHand'
  BY <1>2, <1>3 DEF TreeInv, InHand, ccvars
<1>9. pc.requested \in Int
  BY Contents
<1>10. Fresh'
  BY <1>2, <1>3, <1>4, <1>9 DEF TreeInv, Fresh, ccvars
<1> QED
  BY <1>5, <1>6, <1>7, <1>8, <1>10 DEF TreeInv

LEMMA ConnectStep ==
    ASSUME TreeInv, NEW last \in BOOLEAN, ParentConnected(last)
    PROVE  TreeInv'
<1>1. CCTypes /\ PCTypes /\ LinkTypes
  BY Types DEF TreeInv
<1> DEFINE resync == <<"resync", pc.current>>
<1>2. /\ pc.port \in {"opening", "reopening"}
      /\ pc' = [pc EXCEPT !.port = "open", !.lastRetry = last]
      /\ UNCHANGED <<ccvars, confirmed, downlink>>
      /\ faults' = faults \/ (faults < MaxFaults /\ faults' = faults + 1)
      /\ \/ pc.port = "opening" /\ uplink' = Hello(pc') /\ main' = main \o Command(pc)
         \/ pc.port = "reopening" /\ uplink' = <<resync>> /\ main' = main
  BY DEF ParentConnected
<1>12. faults' \in 0 .. MaxFaults
  BY <1>1, <1>2, TreeAssumption DEF LinkTypes
<1>3. /\ pc' \in Entries /\ pc'.port = "open"
      /\ pc'.requested = pc.requested /\ pc'.current = pc.current
  BY <1>1, <1>2 DEF PCTypes, Entries, Ports
<1>4. cc.port # "open" /\ downlink = <<>> /\ daemon = "done"
  BY <1>1, <1>2 DEF TreeInv, Contact, LinkTypes
<1>5. /\ main' \in Seq(Settled)
      /\ \A i \in DOMAIN main' : main'[i] \in Targets /\ main'[i] <= pc.requested
      /\ AfterContact(main') => AfterContact(main) \/ pc.current \notin {NOSTATE, CONNECT}
  <2>1. /\ pc \in Entries /\ pc.requested \in Targets /\ pc.current <= pc.requested
        /\ main \in Seq(Settled) /\ Within(main, pc)
    BY <1>1, StateSets DEF TreeInv, PCTypes, Order, InHand, Within
  <2>2. CASE main' = main
    BY <2>1, <2>2 DEF Within
  <2>3. CASE main' = main \o Command(pc)
    BY <2>1, <2>3, CommandsKept DEF Within
  <2> QED
    BY <1>2, <2>2, <2>3
<1>6. /\ uplink' \in Seq(UpMessages)
      /\ \A i \in DOMAIN uplink' : uplink'[i][1] = "connect" => pc.current = CONNECT
      /\ \A i \in DOMAIN uplink' : uplink'[i][1] = "resync" => i = 1 /\ pc.port = "reopening"
  <2>1. pc.current \in States
    BY <1>1, StateSets, EntryFields DEF PCTypes
  <2>2. CASE pc.port = "reopening"
    <3>1. resync \in UpMessages
      BY <2>1 DEF UpMessages
    <3> QED
      BY <1>2, <2>2, <3>1
  <2>3. CASE pc.port = "opening"
    <3> DEFINE hello == <<"connect", CONNECT>>
    <3>1. hello \in UpMessages /\ hello[1] = "connect"
      BY StateSets DEF UpMessages
    <3>2. \/ uplink' = <<>>
          \/ pc.current = CONNECT /\ uplink' = <<hello>>
      BY <1>2, <1>3, <2>3, HelloFacts
    <3> HIDE DEF hello
    <3>3. DOMAIN <<hello>> = {1} /\ <<hello>>[1] = hello /\ <<hello>> \in Seq(UpMessages)
      BY <3>1
    <3>4. CASE uplink' = <<>>
      BY <3>4
    <3> QED
      BY <3>1, <3>2, <3>3, <3>4
  <2> QED
    BY <1>2, <2>2, <2>3
<1> HIDE DEF resync
<1>7. TypeOK'
  BY <1>1, <1>2, <1>3, <1>4, <1>5, <1>6, <1>12, TypesPrimed DEF CCTypes, PCTypes, LinkTypes, ccvars
<1>8. Contact'
  BY <1>2, <1>3, <1>4 DEF TreeInv, Contact, ccvars
<1>9. Order'
  BY <1>2, <1>3 DEF TreeInv, Order, Request, ccvars
<1>10. InHand'
  <2>1. pc.current # NOSTATE => CONNECTED \in confirmed
    BY DEF TreeInv, InHand
  <2>2. \A i \in DOMAIN uplink' : uplink'[i][1] = "connect" => CONNECTED \in confirmed
    BY <1>6, <2>1
  <2>3. AfterContact(main') => CONNECTED \in confirmed
    BY <1>5, <2>1 DEF TreeInv, InHand, AfterContact
  <2> QED
    BY <1>2, <1>3, <1>4, <1>5, <2>1, <2>2, <2>3 DEF TreeInv, InHand, ccvars, AfterContact
<1>11. Fresh'
  BY <1>2, <1>3, <1>4, <1>6 DEF TreeInv, Fresh, ccvars
<1> QED
  BY <1>7, <1>8, <1>9, <1>10, <1>11 DEF TreeInv

\* What is sent to the parent: messages msgs of the child, if there is a connection.
LEMMA SendUpFacts ==
    ASSUME TreeInv, NEW msgs \in Seq(UpMessages), SendUp(msgs)
    PROVE  /\ uplink' \in Seq(UpMessages)
           /\ \A i \in DOMAIN uplink' :
                 \/ i \in DOMAIN uplink /\ uplink'[i] = uplink[i]
                 \/ \E j \in DOMAIN msgs : uplink'[i] = msgs[j]
           /\ pc.port # "open" => uplink' = uplink
<1>1. uplink \in Seq(UpMessages)
  BY Contents
<1>2. CASE pc.port = "open"
  <2>1. uplink' = uplink \o msgs
    BY <1>2 DEF SendUp
  <2> QED
    BY <1>1, <1>2, <2>1, ConcatEntries
<1>3. CASE pc.port # "open"
  <2>1. uplink' = uplink
    BY <1>3 DEF SendUp
  <2> QED
    BY <1>1, <2>1
<1> QED
  BY <1>2, <1>3

LEMMA OneMessage ==
    ASSUME NEW x \in UpMessages
    PROVE  <<x>> \in Seq(UpMessages) /\ DOMAIN <<x>> = {1} /\ <<x>>[1] = x
OBVIOUS

LEMMA DownStep ==
    ASSUME TreeInv, ReceiveDown
    PROVE  TreeInv'
<1>1. CCTypes /\ PCTypes /\ LinkTypes
  BY Types DEF TreeInv
<1> DEFINE m == Head(downlink)
           t == Tail(downlink)
<1>2. /\ downlink # <<>> /\ downlink' = t
      /\ UNCHANGED <<ccvars, confirmed, faults>>
  BY DEF ReceiveDown
<1>3. /\ t \in Seq(DownMessages) /\ m \in DownMessages /\ m = downlink[1] /\ 1 \in DOMAIN downlink
      /\ \A i \in DOMAIN t : i \in Int /\ i + 1 \in DOMAIN downlink /\ t[i] = downlink[i + 1]
      /\ \A i \in DOMAIN downlink : i \in Int /\ i >= 1
  BY <1>2, Contents, TailEntries
<1>4. m[1] \in {"connected", "resynced", "request"} /\ m[2] \in States /\ m[2] \in Int
  BY <1>3, StateSets DEF DownMessages
<1> DEFINE introduced == [pc EXCEPT !.current = CONNECTED, !.lastRetry = FALSE]
           asking == [pc EXCEPT !.requested = m[2]]
<1>5. /\ \/ m[1] = "connected" /\ pc' = ResetRetries(introduced)
         \/ m[1] = "request" /\ pc' = ResetRetries(asking)
         \/ m[1] = "resynced" /\ pc' = ResetRetries(pc)
      /\ \/ m[1] = "connected" /\ main' = main /\ uplink' = uplink
         \/ m[1] # "connected" /\ main' = main \o Command(pc') /\ SendUp(Hello(pc'))
  BY <1>4 DEF ReceiveDown
<1>6. m[1] = "request" =>
         m[2] \in Requests /\ m[2] \in Targets /\ m[2] > pc.requested /\ m[2] <= asked
  BY <1>3, StateSets DEF TreeInv, Order, Request
<1> HIDE DEF m, t
<1>7. /\ pc \in Entries /\ pc.requested \in Targets /\ pc.current <= pc.requested
      /\ pc.requested \in Int /\ pc.current \in Int /\ pc.requested >= CONNECTED
  <2>1. pc.requested \in Targets
    BY StateSets DEF TreeInv, Order
  <2> QED
    BY <1>1, <2>1, Contents DEF TreeInv, InHand, PCTypes, Targets
<1>8. /\ pc' \in Entries /\ pc'.port = pc.port /\ pc'.requested \in Targets
      /\ pc'.current <= pc'.requested
      /\ pc'.requested >= pc.requested /\ pc'.requested <= asked
      /\ pc'.requested \in Asked
      /\ m[1] # "request" => pc'.requested = pc.requested
      /\ m[1] = "request" => pc'.requested = m[2]
      /\ m[1] # "connected" => pc'.current = pc.current
      /\ m[1] = "connected" => pc'.current = CONNECTED
  <2>1. pc.requested <= asked /\ asked \in Int /\ pc.requested \in Asked
    BY Contents DEF TreeInv, Order
  <2>2. CASE m[1] = "connected" /\ pc' = ResetRetries(introduced)
    <3>1. /\ introduced \in Entries /\ introduced.port = pc.port
          /\ introduced.requested = pc.requested /\ introduced.current = CONNECTED
      BY <1>7 DEF Entries, Settled
    <3> HIDE DEF introduced
    <3>2. /\ pc' \in Entries /\ pc'.port = pc.port /\ pc'.requested = pc.requested
          /\ pc'.current = CONNECTED
      BY <2>2, <3>1, ResetFacts
    <3> QED
      BY <1>4, <1>7, <2>1, <2>2, <3>2
  <2>3. CASE m[1] = "request" /\ pc' = ResetRetries(asking)
    <3>1. m[2] \in Settled
      BY <1>6, <2>3, StateSets
    <3>2. /\ asking \in Entries /\ asking.port = pc.port /\ asking.requested = m[2]
          /\ asking.current = pc.current
      BY <1>7, <3>1 DEF Entries
    <3> HIDE DEF asking
    <3>3. pc' \in Entries /\ pc'.port = pc.port /\ pc'.requested = m[2] /\ pc'.current = pc.current
      BY <2>3, <3>2, ResetFacts
    <3> QED
      BY <1>4, <1>6, <1>7, <2>3, <3>3 DEF Asked
  <2>4. CASE m[1] = "resynced" /\ pc' = ResetRetries(pc)
    <3>1. pc' \in Entries /\ pc'.port = pc.port /\ pc'.requested = pc.requested
          /\ pc'.current = pc.current
      BY <1>7, <2>4, ResetFacts
    <3> QED
      BY <1>4, <1>7, <2>1, <2>4, <3>1
  <2> QED
    BY <1>5, <2>2, <2>3, <2>4
<1>9. /\ main' \in Seq(Settled)
      /\ \A i \in DOMAIN main' : main'[i] \in Targets /\ main'[i] <= pc'.requested
      /\ AfterContact(main') => AfterContact(main) \/ pc'.current \notin {NOSTATE, CONNECT}
  <2>1. /\ main \in Seq(Settled)
        /\ \A i \in DOMAIN main : main[i] \in Targets /\ main[i] <= pc.requested
    BY <1>1 DEF TreeInv, PCTypes, InHand
  <2>2. pc'.requested \in Int /\ \A x \in Targets : x \in Int
    BY <1>8, StateSets, EntryFields
  <2>3. Within(main, pc')
    BY <1>7, <1>8, <2>1, <2>2 DEF Within
  <2>4. CASE main' = main
    BY <2>1, <2>3, <2>4 DEF Within
  <2>5. CASE main' = main \o Command(pc')
    <3> DEFINE p == pc'
    <3>1. p \in Entries /\ p.requested \in Targets /\ p.current <= p.requested
          /\ Within(main, p) /\ main \in Seq(Settled) /\ main' = main \o Command(p)
      BY <1>8, <2>1, <2>3, <2>5
    <3> HIDE DEF p
    <3>2. /\ main' \in Seq(Settled) /\ Within(main', p)
          /\ AfterContact(main') => AfterContact(main) \/ p.current \notin {NOSTATE, CONNECT}
      BY <3>1, CommandsKept
    <3> QED
      BY <3>2 DEF Within, p
  <2> QED
    BY <1>5, <2>4, <2>5
<1>10. /\ uplink' \in Seq(UpMessages)
       /\ \A i \in DOMAIN uplink' :
             \/ i \in DOMAIN uplink /\ uplink'[i] = uplink[i]
             \/ uplink'[i][1] = "connect" /\ pc'.current = CONNECT
       /\ pc.port # "open" => uplink' = uplink
  <2>1. CASE uplink' = uplink
    BY <1>1, <2>1 DEF LinkTypes
  <2>2. CASE SendUp(Hello(pc'))
    <3> DEFINE hello == <<"connect", CONNECT>>
    <3>1. hello \in UpMessages /\ hello[1] = "connect"
      BY StateSets DEF UpMessages
    <3>2. Hello(pc') = <<>> \/ (pc'.current = CONNECT /\ Hello(pc') = <<hello>>)
      BY DEF Hello
    <3> HIDE DEF hello
    <3>3. Hello(pc') \in Seq(UpMessages)
      <4>1. <<hello>> \in Seq(UpMessages) /\ <<>> \in Seq(UpMessages)
        BY <3>1
      <4> QED
        BY <3>2, <4>1
    <3>4. \A j \in DOMAIN Hello(pc') : Hello(pc')[j] = hello /\ pc'.current = CONNECT
      BY <3>1, <3>2, OneMessage
    <3>5. /\ uplink' \in Seq(UpMessages)
          /\ \A i \in DOMAIN uplink' :
                \/ i \in DOMAIN uplink /\ uplink'[i] = uplink[i]
                \/ \E j \in DOMAIN Hello(pc') : uplink'[i] = Hello(pc')[j]
          /\ pc.port # "open" => uplink' = uplink
      BY <2>2, <3>3, SendUpFacts
    <3> QED
      BY <3>1, <3>4, <3>5
  <2> QED
    BY <1>5, <2>1, <2>2
<1>11. TypeOK'
  BY <1>1, <1>2, <1>3, <1>8, <1>9, <1>10, TypesPrimed DEF CCTypes, PCTypes, LinkTypes, ccvars
<1>12. pc.port \in {"open", "removed"} /\ daemon = "done"
  BY <1>2 DEF TreeInv, Contact
<1>13. Contact'
  BY <1>2, <1>8, <1>12 DEF TreeInv, Contact, ccvars
<1>14. \A i \in DOMAIN t : /\ i + 1 \in DOMAIN downlink /\ t[i] = downlink[i + 1]
                           /\ 1 < i + 1 /\ i \in Int
  BY <1>3
<1>15. Order'
  <2>1. \A i \in DOMAIN t : t[i][1] = "request" =>
           t[i][2] \in Requests /\ pc'.requested < t[i][2] /\ t[i][2] <= asked
    <3> SUFFICES ASSUME NEW i \in DOMAIN t, t[i][1] = "request"
                 PROVE  t[i][2] \in Requests /\ pc'.requested < t[i][2] /\ t[i][2] <= asked
      OBVIOUS
    <3>1. t[i][2] \in Requests /\ pc.requested < t[i][2] /\ t[i][2] <= asked
      BY <1>14 DEF TreeInv, Order, Request
    <3>2. m[1] = "request" => m[2] < t[i][2]
      BY <1>3, <1>14 DEF TreeInv, Order, Request
    <3> QED
      BY <1>8, <3>1, <3>2
  <2>2. \A i, j \in DOMAIN t : i < j /\ t[i][1] = "request" /\ t[j][1] = "request" =>
           t[i][2] < t[j][2]
    BY <1>14 DEF TreeInv, Order, Request
  <2>3. \A i \in DOMAIN actions :
          /\ actions[i] <= asked
          /\ actions[i] # CONNECTED =>
                /\ pc'.requested < actions[i]
                /\ \A j \in DOMAIN t : t[j][1] = "request" => t[j][2] < actions[i]
    <3> TAKE i \in DOMAIN actions
    <3>1. actions[i] <= asked
      BY DEF TreeInv, Order
    <3>2. actions[i] # CONNECTED =>
             pc.requested < actions[i] /\ (m[1] = "request" => m[2] < actions[i])
      BY <1>3 DEF TreeInv, Order, Request
    <3>3. actions[i] # CONNECTED =>
             \A j \in DOMAIN t : t[j][1] = "request" => t[j][2] < actions[i]
      BY <1>14 DEF TreeInv, Order, Request
    <3> QED
      BY <1>8, <3>1, <3>2, <3>3
  <2>4. \A i, j \in DOMAIN actions : i < j => actions[i] < actions[j]
    BY DEF TreeInv, Order
  <2> QED
    BY <1>2, <1>8, <2>1, <2>2, <2>3, <2>4 DEF Order, Request, ccvars
<1>16. InHand'
  <2>1. m[1] = "connected" => CONNECTED \in confirmed
    BY <1>3 DEF TreeInv, InHand
  <2>2. pc'.current \in {NOSTATE, CONNECT} \cup confirmed
    BY <1>8, <2>1 DEF TreeInv, InHand
  <2>3. pc'.current # NOSTATE => CONNECTED \in confirmed
    BY <1>8, <2>1 DEF TreeInv, InHand
  <2>4. ASSUME NEW i \in DOMAIN uplink', uplink'[i][1] = "connect" PROVE CONNECTED \in confirmed
    <3>1. CASE i \in DOMAIN uplink /\ uplink'[i] = uplink[i]
      BY <2>4, <3>1 DEF TreeInv, InHand
    <3>2. CASE pc'.current = CONNECT
      BY <2>3, <3>2
    <3> QED
      BY <1>10, <3>1, <3>2
  <2>5. ASSUME NEW i \in DOMAIN t, t[i][1] = "connected" PROVE CONNECTED \in confirmed
    BY <1>14, <2>5 DEF TreeInv, InHand
  <2>6. AfterContact(main') => CONNECTED \in confirmed
    BY <1>9, <2>3 DEF TreeInv, InHand, AfterContact
  <2> QED
    BY <1>2, <1>8, <1>9, <2>2, <2>3, <2>4, <2>5, <2>6 DEF InHand, AfterContact
<1>17. Fresh'
  <2>1. \A i \in DOMAIN t : t[i][1] # "resynced"
    BY <1>14 DEF TreeInv, Fresh
  <2>2. \A i \in DOMAIN uplink' : uplink'[i][1] # "resync"
    BY <1>2, <1>10 DEF TreeInv, Fresh
  <2> QED
    BY <1>2, <1>8, <1>12, <2>1, <2>2 DEF Fresh
<1> QED
  BY <1>11, <1>13, <1>15, <1>16, <1>17 DEF TreeInv

\* What is left in the hands of the main task when it is done with a command.
LEMMA TailInHand ==
    ASSUME TreeInv, main # <<>>
    PROVE  /\ Head(main) \in Targets /\ Head(main) <= pc.requested /\ Head(main) \in Settled
           /\ Tail(main) \in Seq(Settled)
           /\ \A i \in DOMAIN Tail(main) :
                 Tail(main)[i] \in Targets /\ Tail(main)[i] <= pc.requested
           /\ Head(main) # CONNECTED \/ AfterContact(Tail(main)) => CONNECTED \in confirmed
           /\ pc.port # "none"
           /\ pc.requested \in Targets /\ pc.requested \in Int /\ pc.requested >= CONNECTED
<1>1. main \in Seq(Settled)
  BY Types DEF TreeInv, PCTypes
<1>2. /\ Tail(main) \in Seq(Settled) /\ Head(main) = main[1] /\ 1 \in DOMAIN main
      /\ \A i \in DOMAIN Tail(main) : i + 1 \in DOMAIN main /\ Tail(main)[i] = main[i + 1]
  BY <1>1, TailEntries
<1>3. \A i \in DOMAIN main : main[i] \in Targets /\ main[i] <= pc.requested
  BY DEF TreeInv, InHand
<1>4. pc.port # "none"
  BY DEF TreeInv, Contact
<1>5. pc.requested \in Targets /\ pc.requested \in Int /\ pc.requested >= CONNECTED
  <2>1. pc.requested \in Targets
    BY StateSets DEF TreeInv, Order
  <2> QED
    BY <2>1 DEF Targets
<1>6. Head(main) # CONNECTED \/ AfterContact(Tail(main)) => CONNECTED \in confirmed
  BY <1>2 DEF TreeInv, InHand, AfterContact
<1> QED
  BY <1>2, <1>3, <1>4, <1>5, <1>6, StateSets

\* A step of the main task that leaves what is requested as it is, and after which the
\* child is at a state that was reached.
LEMMA MainTaskInv ==
    ASSUME TreeInv, UNCHANGED <<ccvars, downlink, faults>>, main # <<>>,
           pc' \in Entries, pc'.requested = pc.requested,
           pc'.port = pc.port \/ (pc'.port = "removed" /\ pc.requested = QUITED),
           pc'.current <= pc.requested,
           pc'.current \in {NOSTATE, CONNECT} \cup confirmed',
           confirmed \subseteq confirmed', confirmed' \subseteq Settled,
           pc'.current # NOSTATE => CONNECTED \in confirmed',
           main' \in Seq(Settled),
           \A i \in DOMAIN main' : main'[i] \in Targets /\ main'[i] <= pc.requested,
           AfterContact(main') => CONNECTED \in confirmed',
           uplink' \in Seq(UpMessages),
           pc.port # "open" => uplink' = uplink,
           \A i \in DOMAIN uplink' :
              \/ i \in DOMAIN uplink /\ uplink'[i] = uplink[i]
              \/ uplink'[i][1] \in {"done", "failed"}
              \/ uplink'[i][1] = "connect" /\ CONNECTED \in confirmed'
    PROVE  TreeInv'
<1>1. CCTypes /\ PCTypes /\ LinkTypes
  BY Types DEF TreeInv
<1>2. pc.port # "none" /\ daemon = "done"
  BY TailInHand DEF TreeInv, Contact
<1>3. pc'.port # pc.port => pc.port \notin {"none", "opening", "reopening"}
  BY <1>2, TailInHand DEF TreeInv, Contact, Fresh
<1>4. TypeOK'
  BY <1>1, TypesPrimed DEF CCTypes, PCTypes, LinkTypes, ccvars
<1>5. Contact'
  BY <1>2, <1>3 DEF TreeInv, Contact, ccvars
<1>6. Order'
  BY DEF TreeInv, Order, Request, ccvars
<1>7. InHand'
  BY DEF TreeInv, InHand, ccvars, AfterContact
<1>8. Fresh'
  <2>1. \A i \in DOMAIN uplink' : uplink'[i][1] = "resync" =>
           i \in DOMAIN uplink /\ uplink[i][1] = "resync"
    OBVIOUS
  <2> QED
    BY <1>3, <2>1 DEF TreeInv, Fresh, ccvars
<1> QED
  BY <1>4, <1>5, <1>6, <1>7, <1>8 DEF TreeInv

LEMMA MainTaskSteps ==
    ASSUME TreeInv, MainTaskStep
    PROVE  TreeInv'
<1>1. CCTypes /\ PCTypes /\ LinkTypes
  BY Types DEF TreeInv
<1> DEFINE s == Head(main)
           t == Tail(main)
<1>2. main # <<>> /\ UNCHANGED <<ccvars, downlink, faults>>
  BY DEF MainTaskStep, MainTaskReady, MainTaskFails, MainTaskAborts
<1>3. /\ s \in Targets /\ s <= pc.requested /\ s \in Settled /\ t \in Seq(Settled)
      /\ \A i \in DOMAIN t : t[i] \in Targets /\ t[i] <= pc.requested
      /\ pc.requested \in Targets /\ pc.requested \in Int /\ pc.requested >= CONNECTED
      /\ s \in Int /\ s >= CONNECTED /\ s # NOSTATE
      /\ s # CONNECTED \/ AfterContact(t) => CONNECTED \in confirmed
  BY <1>2, TailInHand DEF Targets
<1>4. /\ pc \in Entries /\ confirmed \subseteq Settled /\ uplink \in Seq(UpMessages)
      /\ pc.current <= pc.requested /\ pc.current \in {NOSTATE, CONNECT} \cup confirmed
      /\ pc.current # NOSTATE => CONNECTED \in confirmed
  BY <1>1 DEF PCTypes, LinkTypes, TreeInv, InHand
<1> DEFINE sends(k) ==
              /\ uplink' \in Seq(UpMessages)
              /\ pc.port # "open" => uplink' = uplink
              /\ \A i \in DOMAIN uplink' :
                    \/ i \in DOMAIN uplink /\ uplink'[i] = uplink[i]
                    \/ uplink'[i][1] = k
<1>5. ASSUME NEW k \in {"connect", "done", "failed"}, NEW x \in States, SendUp(<< <<k, x>> >>)
      PROVE  sends(k)
  <2> DEFINE msg == <<k, x>>
  <2>1. msg \in UpMessages /\ msg[1] = k
    BY DEF UpMessages
  <2>2. SendUp(<<msg>>)
    BY <1>5
  <2> HIDE DEF msg
  <2>3. <<msg>> \in Seq(UpMessages) /\ DOMAIN <<msg>> = {1} /\ <<msg>>[1] = msg
    BY <2>1, OneMessage
  <2>4. /\ uplink' \in Seq(UpMessages)
        /\ \A i \in DOMAIN uplink' :
              \/ i \in DOMAIN uplink /\ uplink'[i] = uplink[i]
              \/ \E j \in DOMAIN <<msg>> : uplink'[i] = <<msg>>[j]
        /\ pc.port # "open" => uplink' = uplink
    BY <2>2, <2>3, SendUpFacts
  <2> QED
    BY <2>1, <2>3, <2>4
<1>6. ASSUME uplink' = uplink, NEW k PROVE sends(k)
  BY <1>4, <1>6
<1>7. s \in States /\ CONNECT \in States /\ QUITED \in States
  <2>1. s \in Settled
    BY <1>3
  <2> HIDE DEF s, t
  <2>2. s \in States /\ CONNECT \in States
    BY <2>1, StateSets
  <2> QED
    BY <2>2 DEF States
<1> HIDE DEF sends
<1>8. CASE MainTaskFails \/ MainTaskAborts
  <2>1. main' = t /\ pc' = pc /\ confirmed' = confirmed
    BY <1>8 DEF MainTaskFails, MainTaskAborts
  <2>2. SendUp(<< <<"failed", s>> >>) \/ uplink' = uplink
    BY <1>8 DEF MainTaskFails, MainTaskAborts
  <2>3. sends("failed")
    BY <1>5, <1>6, <1>7, <2>2
  <2> HIDE DEF s, t
  <2> QED
    BY <1>2, <1>3, <1>4, <2>1, <2>3, MainTaskInv DEF sends
<1>9. CASE /\ s = CONNECTED /\ Known
           /\ pc' = [pc EXCEPT !.current = CONNECT]
           /\ SendUp(<< <<"connect", CONNECT>> >>)
           /\ main' = t
           /\ confirmed' = confirmed \cup {CONNECTED}
  <2>1. sends("connect")
    BY <1>5, <1>7, <1>9
  <2>2. /\ pc' \in Entries /\ pc'.port = pc.port /\ pc'.requested = pc.requested
        /\ pc'.current = CONNECT
    BY <1>4, <1>9 DEF Entries
  <2>3. confirmed' \subseteq Settled /\ CONNECTED \in confirmed' /\ confirmed \subseteq confirmed'
    BY <1>4, <1>9 DEF Settled
  <2>4. CONNECT <= pc.requested
    BY <1>3
  <2>5. main' = t
    BY <1>9
  <2> HIDE DEF s, t
  <2> QED
    BY <1>2, <1>3, <1>4, <2>1, <2>2, <2>3, <2>4, <2>5, MainTaskInv DEF sends
<1>10. CASE /\ s = QUITED /\ Known
            /\ pc' = [port |-> "removed", requested |-> QUITED, current |-> QUITED,
                       lastRetry |-> FALSE]
            /\ SendUp(<< <<"done", QUITED>> >>)
            /\ main' = t
            /\ confirmed' = confirmed \cup {QUITED}
  <2>1. sends("done")
    BY <1>5, <1>7, <1>10
  <2>2. pc.requested = QUITED
    BY <1>3, <1>10 DEF Targets
  <2>3. /\ pc' \in Entries /\ pc'.port = "removed" /\ pc'.requested = pc.requested
        /\ pc'.current = QUITED /\ pc'.current <= pc.requested
    BY <1>10, <2>2 DEF Entries, Ports, Settled
  <2>4. confirmed' \subseteq Settled /\ QUITED \in confirmed' /\ confirmed \subseteq confirmed'
    BY <1>4, <1>10 DEF Settled
  <2>5. main' = t
    BY <1>10
  <2>6. CONNECTED \in confirmed'
    BY <1>3, <1>10, <2>4
  <2> HIDE DEF s, t
  <2> QED
    BY <1>2, <1>3, <1>4, <2>1, <2>2, <2>3, <2>4, <2>5, <2>6, MainTaskInv DEF sends
<1>11. CASE (s \notin {CONNECTED, QUITED} \/ ~Known) /\ Confirm(s)
  <2>1. confirmed' = confirmed \cup {s}
    BY <1>11 DEF Confirm
  <2>2. confirmed' \subseteq Settled /\ s \in confirmed' /\ confirmed \subseteq confirmed'
    BY <1>3, <1>4, <2>1
  <2>3. CASE Known
    <3> DEFINE reached == [pc EXCEPT !.current = s]
    <3>1. /\ pc' = ResetRetries(reached) /\ main' = t \o Command(pc')
          /\ SendUp(<< <<"done", s>> >>)
      BY <1>11, <2>3 DEF Confirm, Reached
    <3>2. sends("done")
      BY <1>5, <1>7, <3>1
    <3>3. /\ pc' \in Entries /\ pc'.port = pc.port /\ pc'.requested = pc.requested
          /\ pc'.current = s
      <4>1. /\ reached \in Entries /\ reached.port = pc.port
            /\ reached.requested = pc.requested /\ reached.current = s
        BY <1>3, <1>4 DEF Entries
      <4> HIDE DEF reached, s, t
      <4> QED
        BY <3>1, <4>1, ResetFacts
    <3>4. CONNECTED \in confirmed'
      BY <1>3, <1>11, <2>2, <2>3
    <3> HIDE DEF s, t
    <3> DEFINE p == pc'
    <3>5. /\ p \in Entries /\ p.requested = pc.requested /\ p.current <= p.requested
          /\ Within(t, p) /\ main' = t \o Command(p)
      BY <1>3, <3>1, <3>3 DEF Within
    <3> HIDE DEF p
    <3>6. main' \in Seq(Settled) /\ Within(main', p)
      BY <1>3, <3>5, CommandsKept
    <3> QED
      BY <1>2, <1>3, <1>4, <2>2, <3>2, <3>3, <3>4, <3>5, <3>6, MainTaskInv DEF sends, Within
  <2>4. CASE ~Known
    <3>1. main' = t /\ pc' = pc /\ uplink' = uplink
      BY <2>4, <1>11 DEF Confirm
    <3>2. sends("done")
      BY <1>6, <3>1
    <3> HIDE DEF s, t
    <3> QED
      BY <1>2, <1>3, <1>4, <2>2, <3>1, <3>2, MainTaskInv DEF sends
  <2> QED
    BY <2>3, <2>4
<1> QED
  BY <1>8, <1>9, <1>10, <1>11 DEF MainTaskStep, MainTaskReady

LEMMA TreeStep == TreeInv /\ [Next]_vars => TreeInv'
<1> SUFFICES ASSUME TreeInv, [Next]_vars PROVE TreeInv'
  OBVIOUS
<1>1. CASE UNCHANGED vars
  <2>1. TypeOK'
    BY <1>1, Types, TypesPrimed DEF TreeInv, CCTypes, PCTypes, LinkTypes, vars, ccvars, pcvars
  <2>2. Contact' /\ Order' /\ InHand' /\ Fresh'
    BY <1>1 DEF TreeInv, Contact, Order, Request, InHand, Fresh, vars, ccvars, pcvars
  <2> QED
    BY <2>1, <2>2 DEF TreeInv
<1>2. CASE Next
  BY <1>2, RequestStep, ActionStep, EntrySteps, UpStep, NewParentStep, ConnectStep, PortStep,
     DownStep, MainTaskSteps, LinkStep
     DEF Next, ChildControlStep, DaemonStep, ParentControlStep
<1> QED
  BY <1>1, <1>2

LEMMA TreeInvariant == Spec => []TreeInv
<1> QED
  BY TreeInit, TreeStep, PTL DEF Spec

\* Every variable of the two administrations and of the connection keeps its type,
\* whatever is asked: what ParentControl finds on its way through the stateFlowTable is
\* always a state, and ChildControl has a connection only if the child has one.
THEOREM TreeTypes == Spec => []TypeOK
<1>1. TreeInv => TypeOK
  BY DEF TreeInv
<1> QED
  BY <1>1, TreeInvariant, PTL

-----------------------------------------------------------------------------
(* Commands in band                                                        *)

\* What CommandsInBand says of the commands q, where the states in K were reached.
InBand(q, K) ==
    \A i \in DOMAIN q : q[i] # CONNECTED =>
        /\ Expected(q[i]) \cap K # {}
        /\ \A j \in 1 .. i - 1 : q[j] >= SUSPENDED => q[i] >= SUSPENDED

LeadsDown(q) == \E i \in DOMAIN q : q[i] >= SUSPENDED

\* The next command is in band behind those in hand: what leads up is asked for only by
\* who is not asked to go down, or is back at the first contact.
LEMMA InBandKept ==
    ASSUME NEW p \in Entries, p.requested \in Targets, p.current <= p.requested,
           NEW q \in Seq(Settled), NEW K, InBand(q, K),
           p.current \in {NOSTATE, CONNECT} \cup K,
           LeadsDown(q) => \/ p.requested = QUITED
                           \/ p.requested = RELEASED /\ p.current # CONNECTED
    PROVE  InBand(q \o Command(p), K)
<1>1. CASE Command(p) = <<>>
  <2>1. q \o Command(p) = q
    BY <1>1
  <2> QED
    BY <2>1
<1>2. ASSUME NEW w \in Targets, Command(p) = <<w>>, Follows(p, w)
      PROVE  InBand(q \o Command(p), K)
  <2> DEFINE n == q \o Command(p)
  <2>1. w \in Settled
    BY <1>2 DEF Targets, Settled
  <2>2. /\ DOMAIN n = 1 .. Len(q) + 1 /\ Len(q) \in Nat /\ DOMAIN q = 1 .. Len(q)
        /\ \A i \in 1 .. Len(q) + 1 : n[i] = IF i <= Len(q) THEN q[i] ELSE w
    <3>1. n = Append(q, w)
      BY <1>2, <2>1
    <3> QED
      BY <2>1, <3>1
  <2>3. Expected(w) \cap K # {}
    BY <1>2 DEF Follows
  <2>4. LeadsDown(q) => w >= SUSPENDED
    BY <1>2 DEF Follows
  <2> HIDE DEF n
  <2>5. ASSUME NEW i \in DOMAIN n, n[i] # CONNECTED
        PROVE  /\ Expected(n[i]) \cap K # {}
               /\ \A j \in 1 .. i - 1 : n[j] >= SUSPENDED => n[i] >= SUSPENDED
    <3>1. CASE i <= Len(q)
      <4>1. i \in DOMAIN q /\ n[i] = q[i] /\ \A j \in 1 .. i - 1 : n[j] = q[j]
        BY <2>2, <3>1
      <4> QED
        BY <2>5, <4>1 DEF InBand
    <3>2. CASE ~(i <= Len(q))
      <4>1. n[i] = w /\ \A j \in 1 .. i - 1 : j \in DOMAIN q /\ n[j] = q[j]
        BY <2>2, <3>2
      <4> QED
        BY <2>3, <2>4, <4>1 DEF LeadsDown
    <3> QED
      BY <3>1, <3>2
  <2> QED
    BY <2>5 DEF InBand, n
<1> QED
  BY <1>1, <1>2, CommandFacts

LEMMA InBandTail ==
    ASSUME NEW q \in Seq(Settled), q # <<>>, NEW K, InBand(q, K)
    PROVE  InBand(Tail(q), K) /\ (LeadsDown(Tail(q)) => LeadsDown(q))
<1> DEFINE t == Tail(q)
<1>1. /\ \A i \in DOMAIN t : /\ i \in Int /\ i + 1 \in DOMAIN q /\ t[i] = q[i + 1]
                             /\ \A j \in 1 .. i - 1 : j + 1 \in 1 .. (i + 1) - 1 /\ t[j] = q[j + 1]
  OBVIOUS
<1> HIDE DEF t
<1>2. ASSUME NEW i \in DOMAIN t, t[i] # CONNECTED
      PROVE  /\ Expected(t[i]) \cap K # {}
             /\ \A j \in 1 .. i - 1 : t[j] >= SUSPENDED => t[i] >= SUSPENDED
  BY <1>1, <1>2 DEF InBand
<1> QED
  BY <1>1, <1>2 DEF InBand, LeadsDown, t

LEMMA InBandMore ==
    ASSUME NEW q, NEW K, NEW L, K \subseteq L, InBand(q, K)
    PROVE  InBand(q, L)
BY DEF InBand

\* Where nobody asks for SUSPENDED, a command that leads down is there only when RELEASED
\* or QUITED was asked for.
LEMMA AskedDown ==
    ASSUME TreeInv, SUSPENDED \notin Requests
    PROVE  /\ LeadsDown(main) => pc.requested \in {RELEASED, QUITED}
           /\ main \in Seq(Settled) /\ pc \in Entries /\ pc.requested \in Targets
           /\ pc.current <= pc.requested /\ pc.current \in {NOSTATE, CONNECT} \cup confirmed
<1>1. pc.requested \in Targets /\ pc.requested # SUSPENDED
  BY StateSets DEF TreeInv, Order, Asked
<1>2. PCTypes
  BY Types DEF TreeInv
<1>3. ASSUME NEW i \in DOMAIN main, main[i] >= SUSPENDED
      PROVE  pc.requested \in {RELEASED, QUITED}
  <2>1. main[i] <= pc.requested /\ main[i] \in Targets
    BY DEF TreeInv, InHand
  <2> QED
    BY <1>1, <1>3, <2>1 DEF Targets
<1> QED
  BY <1>1, <1>2, <1>3 DEF LeadsDown, PCTypes, TreeInv, InHand

LEMMA BandStep ==
    ASSUME TreeInv, TreeInv', CommandsInBand, SUSPENDED \notin Requests, [Next]_vars
    PROVE  CommandsInBand'
<1>1. InBand(main, confirmed)
  BY DEF CommandsInBand, InBand
<1>2. ASSUME InBand(main', confirmed') PROVE CommandsInBand'
  BY <1>2 DEF CommandsInBand, InBand
<1>3. ASSUME main' = main, confirmed' = confirmed PROVE CommandsInBand'
  BY <1>1, <1>2, <1>3
<1>4. ASSUME main # <<>>, main' = Tail(main), confirmed \subseteq confirmed'
      PROVE  CommandsInBand'
  BY <1>1, <1>2, <1>4, AskedDown, InBandTail, InBandMore
<1>5. TreeInv /\ SUSPENDED \notin Requests
  OBVIOUS
<1>6. ASSUME NEW p \in Entries, p = pc', main' = main \o Command(p), confirmed' = confirmed,
             LeadsDown(main) => \/ p.requested = QUITED
                                \/ p.requested = RELEASED /\ p.current # CONNECTED
      PROVE  CommandsInBand'
  <2>1. /\ p.requested \in Targets /\ p.current <= p.requested
        /\ p.current \in {NOSTATE, CONNECT} \cup confirmed
    BY <1>6, StateSets DEF TreeInv, Order, InHand
  <2>2. main \in Seq(Settled)
    BY <1>5, AskedDown
  <2>3. InBand(main \o Command(p), confirmed)
    BY <1>1, <1>6, <2>1, <2>2, InBandKept
  <2> QED
    BY <1>2, <1>6, <2>3
<1>7. CASE \/ UNCHANGED vars \/ (\E s \in Requests : RequestState(s)) \/ ChildControlStep
           \/ GarbageCollection \/ StartFails \/ StartDaemonOffline \/ GiveUp \/ LinkBreaks
           \/ ParentDisconnected
  <2>1. main' = main /\ confirmed' = confirmed
    BY <1>7 DEF vars, pcvars, RequestState, ChildControlStep, ProcessAction, ChildDisconnected,
       ReceiveUp, GarbageCollection, StartFails, StartDaemonOffline, GiveUp, LinkBreaks,
       ParentDisconnected
  <2> QED
    BY <1>3, <2>1
<1>8. CASE NewParent
  <2>1. main' = <<CONNECTED>>
    BY <1>8 DEF NewParent
  <2>2. InBand(main', confirmed')
    BY <2>1 DEF InBand
  <2> QED
    BY <1>2, <2>2
<1>9. ASSUME NEW last \in BOOLEAN, ParentConnected(last) PROVE CommandsInBand'
  <2>1. CASE pc.port = "reopening"
    <3>1. main' = main /\ confirmed' = confirmed
      BY <1>9, <2>1 DEF ParentConnected
    <3> QED
      BY <1>3, <3>1
  <2>2. CASE pc.port = "opening"
    <3>1. main' = main \o Command(pc) /\ confirmed' = confirmed
      BY <1>9, <2>2 DEF ParentConnected
    <3>2. pc \in Entries /\ pc.requested = CONNECTED
      BY <1>5, <2>2, AskedDown DEF TreeInv, Contact
    <3>3. ~LeadsDown(main)
      BY <1>5, <3>2, AskedDown
    <3>4. pc.current \in {NOSTATE, CONNECT} \cup confirmed /\ pc.requested \in Targets
          /\ pc.current <= pc.requested /\ main \in Seq(Settled)
      BY <1>5, AskedDown
    <3>5. InBand(main \o Command(pc), confirmed)
      BY <1>1, <3>2, <3>3, <3>4, InBandKept
    <3> QED
      BY <1>2, <3>1, <3>5
  <2> QED
    BY <1>9, <2>1, <2>2 DEF ParentConnected
<1>10. CASE ReceiveDown
  <2> DEFINE m == Head(downlink)
             asking == [pc EXCEPT !.requested = m[2]]
  <2>1. downlink \in Seq(DownMessages) /\ downlink # <<>>
    BY <1>10, Contents DEF ReceiveDown
  <2>2. m \in DownMessages /\ m = downlink[1] /\ 1 \in DOMAIN downlink
    BY <2>1, TailEntries
  <2>3. /\ m[1] \in {"connected", "resynced", "request"}
        /\ confirmed' = confirmed
        /\ \/ m[1] = "connected" /\ main' = main
           \/ /\ m[1] = "request" /\ pc' = ResetRetries(asking)
              /\ main' = main \o Command(pc')
           \/ m[1] = "resynced" /\ pc' = ResetRetries(pc) /\ main' = main \o Command(pc')
    BY <1>10, <2>2 DEF ReceiveDown, DownMessages
  <2>4. m[1] = "request" => m[2] \in Requests /\ m[2] \in Targets /\ m[2] > pc.requested
    BY <2>2, StateSets DEF TreeInv, Order, Request
  <2>5. m[1] = "resynced" => pc.requested < RELEASED
    BY <2>2 DEF TreeInv, Fresh
  <2> HIDE DEF m
  <2>6. pc \in Entries /\ pc' \in Entries
    BY <1>5, AskedDown, TypesPrimed DEF TreeInv, PCTypes
  <2>7. CASE m[1] = "connected" /\ main' = main
    BY <1>3, <2>3, <2>7
  <2>8. CASE /\ m[1] = "request" /\ pc' = ResetRetries(asking)
             /\ main' = main \o Command(pc')
    <3>1. pc'.requested = m[2]
      <4>1. asking \in Entries /\ asking.requested = m[2]
        BY <2>4, <2>6, <2>8, StateSets DEF Entries
      <4> HIDE DEF asking
      <4> QED
        BY <2>8, <4>1, ResetFacts
    <3>2. LeadsDown(main) => m[2] = QUITED
      <4>1. LeadsDown(main) => pc.requested \in {RELEASED, QUITED}
        BY <1>5, AskedDown
      <4> QED
        BY <2>4, <2>8, <4>1 DEF Targets
    <3> DEFINE p == pc'
    <3>3. p \in Entries /\ p = pc' /\ main' = main \o Command(p)
          /\ (LeadsDown(main) => p.requested = QUITED)
      BY <2>6, <2>8, <3>1, <3>2
    <3> HIDE DEF p
    <3> QED
      BY <1>6, <2>3, <3>3
  <2>9. CASE m[1] = "resynced" /\ pc' = ResetRetries(pc) /\ main' = main \o Command(pc')
    <3>1. ~LeadsDown(main)
      BY <1>5, <2>5, <2>9, AskedDown
    <3> DEFINE p == pc'
    <3>2. p \in Entries /\ p = pc' /\ main' = main \o Command(p)
      BY <2>6, <2>9
    <3> HIDE DEF p
    <3> QED
      BY <1>6, <2>3, <3>1, <3>2
  <2> QED
    BY <2>3, <2>7, <2>8, <2>9
<1>11. CASE MainTaskStep
  <2> DEFINE s == Head(main)
             t == Tail(main)
  <2>1. main # <<>> /\ confirmed \subseteq confirmed'
    BY <1>11 DEF MainTaskStep, MainTaskReady, MainTaskFails, MainTaskAborts, Confirm
  <2>2. CASE main' = t
    BY <1>4, <2>1, <2>2
  <2> DEFINE reached == [pc EXCEPT !.current = s]
  <2>3. CASE /\ s # CONNECTED /\ pc' = ResetRetries(reached)
             /\ main' = t \o Command(pc')
    <3>1. main \in Seq(Settled) /\ t \in Seq(Settled)
      BY <1>5, <2>1, AskedDown, TailEntries
    <3>2. InBand(t, confirmed) /\ (LeadsDown(t) => LeadsDown(main))
      BY <1>1, <2>1, <3>1, InBandTail
    <3>3. InBand(t, confirmed')
      BY <2>1, <3>2, InBandMore
    <3>4. /\ pc \in Entries /\ pc' \in Entries
          /\ LeadsDown(main) => pc.requested \in {RELEASED, QUITED}
      BY <1>5, AskedDown, TypesPrimed DEF TreeInv, PCTypes
    <3>5. pc'.current = s /\ pc'.requested = pc.requested
      <4>1. s \in Settled
        BY <2>1, <3>1, TailEntries
      <4>2. reached \in Entries /\ reached.current = s /\ reached.requested = pc.requested
        BY <3>4, <4>1 DEF Entries
      <4> HIDE DEF reached, s, t
      <4> QED
        BY <2>3, <4>2, ResetFacts
    <3>6. /\ pc'.requested \in Targets /\ pc'.current <= pc'.requested
          /\ pc'.current \in {NOSTATE, CONNECT} \cup confirmed'
      BY StateSets DEF TreeInv, Order, InHand
    <3> HIDE DEF s, t
    <3> DEFINE p == pc'
               K == confirmed'
    <3>7. /\ p \in Entries /\ p.requested \in Targets /\ p.current <= p.requested
          /\ p.current \in {NOSTATE, CONNECT} \cup K
          /\ InBand(t, K) /\ main' = t \o Command(p)
          /\ LeadsDown(t) => \/ p.requested = QUITED
                             \/ p.requested = RELEASED /\ p.current # CONNECTED
      BY <2>3, <3>2, <3>3, <3>4, <3>5, <3>6
    <3> HIDE DEF p, K
    <3>8. InBand(t \o Command(p), K)
      BY <3>1, <3>7, InBandKept
    <3>9. InBand(main', confirmed')
      BY <3>7, <3>8 DEF K
    <3> QED
      BY <1>2, <3>9
  <2>4. \/ main' = t
        \/ s # CONNECTED /\ pc' = ResetRetries(reached) /\ main' = t \o Command(pc')
    <3>1. CASE MainTaskReady
      BY <3>1 DEF MainTaskReady, Confirm, Reached
    <3>2. CASE MainTaskFails \/ MainTaskAborts
      BY <3>2 DEF MainTaskFails, MainTaskAborts
    <3> QED
      BY <1>11, <3>1, <3>2 DEF MainTaskStep
  <2> QED
    BY <2>2, <2>3, <2>4
<1> QED
  BY <1>7, <1>8, <1>9, <1>10, <1>11 DEF Next, DaemonStep, ParentControlStep

\* ParentControl puts in the missing states: whatever is asked, however early, whatever
\* fails, and over a new connection too, the main task gets no command before it has
\* reached a state in which the stateFlowTable expects it, and none that leads up behind
\* one that leads down.  The timers of ObservationControl ask for CLAIMED, PREPARED,
\* RESUMED and QUITED.  Where SUSPENDED is asked for, and the first contact is made twice,
\* a command that leads up does come behind one that leads down.
THEOREM CommandsStayInBand ==
    ASSUME SUSPENDED \notin Requests
    PROVE  Spec => []CommandsInBand
<1>1. Init => CommandsInBand
  BY DEF Init, CommandsInBand
<1>2. TreeInv /\ TreeInv' /\ CommandsInBand /\ [Next]_vars => CommandsInBand'
  BY BandStep
<1> QED
  BY <1>1, <1>2, TreeInvariant, PTL DEF Spec
-----------------------------------------------------------------------------
(* What the two sides know of each other                                   *)

\* Messages of the child that tell a state, and which.
Tells(m) == m[1] \in {"connect", "resync", "done"}
Tale(m) == IF m[1] = "connect" THEN CONNECTED ELSE m[2]

\* ChildControl, at state c now, will be at state v when it has read the messages u.
Told(u, c, v) ==
    \/ \E i \in DOMAIN u : /\ Tells(u[i]) /\ Tale(u[i]) = v
                           /\ \A j \in DOMAIN u : j > i => ~Tells(u[j])
    \/ (\A j \in DOMAIN u : ~Tells(u[j])) /\ c = v

\* Messages that open ChildControl's port.
Introduces(u) == \E i \in DOMAIN u : u[i][1] \in {"connect", "resync"}

\* A child that waits to be connected has asked for it, or will, or has no retries left.
Answered ==
    pc.port = "open" /\ pc.current = CONNECT =>
        \/ pc.lastRetry
        \/ Introduces(uplink)
        \/ \E i \in DOMAIN downlink : downlink[i][1] \in {"connected", "resynced"}

\* Who has quit has no connection.
NotGone == pc.port = "open" => \A i \in DOMAIN uplink : uplink[i][2] # QUITED

\* Without faults a child is introduced once.
Introduced ==
    /\ \A i \in DOMAIN uplink : uplink[i][1] # "connect"
    /\ \A i \in DOMAIN downlink : downlink[i][1] # "connected"
    /\ \A i \in DOMAIN main : main[i] # CONNECTED
Introducing ==
    \/ pc.port = "opening"
    \/ /\ Len(uplink) = 1 /\ uplink[1][1] = "connect"
       /\ downlink = <<>> /\ cc.port # "open"
    \/ /\ uplink = <<>>
       /\ downlink # <<>> /\ downlink[1][1] = "connected"
       /\ \A i \in DOMAIN downlink : i > 1 => downlink[i][1] = "request"
       /\ cc.port = "open" /\ unsent = {} => cc.current = CONNECTED
Once ==
    faults = 0 =>
        /\ \/ pc.port \in {"none", "opening", "open"}
           \/ pc.port = "removed" /\ pc.current = QUITED
        /\ pc.port = "none" => pc.current = NOSTATE
        /\ \A i \in DOMAIN uplink : uplink[i][1] # "resync"
        /\ \A i \in DOMAIN downlink : downlink[i][1] # "resynced"
        /\ pc.current = NOSTATE =>
              /\ uplink = <<>> /\ downlink = <<>> /\ cc.port # "open"
              /\ main \in {<<>>, <<CONNECTED>>}
        /\ pc.current = CONNECT => main = <<>> /\ Introducing
        /\ pc.current \notin {NOSTATE, CONNECT} => Introduced

\* With a connection ChildControl knows where the child is, or will when it has read what
\* is under way, but for what a stale answer does to the child.
Linked == pc.port = "open" /\ unsent = {} /\ (cc.port = "open" \/ Introduces(uplink))
Meeting ==
    \/ \E i \in DOMAIN uplink : uplink[i][1] = "connect"
    \/ \E i \in DOMAIN downlink : downlink[i][1] = "connected"
Agreement ==
    Linked => \/ Told(uplink, cc.current, pc.current)
              \/ pc.current = CONNECT /\ (Meeting \/ ~pc.lastRetry)
              \/ faults > 0 /\ pc.current = CONNECTED

AgreeInv == Answered /\ NotGone /\ Once /\ Agreement

\* The last retry takes faults.
Retried == pc.lastRetry => faults # 0

LEMMA RetriedStep == TypeOK /\ Retried /\ [Next]_vars => Retried'
<1> SUFFICES ASSUME TypeOK, Retried, [Next]_vars PROVE Retried'
  OBVIOUS
<1>1. pc \in Entries /\ faults \in Nat /\ main \in Seq(Settled) /\ downlink \in Seq(DownMessages)
  BY Types, TreeAssumption DEF PCTypes, LinkTypes
<1>2. ASSUME pc'.lastRetry => pc.lastRetry, faults' = faults PROVE Retried'
  BY <1>2 DEF Retried
<1>3. ASSUME pc' = pc, faults' = faults \/ faults' = faults + 1 PROVE Retried'
  BY <1>1, <1>3 DEF Retried
<1>4. CASE UNCHANGED vars \/ (\E s \in Requests : RequestState(s)) \/ ChildControlStep
           \/ GarbageCollection \/ StartFails \/ StartDaemonOffline
  <2>1. pc' = pc /\ (faults' = faults \/ faults' = faults + 1)
    BY <1>4 DEF vars, pcvars, RequestState, ChildControlStep, ProcessAction, ChildDisconnected,
       ReceiveUp, GarbageCollection, StartFails, StartDaemonOffline
  <2> QED
    BY <1>3, <2>1
<1>5. CASE NewParent \/ ParentDisconnected
  BY <1>1, <1>2, <1>5 DEF NewParent, ParentDisconnected, Entries
<1>6. CASE GiveUp
  BY <1>1, <1>6 DEF GiveUp, Entries, Retried
<1>7. CASE LinkBreaks
  BY <1>1, <1>7 DEF LinkBreaks, Entries, Retried
<1>8. ASSUME NEW last \in BOOLEAN, ParentConnected(last) PROVE Retried'
  BY <1>1, <1>8 DEF ParentConnected, Entries, Retried
<1>9. CASE ReceiveDown
  <2> DEFINE m == Head(downlink)
             introduced == [pc EXCEPT !.current = CONNECTED, !.lastRetry = FALSE]
             asking == [pc EXCEPT !.requested = m[2]]
  <2>1. m \in DownMessages
    BY <1>1, <1>9, TailEntries DEF ReceiveDown
  <2>2. /\ faults' = faults
        /\ pc' \in {ResetRetries(introduced), ResetRetries(asking), ResetRetries(pc)}
    BY <1>9, <2>1 DEF ReceiveDown, DownMessages
  <2>3. \A e \in {introduced, asking, pc} : ResetRetries(e).lastRetry => pc.lastRetry
    BY <1>1 DEF ResetRetries, Entries
  <2> HIDE DEF m, introduced, asking
  <2> QED
    BY <1>2, <2>2, <2>3
<1>10. CASE MainTaskStep
  <2> DEFINE reached == [pc EXCEPT !.current = Head(main)]
             connecting == [pc EXCEPT !.current = CONNECT]
             quited == [port |-> "removed", requested |-> QUITED, current |-> QUITED,
                        lastRetry |-> FALSE]
  <2>1. faults' = faults /\ pc' \in {pc, connecting, quited, ResetRetries(reached)}
    BY <1>10 DEF MainTaskStep, MainTaskReady, MainTaskFails, MainTaskAborts, Confirm, Reached
  <2>2. \A e \in {pc, connecting, quited, ResetRetries(reached)} : e.lastRetry => pc.lastRetry
    <3>1. reached.lastRetry = pc.lastRetry /\ connecting.lastRetry = pc.lastRetry
          /\ quited.lastRetry = FALSE
      BY <1>1 DEF Entries
    <3>2. ResetRetries(reached).lastRetry => pc.lastRetry
      BY <1>1 DEF ResetRetries, Entries
    <3> HIDE DEF reached, connecting, quited
    <3> QED
      BY <3>1, <3>2
  <2> HIDE DEF reached, connecting, quited
  <2> QED
    BY <1>2, <2>1, <2>2
<1> QED
  BY <1>4, <1>5, <1>6, <1>7, <1>8, <1>9, <1>10 DEF Next, DaemonStep, ParentControlStep

LEMMA AppendedSeq ==
    ASSUME NEW S, NEW u \in Seq(S), NEW m \in S
    PROVE  /\ Append(u, m) \in Seq(S) /\ Len(u) \in Nat /\ DOMAIN u = 1 .. Len(u)
           /\ DOMAIN Append(u, m) = 1 .. Len(u) + 1
           /\ \A i \in DOMAIN u : i \in DOMAIN Append(u, m) /\ Append(u, m)[i] = u[i]
           /\ Len(u) + 1 \in DOMAIN Append(u, m) /\ Append(u, m)[Len(u) + 1] = m
OBVIOUS

LEMMA ToldMore ==
    ASSUME NEW S, NEW u \in Seq(S), NEW m \in S, NEW c, NEW v
    PROVE  /\ Tells(m) => Told(Append(u, m), c, Tale(m))
           /\ ~Tells(m) /\ Told(u, c, v) => Told(Append(u, m), c, v)
<1> DEFINE n == Append(u, m)
           k == Len(u) + 1
<1>1. /\ k \in DOMAIN n /\ n[k] = m /\ k \in Int /\ k \notin DOMAIN u
      /\ \A i \in DOMAIN n : i \in Int /\ i <= k /\ (i = k \/ (i \in DOMAIN u /\ n[i] = u[i]))
      /\ \A i \in DOMAIN u : i \in DOMAIN n
  BY AppendedSeq
<1> HIDE DEF n, k
<1>2. CASE Tells(m)
  <2>1. Tells(n[k]) /\ Tale(n[k]) = Tale(m) /\ \A j \in DOMAIN n : ~(j > k)
    BY <1>1, <1>2
  <2>2. Told(n, c, Tale(m))
    BY <1>1, <2>1 DEF Told
  <2> QED
    BY <1>2, <2>2 DEF n
<1>3. CASE ~Tells(m) /\ Told(u, c, v)
  <2>1. CASE \A j \in DOMAIN u : ~Tells(u[j])
    <3>1. c = v
      BY <1>3, <2>1 DEF Told
    <3>2. \A j \in DOMAIN n : ~Tells(n[j])
      BY <1>1, <1>3, <2>1
    <3> QED
      BY <1>3, <3>1, <3>2 DEF Told, n
  <2>2. ASSUME NEW i \in DOMAIN u, Tells(u[i]), Tale(u[i]) = v,
               \A j \in DOMAIN u : j > i => ~Tells(u[j])
        PROVE  Told(n, c, v)
    <3>1. i \in DOMAIN n /\ n[i] = u[i]
      BY <1>1, <2>2
    <3>2. \A j \in DOMAIN n : j > i => ~Tells(n[j])
      BY <1>1, <1>3, <2>2
    <3> QED
      BY <2>2, <3>1, <3>2 DEF Told
  <2> QED
    BY <1>3, <2>1, <2>2 DEF Told, n
<1> QED
  BY <1>2, <1>3 DEF n

LEMMA ToldRest ==
    ASSUME NEW S, NEW u \in Seq(S), u # <<>>, NEW c, NEW v, Told(u, c, v)
    PROVE  Told(Tail(u), IF Tells(Head(u)) THEN Tale(Head(u)) ELSE c, v)
<1> DEFINE t == Tail(u)
           d == IF Tells(Head(u)) THEN Tale(Head(u)) ELSE c
<1>1. /\ Head(u) = u[1] /\ 1 \in DOMAIN u
      /\ \A i \in DOMAIN t : i \in Int /\ i + 1 \in DOMAIN u /\ t[i] = u[i + 1] /\ i + 1 > 1
      /\ \A i \in DOMAIN u : i \in Int /\ (i = 1 \/ (i - 1 \in DOMAIN t /\ t[i - 1] = u[i]))
  OBVIOUS
<1> HIDE DEF t
<1>2. CASE \A j \in DOMAIN u : ~Tells(u[j])
  <2>1. c = v /\ d = c
    BY <1>1, <1>2 DEF Told
  <2>2. \A j \in DOMAIN t : ~Tells(t[j])
    BY <1>1, <1>2
  <2> QED
    BY <2>1, <2>2 DEF Told, t
<1>3. ASSUME NEW i \in DOMAIN u, Tells(u[i]), Tale(u[i]) = v,
             \A j \in DOMAIN u : j > i => ~Tells(u[j])
      PROVE  Told(t, d, v)
  <2>1. CASE i = 1
    <3>1. d = v
      BY <1>1, <1>3, <2>1
    <3>2. \A j \in DOMAIN t : ~Tells(t[j])
      BY <1>1, <1>3, <2>1
    <3> QED
      BY <3>1, <3>2 DEF Told
  <2>2. CASE i # 1
    <3> DEFINE k == i - 1
    <3>1. k \in DOMAIN t /\ t[k] = u[i] /\ k \in Int /\ i = k + 1
      BY <1>1, <2>2
    <3>2. \A j \in DOMAIN t : j > k => ~Tells(t[j])
      BY <1>1, <1>3, <3>1
    <3> HIDE DEF k
    <3> QED
      BY <1>3, <3>1, <3>2 DEF Told
  <2> QED
    BY <2>1, <2>2
<1> HIDE DEF d
<1>4. Told(t, d, v)
  BY <1>2, <1>3 DEF Told, t, d
<1> QED
  BY <1>4 DEF t, d

\* What is told does not depend on what is known, if anything is told.
LEMMA ToldAnyhow ==
    ASSUME NEW u, NEW c, NEW d, NEW v, Told(u, c, v), Introduces(u)
    PROVE  Told(u, d, v)
BY DEF Told, Introduces, Tells

\* Steps of ChildControl that send and read nothing.
LEMMA AgreeQuiet ==
    ASSUME TreeInv, AgreeInv, UNCHANGED <<pcvars, uplink, downlink>>,
           faults' \in Nat, faults' >= faults, unsent \subseteq unsent',
           cc'.port = "open" => cc.port = "open" /\ (unsent' = {} => cc'.current = cc.current)
    PROVE  AgreeInv'
<1>1. faults \in Nat
  BY Types, TreeAssumption DEF TreeInv, LinkTypes
<1>2. Answered' /\ NotGone'
  BY DEF AgreeInv, Answered, NotGone, Introduces, pcvars
<1>3. Once'
  <2>1. faults' = 0 => faults = 0
    BY <1>1
  <2>2. Introducing => Introducing'
    BY DEF Introducing, pcvars
  <2>3. Introduced => Introduced'
    BY DEF Introduced, pcvars
  <2> QED
    BY <2>1, <2>2, <2>3 DEF AgreeInv, Once, pcvars
<1>4. Agreement'
  <2> SUFFICES ASSUME Linked'
               PROVE  \/ Told(uplink', cc'.current, pc'.current)
                      \/ pc'.current = CONNECT /\ (Meeting \/ ~pc'.lastRetry)
                      \/ faults' > 0 /\ pc'.current = CONNECTED
    BY DEF Agreement, Meeting
  <2>1. UNCHANGED <<pc, uplink>> /\ unsent' = {}
    BY DEF Linked, pcvars
  <2>2. Linked
    BY <2>1 DEF Linked
  <2>3. \/ Told(uplink, cc.current, pc.current)
        \/ pc.current = CONNECT /\ (Meeting \/ ~pc.lastRetry)
        \/ faults > 0 /\ pc.current = CONNECTED
    BY <2>2 DEF AgreeInv, Agreement
  <2>4. CASE Told(uplink, cc.current, pc.current)
    <3>1. CASE cc'.port = "open"
      BY <2>1, <2>4, <3>1
    <3>2. CASE Introduces(uplink)
      BY <2>1, <2>4, <3>2, ToldAnyhow
    <3> QED
      BY <2>1, <3>1, <3>2 DEF Linked
  <2> QED
    BY <1>1, <2>1, <2>3, <2>4
<1> QED
  BY <1>2, <1>3, <1>4 DEF AgreeInv

LEMMA AgreeEntry ==
    ASSUME TreeInv, AgreeInv,
           (\E s \in Requests : RequestState(s)) \/ StartFails \/ StartDaemonOffline
              \/ GarbageCollection \/ ChildDisconnected
    PROVE  AgreeInv'
<1>1. cc \in Children /\ faults \in Nat
  BY Types, TreeAssumption DEF TreeInv, CCTypes, LinkTypes
<1>2. UNCHANGED <<pcvars, uplink, downlink, unsent>>
  BY DEF RequestState, StartFails, StartDaemonOffline, GarbageCollection, ChildDisconnected
<1>3. faults' \in Nat /\ faults' >= faults
  <2>1. CASE StartDaemonOffline
    BY <1>1, <2>1 DEF StartDaemonOffline
  <2>2. CASE (\E s \in Requests : RequestState(s)) \/ StartFails \/ GarbageCollection \/ ChildDisconnected
    <3>1. faults' = faults
      BY <2>2 DEF RequestState, StartFails, GarbageCollection, ChildDisconnected
    <3> QED
      BY <1>1, <3>1
  <2> QED
    BY <2>1, <2>2
<1>4. cc'.port = "open" => cc.port = "open" /\ cc'.current = cc.current
  <2>1. ASSUME NEW s \in Requests, RequestState(s)
        PROVE  cc'.port = "open" => cc.port = "open" /\ cc'.current = cc.current
    BY <1>1, <2>1 DEF RequestState, Children
  <2>2. ASSUME NEW state, StartFails \/ StartDaemonOffline \/ GarbageCollection,
               [Establish(cc, state, FALSE) EXCEPT !.port = "invalid"] = cc'
        PROVE  cc'.port # "open"
    BY <1>1, <2>2 DEF Establish, Children
  <2>3. CASE StartFails
    BY <2>2, <2>3 DEF StartFails
  <2>4. CASE StartDaemonOffline
    BY <2>2, <2>4 DEF StartDaemonOffline
  <2>5. CASE GarbageCollection
    <3>1. \/ cc' = [Establish(cc, QUITED, FALSE) EXCEPT !.port = "invalid"]
          \/ cc' = [cc EXCEPT !.port = "absent"]
          \/ cc' = cc
      BY <2>5 DEF GarbageCollection
    <3>2. [cc EXCEPT !.port = "absent"].port # "open"
      BY <1>1 DEF Children
    <3> QED
      BY <2>2, <2>5, <3>1, <3>2
  <2>6. CASE ChildDisconnected
    BY <1>1, <2>6 DEF ChildDisconnected, Children
  <2> QED
    BY <2>1, <2>3, <2>4, <2>5, <2>6
<1> QED
  BY <1>2, <1>3, <1>4, AgreeQuiet

\* Another message to the child, which neither connects nor resynchronises it.
LEMMA AgreeSent ==
    ASSUME TreeInv, AgreeInv, NEW m \in DownMessages, m[1] = "request", cc.port = "open",
           downlink' = Append(downlink, m),
           UNCHANGED <<cc, unsent, pcvars, uplink, faults>>
    PROVE  AgreeInv'
<1>1. downlink \in Seq(DownMessages)
  BY Contents
<1> DEFINE k == Len(downlink) + 1
<1>2. /\ \A i \in DOMAIN downlink : i \in DOMAIN downlink' /\ downlink'[i] = downlink[i]
      /\ \A i \in DOMAIN downlink' : (i \in DOMAIN downlink /\ downlink'[i] = downlink[i])
                                     \/ downlink'[i][1] = "request"
      /\ downlink # <<>> => downlink' # <<>> /\ downlink'[1] = downlink[1]
  <2>1. /\ DOMAIN downlink = 1 .. Len(downlink) /\ DOMAIN downlink' = 1 .. Len(downlink) + 1
        /\ Len(downlink) \in Nat
        /\ \A i \in DOMAIN downlink : downlink'[i] = downlink[i]
        /\ downlink'[k] = m
    BY <1>1, AppendedSeq
  <2>2. \A i \in DOMAIN downlink' : i \in DOMAIN downlink \/ i = k
    BY <2>1
  <2>3. \A i \in DOMAIN downlink : i \in DOMAIN downlink'
    BY <2>1
  <2>4. downlink # <<>> => 1 \in DOMAIN downlink /\ downlink' # <<>>
    BY <1>1, TailEntries, <2>3
  <2> HIDE DEF k
  <2> QED
    BY <2>1, <2>2, <2>3, <2>4
<1>3. Answered'
  <2>1. CASE Introduces(uplink)
    BY <2>1 DEF Answered, pcvars
  <2>2. CASE \E i \in DOMAIN downlink : downlink[i][1] \in {"connected", "resynced"}
    BY <1>2, <2>2 DEF Answered, pcvars
  <2> QED
    BY <2>1, <2>2 DEF AgreeInv, Answered, pcvars
<1>4. NotGone'
  BY DEF AgreeInv, NotGone, pcvars
<1>5. Once'
  <2>1. Introducing => Introducing'
    BY <1>2 DEF Introducing, pcvars
  <2>2. Introduced => Introduced'
    BY <1>2 DEF Introduced, pcvars
  <2>3. (\A i \in DOMAIN downlink : downlink[i][1] # "resynced") =>
           \A i \in DOMAIN downlink' : downlink'[i][1] # "resynced"
    BY <1>2
  <2>4. faults = 0 => pc.current # NOSTATE
    BY DEF AgreeInv, Once
  <2> QED
    BY <2>1, <2>2, <2>3, <2>4 DEF AgreeInv, Once, pcvars
<1>6. Agreement'
  <2>1. Meeting => Meeting'
    BY <1>2 DEF Meeting
  <2> QED
    BY <2>1 DEF AgreeInv, Agreement, Linked, pcvars
<1> QED
  BY <1>3, <1>4, <1>5, <1>6 DEF AgreeInv

LEMMA AgreeAction ==
    ASSUME TreeInv, AgreeInv, ProcessAction
    PROVE  AgreeInv'
<1> DEFINE a == Head(actions)
<1>1. cc \in Children /\ faults \in Nat /\ actions # <<>> /\ a \in Asked
  BY Types, TreeAssumption, TailEntries DEF TreeInv, CCTypes, LinkTypes, ProcessAction
<1>2. UNCHANGED <<pcvars, uplink, faults>>
  BY DEF ProcessAction
<1>3. a \in States
  <2> HIDE DEF a
  <2> QED
    BY <1>1, StateSets
<1>4. CASE /\ cc.port = "open" /\ downlink' = Append(downlink, <<"request", a>>)
           /\ cc' = cc /\ unsent' = unsent
  <2> DEFINE m == <<"request", a>>
  <2>1. m \in DownMessages /\ m[1] = "request"
    BY <1>3 DEF DownMessages
  <2>2. downlink' = Append(downlink, m) /\ UNCHANGED <<cc, unsent, pcvars, uplink, faults>>
        /\ cc.port = "open"
    BY <1>2, <1>4
  <2> HIDE DEF m
  <2> QED
    BY <2>1, <2>2, AgreeSent
<1>5. CASE /\ downlink' = downlink
           /\ \/ cc' = cc /\ unsent \subseteq unsent'
              \/ cc' = Establish(cc, a, TRUE) /\ unsent' = unsent \cup {a}
  <2>1. cc'.port = "open" => cc.port = "open" /\ (unsent' = {} => cc'.current = cc.current)
    BY <1>1, <1>3, <1>5, Established
  <2>2. unsent \subseteq unsent' /\ UNCHANGED <<pcvars, uplink, downlink>>
    BY <1>2, <1>5
  <2>3. faults' \in Nat /\ faults' >= faults
    BY <1>1, <1>2
  <2> QED
    BY <2>1, <2>2, <2>3, AgreeQuiet
<1>6. \/ /\ cc.port = "open" /\ downlink' = Append(downlink, <<"request", a>>)
         /\ cc' = cc /\ unsent' = unsent
      \/ /\ downlink' = downlink
         /\ \/ cc' = cc /\ unsent \subseteq unsent'
            \/ cc' = Establish(cc, a, TRUE) /\ unsent' = unsent \cup {a}
  BY DEF ProcessAction, SendDown
<1> QED
  BY <1>4, <1>5, <1>6

\* Without a connection there is nothing to agree on.
LEMMA AgreeApart ==
    ASSUME pc'.port # "open", faults' # 0
    PROVE  AgreeInv'
BY DEF AgreeInv, Answered, NotGone, Once, Agreement, Linked

LEMMA AgreePort ==
    ASSUME TreeInv, AgreeInv, Retried, ParentDisconnected \/ GiveUp \/ LinkBreaks
    PROVE  AgreeInv'
<1>1. pc \in Entries /\ faults \in Nat
  BY Types, TreeAssumption DEF TreeInv, PCTypes, LinkTypes
<1>2. pc'.port # "open"
  BY <1>1 DEF ParentDisconnected, GiveUp, LinkBreaks, Entries
<1>3. faults' # 0
  <2>1. CASE ParentDisconnected
    BY <2>1 DEF ParentDisconnected, AgreeInv, Once
  <2>2. CASE GiveUp \/ LinkBreaks
    BY <1>1, <2>2 DEF GiveUp, LinkBreaks, Retried
  <2> QED
    BY <2>1, <2>2
<1> QED
  BY <1>2, <1>3, AgreeApart

LEMMA AgreeNewParent ==
    ASSUME TreeInv, AgreeInv, NewParent
    PROVE  AgreeInv'
<1>1. CCTypes /\ PCTypes /\ LinkTypes
  BY Types DEF TreeInv
<1>2. /\ daemon = "asked" /\ pc' = [pc EXCEPT !.port = "opening"] /\ main' = <<CONNECTED>>
      /\ UNCHANGED <<unsent, uplink, downlink, faults>>
  BY DEF NewParent
<1>3. cc'.port = cc.port
  BY <1>1, StateSets, Established DEF NewParent, CCTypes
<1>4. pc.port = "none" /\ uplink = <<>> /\ downlink = <<>> /\ cc.port # "open"
  BY <1>1, <1>2 DEF TreeInv, Contact, LinkTypes
<1>5. pc'.port = "opening" /\ pc'.current = pc.current
  BY <1>1, <1>2 DEF PCTypes, Entries
<1>6. Once'
  BY <1>2, <1>3, <1>4, <1>5 DEF AgreeInv, Once
<1>7. Answered' /\ NotGone' /\ Agreement'
  BY <1>5 DEF Answered, NotGone, Agreement, Linked
<1> QED
  BY <1>6, <1>7 DEF AgreeInv

LEMMA Connected ==
    ASSUME NEW q \in Seq(DownMessages), NEW d, d = Append(q, <<"connected", CONNECTED>>)
    PROVE  \E i \in DOMAIN d : d[i][1] = "connected"
<1> DEFINE x == <<"connected", CONNECTED>>
<1>1. x \in DownMessages /\ x[1] = "connected" /\ d = Append(q, x)
  BY DEF DownMessages, States
<1> HIDE DEF x
<1> QED
  BY <1>1, AppendedSeq

\* ChildControl reads a message.
LEMMA AgreeUp ==
    ASSUME TreeInv, TreeInv', AgreeInv, ReceiveUp
    PROVE  AgreeInv'
<1> DEFINE m == Head(uplink)
           t == Tail(uplink)
<1>1. /\ uplink # <<>> /\ uplink' = t
      /\ UNCHANGED <<unsent, faults, pcvars>>
  BY DEF ReceiveUp
<1>2. /\ uplink \in Seq(UpMessages) /\ m \in UpMessages /\ m = uplink[1] /\ 1 \in DOMAIN uplink
      /\ t \in Seq(UpMessages)
      /\ \A i \in DOMAIN t : i \in Int /\ i + 1 \in DOMAIN uplink /\ t[i] = uplink[i + 1]
      /\ \A i \in DOMAIN uplink : i \in Int /\ (i = 1 \/ (i - 1 \in DOMAIN t /\ t[i - 1] = uplink[i]))
  <2>1. uplink \in Seq(UpMessages)
    BY Contents
  <2>2. \A i \in DOMAIN uplink : i \in Int /\ (i = 1 \/ (i - 1 \in DOMAIN t /\ t[i - 1] = uplink[i]))
    BY <1>1, <2>1
  <2> QED
    BY <1>1, <2>1, <2>2, TailEntries
<1>3. /\ cc \in Children /\ cc' \in Children /\ faults \in Nat /\ pc \in Entries
      /\ downlink \in Seq(DownMessages) /\ downlink' \in Seq(DownMessages)
      /\ cc'.port = "open" => pc.port \in {"open", "removed"}
  BY <1>1, Types, TypesPrimed, TreeAssumption DEF TreeInv, CCTypes, PCTypes, LinkTypes, pcvars
<1>4. /\ m[1] \in {"connect", "resync", "done", "failed"} /\ m[2] \in States
      /\ Tells(m) <=> m[1] # "failed"
  BY <1>2 DEF UpMessages, Tells
<1>5. \/ /\ m[1] = "connect"
         /\ cc' = IF Listed THEN [Establish(cc, CONNECTED, TRUE) EXCEPT !.port = "open"] ELSE cc
         /\ downlink' = Append(downlink, <<"connected", CONNECTED>>)
      \/ /\ m[1] = "resync" /\ cc' = Resync(m[2])
         /\ downlink' = Append(downlink, <<"resynced", m[2]>>)
      \/ /\ m[1] \in {"done", "failed"} /\ downlink' = downlink
         /\ cc' = IF ~Listed THEN cc
                  ELSE IF m[2] = QUITED THEN [cc EXCEPT !.port = "absent"]
                  ELSE Establish(cc, m[2], m[1] = "done")
  BY DEF ReceiveUp
<1> HIDE DEF m, t
<1>6. /\ m[1] = "connect" => cc'.port = "absent" \/ (cc'.port = "open" /\ cc'.current = CONNECTED)
      /\ m[1] = "resync" => cc'.port = "open" /\ cc'.current = m[2]
      /\ m[1] = "done" /\ m[2] # QUITED => /\ cc'.port = "open" => cc'.current = m[2]
                                           /\ cc'.port = cc.port
      /\ m[1] = "failed" /\ m[2] # QUITED => \/ cc'.current = cc.current /\ cc'.port = cc.port
                                             \/ cc'.port = "absent"
      /\ m[1] \in {"done", "failed"} /\ cc'.port = "open" => cc.port = "open"
      /\ cc'.port = "broken" => cc.port = "broken"
  <2>1. CASE m[1] = "connect"
    BY <1>3, <1>4, <1>5, <2>1 DEF Listed, Establish, Children, States
  <2>2. CASE m[1] = "resync"
    BY <1>3, <1>4, <1>5, <2>2 DEF Listed, Establish, Children, Resync, Entry, States
  <2>3. CASE m[1] \in {"done", "failed"}
    BY <1>3, <1>4, <1>5, <2>3 DEF Listed, Establish, Children
  <2> QED
    BY <1>4, <2>1, <2>2, <2>3
<1> DEFINE d == downlink'
<1>7. /\ \A i \in DOMAIN downlink : i \in DOMAIN d /\ d[i] = downlink[i]
      /\ m[1] \in {"connect", "resync"} =>
            \E i \in DOMAIN d : d[i][1] \in {"connected", "resynced"}
      /\ \A i \in DOMAIN d : \/ i \in DOMAIN downlink /\ d[i] = downlink[i]
                             \/ m[1] = "connect" /\ d[i] = <<"connected", CONNECTED>>
                             \/ m[1] = "resync" /\ d[i] = <<"resynced", m[2]>>
  <2>1. ASSUME NEW x \in DownMessages, d = Append(downlink, x)
        PROVE  /\ \A i \in DOMAIN downlink : i \in DOMAIN d /\ d[i] = downlink[i]
               /\ \E i \in DOMAIN d : d[i] = x
               /\ \A i \in DOMAIN d : (i \in DOMAIN downlink /\ d[i] = downlink[i]) \/ d[i] = x
    <3>1. /\ DOMAIN downlink = 1 .. Len(downlink) /\ DOMAIN d = 1 .. Len(downlink) + 1
          /\ Len(downlink) \in Nat
          /\ \A i \in DOMAIN downlink : i \in DOMAIN d /\ d[i] = downlink[i]
          /\ Len(downlink) + 1 \in DOMAIN d /\ d[Len(downlink) + 1] = x
      BY <1>3, <2>1, AppendedSeq
    <3>2. \A i \in DOMAIN d : i \in DOMAIN downlink \/ i = Len(downlink) + 1
      BY <3>1
    <3> HIDE DEF d
    <3> QED
      BY <3>1, <3>2
  <2>2. CASE m[1] = "connect"
    <3> DEFINE x == <<"connected", CONNECTED>>
    <3>1. x \in DownMessages /\ x[1] = "connected" /\ d = Append(downlink, x)
      BY <1>5, <2>2, StateSets DEF DownMessages, States
    <3> HIDE DEF x, d
    <3> QED
      BY <2>1, <2>2, <3>1 DEF x
  <2>3. CASE m[1] = "resync"
    <3> DEFINE x == <<"resynced", m[2]>>
    <3>1. x \in DownMessages /\ x[1] = "resynced" /\ d = Append(downlink, x)
      BY <1>4, <1>5, <2>3 DEF DownMessages
    <3> HIDE DEF x, d
    <3> QED
      BY <2>1, <2>3, <3>1 DEF x
  <2>4. CASE m[1] \in {"done", "failed"}
    BY <1>5, <2>4
  <2> HIDE DEF d
  <2> QED
    BY <1>4, <2>2, <2>3, <2>4
<1>8. Answered'
  <2> SUFFICES ASSUME pc'.port = "open" /\ pc'.current = CONNECT, ~pc'.lastRetry
               PROVE  \/ Introduces(t)
                      \/ \E i \in DOMAIN d : d[i][1] \in {"connected", "resynced"}
    BY <1>1 DEF Answered
  <2>1. \/ Introduces(uplink)
        \/ \E i \in DOMAIN downlink : downlink[i][1] \in {"connected", "resynced"}
    BY <1>1 DEF AgreeInv, Answered, pcvars
  <2> HIDE DEF d
  <2>2. CASE \E i \in DOMAIN downlink : downlink[i][1] \in {"connected", "resynced"}
    BY <1>7, <2>2
  <2>3. CASE Introduces(uplink)
    BY <1>2, <1>7, <2>3 DEF Introduces
  <2> QED
    BY <2>1, <2>2, <2>3
<1>9. NotGone'
  BY <1>1, <1>2 DEF AgreeInv, NotGone, pcvars
<1>10. Once'
  <2> SUFFICES ASSUME faults = 0 PROVE Once'
    BY <1>1 DEF Once
  <2>1. /\ m[1] # "resync" /\ pc.current # NOSTATE
        /\ \A i \in DOMAIN t : t[i][1] # "resync"
        /\ pc.port = "open" \/ (pc.port = "removed" /\ pc.current = QUITED)
    BY <1>1, <1>2 DEF AgreeInv, Once, TreeInv, Contact
  <2>2. \A i \in DOMAIN d : d[i][1] # "resynced"
    <3>1. \A i \in DOMAIN downlink : downlink[i][1] # "resynced"
      BY DEF AgreeInv, Once
    <3>2. <<"connected", CONNECTED>>[1] # "resynced"
      OBVIOUS
    <3> HIDE DEF d
    <3> QED
      BY <1>7, <2>1, <3>1, <3>2
  <2>3. CASE pc.current = CONNECT
    <3>1. /\ main = <<>> /\ Len(uplink) = 1 /\ uplink[1][1] = "connect" /\ downlink = <<>>
      BY <1>1, <2>1, <2>3 DEF AgreeInv, Once, Introducing
    <3>2. t = <<>>
      BY <1>1, <1>2, <3>1 DEF t
    <3>3. /\ d # <<>> /\ d[1][1] = "connected" /\ \A i \in DOMAIN d : i = 1
      BY <1>2, <1>5, <3>1
    <3>4. Introducing'
      BY <1>1, <1>2, <1>6, <3>1, <3>2, <3>3 DEF Introducing
    <3> QED
      BY <1>1, <2>1, <2>2, <2>3, <3>1, <3>4 DEF Once, pcvars
  <2>4. CASE pc.current # CONNECT
    <3>1. Introduced
      BY <2>1, <2>4 DEF AgreeInv, Once
    <3>2. m[1] # "connect"
      BY <1>2, <3>1 DEF Introduced
    <3>3. d = downlink
      BY <1>4, <1>5, <2>1, <3>2
    <3>4. Introduced'
      BY <1>1, <1>2, <3>1, <3>3 DEF Introduced, pcvars
    <3> QED
      BY <1>1, <2>1, <2>2, <2>4, <3>4 DEF Once, pcvars
  <2> QED
    BY <2>3, <2>4
<1>11. Agreement'
  <2> SUFFICES ASSUME Linked', ~(pc.current = CONNECT /\ (Meeting' \/ ~pc.lastRetry)),
                      ~(faults > 0 /\ pc.current = CONNECTED)
               PROVE  Told(t, cc'.current, pc.current)
    BY <1>1 DEF Agreement, pcvars
  <2>7. Meeting => Meeting'
    <3>1. CASE m[1] = "connect"
      <4>1. \E i \in DOMAIN d : d[i][1] = "connected"
        BY <1>3, <1>5, <1>7, <3>1, Connected
      <4> QED
        BY <4>1 DEF Meeting
    <3>2. CASE m[1] # "connect"
      <4>1. ASSUME NEW i \in DOMAIN uplink, uplink[i][1] = "connect"
            PROVE  \E j \in DOMAIN t : t[j][1] = "connect"
        <5>1. i - 1 \in DOMAIN t /\ t[i - 1] = uplink[i]
          BY <1>2, <3>2, <4>1
        <5> QED
          BY <4>1, <5>1
      <4> QED
        BY <1>1, <1>7, <4>1 DEF Meeting
    <3> QED
      BY <3>1, <3>2
  <2>1. /\ pc.port = "open" /\ unsent = {}
        /\ cc'.port = "open" \/ Introduces(t)
    BY <1>1 DEF Linked, pcvars
  <2>2. Linked
    <3>1. CASE Introduces(t)
      BY <1>2, <2>1, <3>1 DEF Linked, Introduces
    <3>2. CASE m[1] \in {"connect", "resync"}
      BY <1>2, <2>1, <3>2 DEF Linked, Introduces
    <3>3. CASE m[1] \in {"done", "failed"} /\ cc'.port = "open"
      BY <1>6, <2>1, <3>3 DEF Linked
    <3> QED
      BY <1>4, <2>1, <3>1, <3>2, <3>3
  <2>3. Told(uplink, cc.current, pc.current)
    BY <2>2, <2>7 DEF AgreeInv, Agreement
  <2>4. Told(t, IF Tells(m) THEN Tale(m) ELSE cc.current, pc.current)
    BY <1>1, <1>2, <2>3, ToldRest DEF m, t
  <2>5. CASE Introduces(t)
    BY <2>4, <2>5, ToldAnyhow
  <2>6. CASE cc'.port = "open"
    <3>1. m[2] # QUITED
      BY <1>2, <2>1 DEF AgreeInv, NotGone
    <3>2. cc'.current = IF Tells(m) THEN Tale(m) ELSE cc.current
      BY <1>4, <1>6, <2>6, <3>1 DEF Tale
    <3> QED
      BY <2>4, <3>2
  <2> QED
    BY <2>1, <2>5, <2>6
<1> QED
  BY <1>8, <1>9, <1>10, <1>11 DEF AgreeInv

\* Before the first contact the main task gets no command, and the child says hello,
\* unless it has no retries left.
LEMMA BeforeContact ==
    ASSUME NEW p \in Entries, p.requested \in Targets, p.current <= p.requested
    PROVE  /\ p.current \in {NOSTATE, CONNECT} => Command(p) = <<>>
           /\ p.current = CONNECT /\ ~p.lastRetry => Hello(p) = << <<"connect", CONNECT>> >>
           /\ p.current # CONNECT \/ p.lastRetry => Hello(p) = <<>>
           /\ \A i \in DOMAIN Command(p) : Command(p)[i] # CONNECTED
<1> DEFINE w == getNextState(p.current, p.requested)
<1>1. p.current \in {NOSTATE, CONNECT} => w = CONNECTED
  <2>1. p.current \in {NOSTATE, CONNECT} => p.current < p.requested /\ p.current < CONNECTED
    BY DEF Targets
  <2>2. p.current \in Settled \cup {CONNECT}
    BY EntryFields
  <2> QED
    BY <2>1, <2>2, NextState
<1> HIDE DEF w
<1>2. Command(p) = IF p.current = p.requested \/ w = CONNECTED THEN <<>> ELSE <<w>>
  BY DEF Command, w
<1>3. p.current = CONNECT /\ ~p.lastRetry => Hello(p) = << <<"connect", CONNECT>> >>
  BY <1>1 DEF Hello, w
<1>4. p.current # CONNECT \/ p.lastRetry => Hello(p) = <<>>
  BY DEF Hello
<1>5. \A i \in DOMAIN Command(p) : Command(p)[i] # CONNECTED
  <2>1. CASE Command(p) = <<>>
    BY <2>1
  <2>2. CASE Command(p) = <<w>> /\ w # CONNECTED
    BY <2>2
  <2> QED
    BY <1>2, <2>1, <2>2
<1> QED
  BY <1>1, <1>2, <1>3, <1>4, <1>5

\* One more message to the parent.
LEMMA SentUp ==
    ASSUME TreeInv, NEW x \in UpMessages, SendUp(<<x>>)
    PROVE  /\ pc.port = "open" => /\ uplink' = Append(uplink, x)
                                  /\ \E i \in DOMAIN uplink' : uplink'[i] = x
                                  /\ uplink = <<>> => Len(uplink') = 1 /\ uplink'[1] = x
           /\ pc.port # "open" => uplink' = uplink
           /\ \A i \in DOMAIN uplink : i \in DOMAIN uplink' /\ uplink'[i] = uplink[i]
           /\ \A i \in DOMAIN uplink' : (i \in DOMAIN uplink /\ uplink'[i] = uplink[i])
                                        \/ uplink'[i] = x
<1>1. uplink \in Seq(UpMessages)
  BY Contents
<1>2. CASE pc.port # "open"
  BY <1>2 DEF SendUp
<1>3. CASE pc.port = "open"
  <2>1. uplink' = Append(uplink, x)
    BY <1>1, <1>3 DEF SendUp
  <2>2. /\ Len(uplink) \in Nat /\ DOMAIN uplink = 1 .. Len(uplink)
        /\ DOMAIN uplink' = 1 .. Len(uplink) + 1
        /\ \A i \in DOMAIN uplink : i \in DOMAIN uplink' /\ uplink'[i] = uplink[i]
        /\ Len(uplink) + 1 \in DOMAIN uplink' /\ uplink'[Len(uplink) + 1] = x
    BY <1>1, <2>1, AppendedSeq
  <2>3. \A i \in DOMAIN uplink' : i \in DOMAIN uplink \/ i = Len(uplink) + 1
    BY <2>2
  <2>4. uplink = <<>> => Len(uplink') = 1 /\ uplink'[1] = x
    BY <2>1
  <2> QED
    BY <1>3, <2>1, <2>2, <2>3, <2>4
<1> QED
  BY <1>2, <1>3

LEMMA ConcatNone ==
    ASSUME NEW q \in Seq(Settled), NEW c \in Seq(Settled), NEW x,
           \A i \in DOMAIN q : q[i] # x, \A i \in DOMAIN c : c[i] # x
    PROVE  \A i \in DOMAIN (q \o c) : (q \o c)[i] # x
BY ConcatEntries

LEMMA TailNone ==
    ASSUME NEW q \in Seq(Settled), q # <<>>, NEW x, \A i \in DOMAIN q : q[i] # x
    PROVE  \A i \in DOMAIN Tail(q) : Tail(q)[i] # x
BY TailEntries

\* The next command leads on from the first contact.
LEMMA NextCommands ==
    ASSUME NEW p \in Entries, p.requested \in Targets, p.current <= p.requested,
           NEW q \in Seq(Settled), \A i \in DOMAIN q : q[i] # CONNECTED
    PROVE  \A i \in DOMAIN (q \o Command(p)) : (q \o Command(p))[i] # CONNECTED
<1>1. Command(p) \in Seq(Settled)
  <2>1. CASE Command(p) = <<>>
    BY <2>1
  <2>2. ASSUME NEW w \in Targets, Command(p) = <<w>> PROVE Command(p) \in Seq(Settled)
    <3>1. w \in Settled
      BY StateSets
    <3> QED
      BY <2>2, <3>1
  <2> QED
    BY <2>1, <2>2, CommandFacts
<1>2. \A i \in DOMAIN Command(p) : Command(p)[i] # CONNECTED
  BY BeforeContact
<1> QED
  BY <1>1, <1>2, ConcatNone

LEMMA AgreeConnect ==
    ASSUME TreeInv, AgreeInv, NEW last \in BOOLEAN, ParentConnected(last)
    PROVE  AgreeInv'
<1> DEFINE resync == <<"resync", pc.current>>
           hello == <<"connect", CONNECT>>
<1>1. /\ pc.port \in {"opening", "reopening"}
      /\ pc' = [pc EXCEPT !.port = "open", !.lastRetry = last]
      /\ UNCHANGED <<ccvars, confirmed, downlink>>
      /\ faults' = IF last THEN faults + 1 ELSE faults
      /\ \/ pc.port = "opening" /\ uplink' = Hello(pc') /\ main' = main \o Command(pc)
         \/ pc.port = "reopening" /\ uplink' = <<resync>> /\ main' = main
  BY DEF ParentConnected
<1>2. /\ pc \in Entries /\ pc.requested \in Targets /\ pc.current <= pc.requested
      /\ main \in Seq(Settled) /\ pc.requested \in Int /\ pc.current \in Int
  BY Types, StateSets, EntryFields DEF TreeInv, PCTypes, Order, InHand
<1>3. /\ pc'.port = "open" /\ pc'.current = pc.current /\ pc'.requested = pc.requested
      /\ pc'.lastRetry = last /\ pc' \in Entries
  BY <1>1, <1>2 DEF Entries, Ports
<1>8. faults' = 0 => faults = 0 /\ ~last
  BY <1>1, Types, TreeAssumption DEF TreeInv, LinkTypes
<1>4. cc.port # "open" /\ uplink = <<>> /\ downlink = <<>>
  BY <1>1, Types DEF TreeInv, Contact, LinkTypes
<1>5. UNCHANGED <<cc, unsent>>
  BY <1>1 DEF ccvars
<1>6. CASE pc.port = "reopening"
  <2>1. resync[1] = "resync" /\ resync[2] = pc.current
    OBVIOUS
  <2> HIDE DEF resync
  <2>2. DOMAIN uplink' = {1} /\ uplink'[1] = resync
    BY <1>1, <1>6
  <2>3. pc.current # QUITED
    BY <1>2, <1>6 DEF TreeInv, Fresh
  <2>4. Answered' /\ NotGone'
    BY <2>1, <2>2, <2>3 DEF Answered, NotGone, Introduces
  <2>5. Once'
    BY <1>6, <1>8 DEF AgreeInv, Once
  <2>6. Tells(resync) /\ Tale(resync) = pc.current
    BY <2>1 DEF Tells, Tale
  <2>7. Told(uplink', cc'.current, pc'.current)
    BY <1>3, <2>2, <2>6 DEF Told
  <2> QED
    BY <2>4, <2>5, <2>7 DEF AgreeInv, Agreement
<1>7. CASE pc.port = "opening"
  <2>1. /\ pc.current = CONNECT /\ ~last => uplink' = <<hello>>
        /\ pc.current # CONNECT \/ last => uplink' = <<>>
    BY <1>1, <1>2, <1>3, <1>7, BeforeContact
  <2>2. hello[1] = "connect" /\ hello[2] = CONNECT
    OBVIOUS
  <2> HIDE DEF hello
  <2>3. pc.current = CONNECT /\ ~last => DOMAIN uplink' = {1} /\ uplink'[1] = hello /\ Len(uplink') = 1
    BY <2>1
  <2>4. Answered' /\ NotGone'
    BY <1>3, <2>1, <2>2, <2>3 DEF Answered, NotGone, Introduces
  <2>5. Agreement'
    <3>1. CASE pc.current = CONNECT /\ ~last
      BY <1>3, <3>1 DEF Agreement
    <3>2. CASE pc.current # CONNECT \/ last
      BY <1>4, <1>5, <2>1, <3>2 DEF Agreement, Linked, Introduces
    <3> QED
      BY <3>1, <3>2
  <2>6. Once'
    <3> SUFFICES ASSUME faults = 0, faults' = 0, ~last PROVE Once'
      BY <1>8 DEF Once
    <3>1. main' = main \o Command(pc)
      BY <1>1, <1>7
    <3>2. CASE pc.current = NOSTATE
      <4>1. Command(pc) = <<>> /\ main \in {<<>>, <<CONNECTED>>}
        BY <1>2, <3>2, BeforeContact DEF AgreeInv, Once
      <4>2. main' = main
        BY <1>2, <3>1, <4>1
      <4> QED
        BY <1>1, <1>3, <1>4, <1>5, <2>1, <3>2, <4>1, <4>2 DEF Once
    <3>3. CASE pc.current = CONNECT
      <4>1. Command(pc) = <<>> /\ main = <<>>
        BY <1>2, <3>3, BeforeContact DEF AgreeInv, Once
      <4>2. main' = <<>>
        BY <3>1, <4>1
      <4>3. Introducing'
        BY <1>1, <1>4, <1>5, <2>2, <2>3, <3>3 DEF Introducing
      <4> QED
        BY <1>1, <1>3, <1>4, <2>2, <2>3, <3>3, <4>2, <4>3 DEF Once
    <3>4. CASE pc.current \notin {NOSTATE, CONNECT}
      <4>1. \A i \in DOMAIN main : main[i] # CONNECTED
        BY <3>4 DEF AgreeInv, Once, Introduced
      <4>2. \A i \in DOMAIN main' : main'[i] # CONNECTED
        BY <1>2, <3>1, <4>1, NextCommands
      <4>3. uplink' = <<>> /\ downlink' = <<>>
        BY <1>1, <1>4, <2>1, <3>4
      <4>4. Introduced'
        BY <4>2, <4>3 DEF Introduced
      <4> QED
        BY <1>1, <1>3, <3>4, <4>3, <4>4 DEF Once
    <3> QED
      BY <3>2, <3>3, <3>4
  <2> QED
    BY <2>4, <2>5, <2>6 DEF AgreeInv
<1> QED
  BY <1>1, <1>6, <1>7

\* ParentControl reads a message.
LEMMA AgreeDown ==
    ASSUME TreeInv, TreeInv', AgreeInv, ReceiveDown
    PROVE  AgreeInv'
<1> DEFINE m == Head(downlink)
           t == Tail(downlink)
           p == pc'
           introduced == [pc EXCEPT !.current = CONNECTED, !.lastRetry = FALSE]
           asking == [pc EXCEPT !.requested = m[2]]
<1>1. /\ downlink # <<>> /\ downlink' = t
      /\ UNCHANGED <<cc, unsent, confirmed, faults>>
  BY DEF ReceiveDown, ccvars
<1>2. /\ downlink \in Seq(DownMessages) /\ m \in DownMessages /\ m = downlink[1]
      /\ 1 \in DOMAIN downlink
      /\ \A i \in DOMAIN t : /\ i \in Int /\ i + 1 \in DOMAIN downlink
                             /\ t[i] = downlink[i + 1] /\ i + 1 > 1
  <2>1. downlink \in Seq(DownMessages)
    BY Contents
  <2>2. \A i \in DOMAIN t : i + 1 > 1
    BY <1>1, <2>1
  <2> QED
    BY <1>1, <2>1, <2>2, TailEntries
<1>3. /\ pc \in Entries /\ p \in Entries /\ main \in Seq(Settled) /\ faults \in Nat
      /\ uplink \in Seq(UpMessages)
  BY Types, TypesPrimed, TreeAssumption DEF TreeInv, PCTypes, LinkTypes
<1>4. p.requested \in Targets /\ p.current <= p.requested
  BY StateSets DEF TreeInv, Order, InHand
<1>5. /\ m[1] \in {"connected", "resynced", "request"}
      /\ m[1] = "connected" =>
            pc' = ResetRetries(introduced) /\ main' = main /\ uplink' = uplink
      /\ m[1] # "connected" =>
            /\ pc' = ResetRetries(asking) \/ pc' = ResetRetries(pc)
            /\ main' = main \o Command(pc') /\ SendUp(Hello(pc'))
  BY <1>2 DEF ReceiveDown, DownMessages
<1>6. /\ p.port = pc.port
      /\ m[1] = "connected" => p.current = CONNECTED
      /\ m[1] # "connected" => p.current = pc.current
      /\ p.lastRetry => pc.lastRetry
  <2>1. p \in {ResetRetries(introduced), ResetRetries(asking), ResetRetries(pc)}
    BY <1>5
  <2>2. \A e \in {introduced, asking, pc} :
           /\ ResetRetries(e).port = pc.port /\ ResetRetries(e).current = e.current
           /\ ResetRetries(e).lastRetry => pc.lastRetry
    BY <1>3 DEF ResetRetries, Entries
  <2>3. introduced.current = CONNECTED /\ asking.current = pc.current
    BY <1>3 DEF Entries
  <2> HIDE DEF m, p, introduced, asking
  <2> QED
    BY <1>5, <2>1, <2>2, <2>3 DEF p
<1>7. m[1] # "connected" => main' = main \o Command(p) /\ SendUp(Hello(p))
  BY <1>5
<1> HIDE DEF m, t, p, introduced, asking
\* Without faults, a child that is not introduced yet reads that it is connected.
<1>8. ASSUME faults = 0
      PROVE  \/ /\ pc.current = CONNECT /\ m[1] = "connected" /\ pc.port = "open"
                /\ uplink = <<>> /\ main = <<>>
                /\ \A i \in DOMAIN t : t[i][1] = "request"
                /\ cc.port = "open" /\ unsent = {} => cc.current = CONNECTED
             \/ /\ pc.current \notin {NOSTATE, CONNECT} /\ Introduced
                /\ m[1] = "request"
  <2>1. pc.port \in {"open", "removed"} /\ pc.current # NOSTATE
    BY <1>1, <1>8 DEF TreeInv, Contact, AgreeInv, Once
  <2>2. CASE pc.current = CONNECT
    <3>1. pc.port = "open" /\ main = <<>> /\ Introducing
      BY <1>8, <2>1, <2>2 DEF AgreeInv, Once
    <3>2. /\ uplink = <<>> /\ downlink[1][1] = "connected"
          /\ \A i \in DOMAIN downlink : i > 1 => downlink[i][1] = "request"
          /\ cc.port = "open" /\ unsent = {} => cc.current = CONNECTED
      BY <1>1, <3>1 DEF Introducing
    <3> QED
      BY <1>2, <2>2, <3>1, <3>2
  <2>3. CASE pc.current # CONNECT
    <3>1. Introduced /\ \A i \in DOMAIN downlink : downlink[i][1] # "resynced"
      BY <1>8, <2>1, <2>3 DEF AgreeInv, Once
    <3> QED
      BY <1>2, <1>5, <2>1, <2>3, <3>1 DEF Introduced
  <2> QED
    BY <2>2, <2>3
<1>9. CASE m[1] = "connected"
  <2>1. p.current = CONNECTED /\ main' = main /\ uplink' = uplink
    BY <1>5, <1>6, <1>9
  <2>2. Answered' /\ NotGone'
    BY <1>6, <2>1 DEF AgreeInv, Answered, NotGone, p
  <2>3. Agreement'
    <3>1. CASE faults > 0
      BY <1>1, <2>1, <3>1 DEF Agreement, p
    <3>2. CASE faults = 0
      <4> SUFFICES ASSUME Linked' PROVE Told(uplink', cc'.current, CONNECTED)
        BY <2>1 DEF Agreement, p
      <4>1. uplink = <<>> /\ (cc.port = "open" /\ unsent = {} => cc.current = CONNECTED)
        BY <1>8, <1>9, <3>2
      <4>2. cc.current = CONNECTED
        BY <1>1, <2>1, <4>1 DEF Linked, Introduces
      <4> QED
        BY <1>1, <2>1, <4>1, <4>2 DEF Told
    <3> QED
      BY <1>3, <3>1, <3>2
  <2>4. Once'
    <3> SUFFICES ASSUME faults = 0 PROVE Once'
      BY <1>1 DEF Once
    <3>1. /\ pc.port = "open" /\ uplink = <<>> /\ main = <<>>
          /\ \A i \in DOMAIN t : t[i][1] = "request"
      BY <1>8, <1>9
    <3>2. Introduced'
      BY <1>1, <2>1, <3>1 DEF Introduced
    <3> QED
      BY <1>1, <1>6, <2>1, <3>1, <3>2 DEF Once, p
  <2> QED
    BY <2>2, <2>3, <2>4 DEF AgreeInv
<1>10. CASE m[1] # "connected" /\ pc.current = CONNECT /\ ~p.lastRetry
  <2> DEFINE hello == <<"connect", CONNECT>>
  <2>1. hello \in UpMessages /\ hello[1] = "connect" /\ hello[2] = CONNECT
    BY StateSets DEF UpMessages
  <2>2. SendUp(<<hello>>)
    BY <1>3, <1>4, <1>6, <1>7, <1>10, BeforeContact
  <2>3. p.current = CONNECT
    BY <1>6, <1>10
  <2> HIDE DEF hello
  <2>4. /\ pc.port = "open" => \E i \in DOMAIN uplink' : uplink'[i] = hello
        /\ \A i \in DOMAIN uplink' : (i \in DOMAIN uplink /\ uplink'[i] = uplink[i])
                                     \/ uplink'[i] = hello
    BY <2>1, <2>2, SentUp
  <2>5. Answered'
    BY <1>6, <2>1, <2>4 DEF Answered, Introduces, p
  <2>6. NotGone'
    BY <1>6, <2>1, <2>4 DEF AgreeInv, NotGone, p
  <2>7. Agreement'
    BY <1>10, <2>3 DEF Agreement, p
  <2>8. Once'
    BY <1>1, <1>8, <1>10 DEF Once
  <2> QED
    BY <2>5, <2>6, <2>7, <2>8 DEF AgreeInv
<1>11. CASE m[1] # "connected" /\ (pc.current # CONNECT \/ p.lastRetry)
  <2>1. p.current = pc.current
    BY <1>6, <1>11
  <2>2. Hello(p) = <<>>
    BY <1>3, <1>4, <1>11, <2>1, BeforeContact
  <2>3. uplink' = uplink
    BY <1>3, <1>7, <1>11, <2>2 DEF SendUp
  <2>4. Answered' /\ NotGone'
    BY <1>6, <1>11, <2>1, <2>3 DEF AgreeInv, Answered, NotGone, p
  <2>5. Agreement'
    <3>1. Linked' => Linked
      BY <1>1, <1>6, <2>3 DEF Linked, p
    <3>2. Meeting => Meeting'
      <4>1. ASSUME NEW i \in DOMAIN downlink, downlink[i][1] = "connected"
            PROVE  \E j \in DOMAIN t : t[j][1] = "connected"
        <5>1. i # 1
          BY <1>2, <1>11, <4>1
        <5>2. i - 1 \in DOMAIN t /\ t[i - 1] = downlink[i]
          BY <1>1, <1>2, <5>1 DEF t
        <5> QED
          BY <4>1, <5>2
      <4> QED
        BY <1>1, <2>3, <4>1 DEF Meeting
    <3>3. p.current = CONNECT => pc.lastRetry
      BY <1>6, <1>11, <2>1
    <3> QED
      BY <1>1, <1>11, <2>1, <2>3, <3>1, <3>2, <3>3 DEF AgreeInv, Agreement, p
  <2>6. Once'
    <3> SUFFICES ASSUME faults = 0 PROVE Once'
      BY <1>1 DEF Once
    <3>1. pc.current \notin {NOSTATE, CONNECT} /\ Introduced
      BY <1>8, <1>11
    <3>2. \A i \in DOMAIN main' : main'[i] # CONNECTED
      <4>1. main' = main \o Command(p)
        BY <1>7, <1>11
      <4>2. \A i \in DOMAIN main : main[i] # CONNECTED
        BY <3>1 DEF Introduced
      <4> QED
        BY <1>3, <1>4, <4>1, <4>2, NextCommands
    <3>3. Introduced'
      BY <1>1, <1>2, <2>3, <3>1, <3>2 DEF Introduced
    <3>4. \A i \in DOMAIN t : t[i][1] # "resynced"
      BY <1>2 DEF AgreeInv, Once
    <3>5. /\ \/ pc.port \in {"none", "opening", "open"}
             \/ pc.port = "removed" /\ pc.current = QUITED
          /\ pc.port = "none" => pc.current = NOSTATE
          /\ \A i \in DOMAIN uplink : uplink[i][1] # "resync"
      BY DEF AgreeInv, Once
    <3> QED
      BY <1>1, <1>6, <2>1, <2>3, <3>1, <3>3, <3>4, <3>5 DEF Once, p
  <2> QED
    BY <2>4, <2>5, <2>6 DEF AgreeInv
<1> QED
  BY <1>5, <1>9, <1>10, <1>11

\* The main task leaves the child where it is.
LEMMA AgreeDropped ==
    ASSUME TreeInv, AgreeInv, UNCHANGED <<ccvars, pc, downlink, faults>>,
           main # <<>>, main' = Tail(main), faults = 0 => pc.current # NOSTATE,
           \/ uplink' = uplink
           \/ Head(main) # QUITED /\ SendUp(<< <<"failed", Head(main)>> >>)
    PROVE  AgreeInv'
<1> DEFINE s == Head(main)
           m == <<"failed", s>>
<1>1. /\ uplink \in Seq(UpMessages) /\ main \in Seq(Settled)
      /\ s \in States
  <2>1. uplink \in Seq(UpMessages) /\ main \in Seq(Settled) /\ s \in Settled
    BY Contents, Types, TailInHand DEF TreeInv, PCTypes
  <2> HIDE DEF s
  <2> QED
    BY <2>1, StateSets
<1>2. m \in UpMessages /\ m[1] = "failed" /\ m[2] = s /\ ~Tells(m)
  BY <1>1 DEF UpMessages, Tells
<1>3. \/ uplink' = uplink
      \/ s # QUITED /\ SendUp(<<m>>)
  OBVIOUS
<1>4. UNCHANGED <<cc, unsent>>
  BY DEF ccvars
<1>5. \A i \in DOMAIN Tail(main) : i \in Int /\ i + 1 \in DOMAIN main /\ Tail(main)[i] = main[i + 1]
  BY <1>1, TailEntries
<1> HIDE DEF s, m
<1>6. /\ \A i \in DOMAIN uplink : i \in DOMAIN uplink' /\ uplink'[i] = uplink[i]
      /\ \A i \in DOMAIN uplink' : (i \in DOMAIN uplink /\ uplink'[i] = uplink[i])
                                   \/ (uplink'[i] = m /\ s # QUITED)
      /\ uplink' = uplink \/ (uplink' = Append(uplink, m) /\ pc.port = "open")
  <2>1. CASE uplink' = uplink
    BY <2>1
  <2>2. CASE s # QUITED /\ SendUp(<<m>>)
    BY <1>2, <2>2, SentUp
  <2> QED
    BY <1>3, <2>1, <2>2
<1>7. Introduces(uplink') <=> Introduces(uplink)
  BY <1>2, <1>6 DEF Introduces
<1>8. Answered'
  BY <1>7 DEF AgreeInv, Answered
<1>9. NotGone'
  BY <1>2, <1>6 DEF AgreeInv, NotGone
<1>10. Once'
  <2> SUFFICES ASSUME faults = 0 PROVE Once'
    BY DEF Once
  <2>1. pc.current \notin {NOSTATE, CONNECT} /\ Introduced
    BY DEF AgreeInv, Once
  <2>2. \A i \in DOMAIN main' : main'[i] # CONNECTED
    BY <1>1, <2>1, TailNone DEF Introduced
  <2>3. Introduced'
    BY <1>2, <1>6, <2>1, <2>2 DEF Introduced
  <2>4. \A i \in DOMAIN uplink' : uplink'[i][1] # "resync"
    BY <1>2, <1>6 DEF AgreeInv, Once
  <2>5. /\ \/ pc.port \in {"none", "opening", "open"}
           \/ pc.port = "removed" /\ pc.current = QUITED
        /\ pc.port = "none" => pc.current = NOSTATE
        /\ \A i \in DOMAIN downlink : downlink[i][1] # "resynced"
    BY DEF AgreeInv, Once
  <2> QED
    BY <2>1, <2>3, <2>4, <2>5 DEF Once
<1>11. Agreement'
  <2>1. Linked' => Linked
    BY <1>4, <1>7 DEF Linked
  <2>2. Told(uplink, cc.current, pc.current) => Told(uplink', cc.current, pc.current)
    <3>1. CASE uplink' = uplink
      BY <3>1
    <3>2. CASE uplink' = Append(uplink, m)
      BY <1>1, <1>2, <3>2, ToldMore
    <3> QED
      BY <1>6, <3>1, <3>2
  <2>3. Meeting => Meeting'
    BY <1>6 DEF Meeting
  <2> QED
    BY <1>4, <2>1, <2>2, <2>3 DEF AgreeInv, Agreement
<1> QED
  BY <1>8, <1>9, <1>10, <1>11 DEF AgreeInv

\* The main task has reached a state, and the parent is told.
LEMMA AgreeReached ==
    ASSUME TreeInv, TreeInv', AgreeInv, UNCHANGED <<ccvars, downlink, faults>>, Known,
           main # <<>>, Head(main) \notin {CONNECTED, QUITED},
           pc' = ResetRetries([pc EXCEPT !.current = Head(main)]),
           main' = Tail(main) \o Command(pc'), SendUp(<< <<"done", Head(main)>> >>)
    PROVE  AgreeInv'
<1> DEFINE s == Head(main)
           t == Tail(main)
           m == <<"done", s>>
           p == pc'
<1>1. /\ uplink \in Seq(UpMessages) /\ main \in Seq(Settled) /\ s \in Targets /\ s \in Settled
      /\ t \in Seq(Settled) /\ pc \in Entries /\ p \in Entries
  BY Contents, Types, TypesPrimed, TailInHand DEF TreeInv, PCTypes
<1>2. s \in States /\ s # NOSTATE /\ s # CONNECT /\ s # CONNECTED /\ s # QUITED
  <2>1. s # CONNECTED /\ s # QUITED
    OBVIOUS
  <2> HIDE DEF s, t, m, p
  <2>2. s # NOSTATE /\ s # CONNECT
    BY <1>1 DEF Targets
  <2> QED
    BY <1>1, <2>1, <2>2, StateSets
<1>3. m \in UpMessages /\ m[1] = "done" /\ m[2] = s /\ Tells(m) /\ Tale(m) = s
  BY <1>2 DEF UpMessages, Tells, Tale
<1>4. p.port = pc.port /\ p.current = s
  <2> DEFINE reached == [pc EXCEPT !.current = s]
  <2>1. reached \in Entries /\ reached.port = pc.port /\ reached.current = s
    BY <1>1 DEF Entries
  <2>2. p = ResetRetries(reached)
    OBVIOUS
  <2> HIDE DEF reached, s, p
  <2> QED
    BY <2>1, <2>2, ResetFacts
<1>5. p.requested \in Targets /\ p.current <= p.requested
  BY StateSets DEF TreeInv, Order, InHand
<1>6. main' = t \o Command(p) /\ SendUp(<<m>>)
  OBVIOUS
<1>7. UNCHANGED <<cc, unsent>>
  BY DEF ccvars
<1> HIDE DEF s, t, m, p
<1>8. /\ pc.port = "open" => uplink' = Append(uplink, m)
      /\ \A i \in DOMAIN uplink' : (i \in DOMAIN uplink /\ uplink'[i] = uplink[i])
                                   \/ uplink'[i] = m
  BY <1>3, <1>6, SentUp
<1>9. Answered'
  BY <1>2, <1>4 DEF Answered, p
<1>10. NotGone'
  BY <1>2, <1>3, <1>4, <1>8 DEF AgreeInv, NotGone, p
<1>11. Once'
  <2> SUFFICES ASSUME faults = 0 PROVE Once'
    BY DEF Once
  <2>1. pc.current \notin {NOSTATE, CONNECT} /\ Introduced
    <3>1. main # <<CONNECTED>>
      BY <1>2 DEF s
    <3> QED
      BY <3>1 DEF AgreeInv, Once
  <2>2. \A i \in DOMAIN t : t[i] # CONNECTED
    BY <1>1, <2>1, TailNone DEF Introduced, t
  <2>3. \A i \in DOMAIN main' : main'[i] # CONNECTED
    BY <1>1, <1>5, <1>6, <2>2, NextCommands
  <2>4. Introduced'
    BY <1>3, <1>8, <2>1, <2>3 DEF Introduced
  <2>5. \A i \in DOMAIN uplink' : uplink'[i][1] # "resync"
    BY <1>3, <1>8 DEF AgreeInv, Once
  <2>6. /\ pc.port \in {"opening", "open"}
        /\ \A i \in DOMAIN downlink : downlink[i][1] # "resynced"
    BY DEF AgreeInv, Once, Known
  <2> QED
    BY <1>2, <1>4, <2>4, <2>5, <2>6 DEF Once, p
<1>12. Agreement'
  <2> SUFFICES ASSUME pc.port = "open" PROVE Agreement'
    BY <1>4 DEF Agreement, Linked, p
  <2>1. Told(Append(uplink, m), cc.current, s)
    <3>1. Told(Append(uplink, m), cc.current, Tale(m))
      BY <1>1, <1>3, ToldMore
    <3> QED
      BY <1>3, <3>1
  <2> QED
    BY <1>4, <1>7, <1>8, <2>1 DEF Agreement, p
<1> QED
  BY <1>9, <1>10, <1>11, <1>12 DEF AgreeInv

\* The main task is ready to be connected: the child says so, now or when it has a connection.
LEMMA AgreeHello ==
    ASSUME TreeInv, AgreeInv, UNCHANGED <<ccvars, downlink, faults>>, Known,
           main # <<>>, Head(main) = CONNECTED, main' = Tail(main),
           pc' = [pc EXCEPT !.current = CONNECT], SendUp(<< <<"connect", CONNECT>> >>)
    PROVE  AgreeInv'
<1> DEFINE m == <<"connect", CONNECT>>
<1>1. m \in UpMessages /\ m[1] = "connect" /\ m[2] = CONNECT
  BY StateSets DEF UpMessages
<1>2. pc'.port = pc.port /\ pc'.current = CONNECT
  BY Types DEF TreeInv, PCTypes, Entries
<1>3. SendUp(<<m>>) /\ UNCHANGED <<cc, unsent>>
  BY DEF ccvars
<1>4. main \in Seq(Settled) /\ Head(main) = main[1] /\ 1 \in DOMAIN main
  BY Types, TailEntries DEF TreeInv, PCTypes
<1> HIDE DEF m
<1>5. /\ pc.port = "open" => /\ \E i \in DOMAIN uplink' : uplink'[i] = m
                             /\ uplink = <<>> => Len(uplink') = 1 /\ uplink'[1] = m
      /\ pc.port # "open" => uplink' = uplink
      /\ \A i \in DOMAIN uplink' : (i \in DOMAIN uplink /\ uplink'[i] = uplink[i])
                                   \/ uplink'[i] = m
  BY <1>1, <1>3, SentUp
<1>6. Answered'
  BY <1>1, <1>2, <1>5 DEF Answered, Introduces
<1>7. NotGone'
  BY <1>1, <1>2, <1>5 DEF AgreeInv, NotGone
<1>8. Agreement'
  <2>1. pc.port = "open" => Meeting'
    BY <1>1, <1>5 DEF Meeting
  <2> QED
    BY <1>2, <2>1 DEF Agreement, Linked
<1>9. Once'
  <2> SUFFICES ASSUME faults = 0 PROVE Once'
    BY DEF Once
  <2>1. pc.current = NOSTATE
    <3>1. ~Introduced
      BY <1>4 DEF Introduced
    <3> QED
      BY <3>1 DEF AgreeInv, Once
  <2>2. /\ main = <<CONNECTED>> /\ uplink = <<>> /\ downlink = <<>> /\ cc.port # "open"
        /\ pc.port \in {"opening", "open"}
    BY <2>1 DEF AgreeInv, Once, Known
  <2>3. main' = <<>>
    BY <2>2
  <2>4. Introducing'
    BY <1>1, <1>2, <1>3, <1>5, <2>2 DEF Introducing
  <2>5. \A i \in DOMAIN uplink' : uplink'[i][1] # "resync"
    BY <1>1, <1>5, <2>2
  <2>6. \A i \in DOMAIN downlink' : downlink'[i][1] # "resynced"
    BY <2>2
  <2> QED
    BY <1>2, <2>2, <2>3, <2>4, <2>5, <2>6 DEF Once
<1> QED
  BY <1>6, <1>7, <1>8, <1>9 DEF AgreeInv

\* The main task has quit, and the child has no connection any more.
LEMMA AgreeQuit ==
    ASSUME TreeInv, AgreeInv, UNCHANGED <<ccvars, downlink, faults>>, Known,
           main # <<>>, Head(main) = QUITED, main' = Tail(main),
           pc' = [port |-> "removed", requested |-> QUITED, current |-> QUITED,
                  lastRetry |-> FALSE],
           SendUp(<< <<"done", QUITED>> >>)
    PROVE  AgreeInv'
<1> DEFINE m == <<"done", QUITED>>
<1>1. m \in UpMessages /\ m[1] = "done"
  BY DEF UpMessages, States
<1>2. pc'.port = "removed" /\ pc'.current = QUITED /\ SendUp(<<m>>)
  OBVIOUS
<1>3. main \in Seq(Settled)
  BY Types DEF TreeInv, PCTypes
<1> HIDE DEF m
<1>4. \A i \in DOMAIN uplink' : (i \in DOMAIN uplink /\ uplink'[i] = uplink[i]) \/ uplink'[i] = m
  BY <1>1, <1>2, SentUp
<1>5. Answered' /\ NotGone' /\ Agreement'
  BY <1>2 DEF Answered, NotGone, Agreement, Linked
<1>6. Once'
  <2> SUFFICES ASSUME faults = 0 PROVE Once'
    BY DEF Once
  <2>1. Introduced
    <3>1. main # <<CONNECTED>>
      OBVIOUS
    <3> QED
      BY <3>1 DEF AgreeInv, Once
  <2>2. \A i \in DOMAIN main' : main'[i] # CONNECTED
    BY <1>3, <2>1, TailNone DEF Introduced
  <2>3. Introduced'
    BY <1>1, <1>4, <2>1, <2>2 DEF Introduced
  <2>4. /\ \A i \in DOMAIN uplink' : uplink'[i][1] # "resync"
        /\ \A i \in DOMAIN downlink' : downlink'[i][1] # "resynced"
    BY <1>1, <1>4 DEF AgreeInv, Once
  <2> QED
    BY <1>2, <2>3, <2>4 DEF Once
<1> QED
  BY <1>5, <1>6 DEF AgreeInv

LEMMA AgreeMain ==
    ASSUME TreeInv, TreeInv', AgreeInv, MainTaskStep
    PROVE  AgreeInv'
<1>1. main # <<>> /\ UNCHANGED <<ccvars, downlink, faults>>
  BY DEF MainTaskStep, MainTaskReady, MainTaskFails, MainTaskAborts
<1>2. main \in Seq(Settled)
  BY Types DEF TreeInv, PCTypes
<1>3. ASSUME faults = 0, pc.current = NOSTATE
      PROVE  main = <<CONNECTED>> /\ Known
  BY <1>1, <1>3 DEF AgreeInv, Once, Known, TreeInv, Contact
<1>4. CASE MainTaskFails
  <2>1. /\ Head(main) \notin {CONNECTED, QUITED} /\ main' = Tail(main) /\ pc' = pc
        /\ uplink' = uplink \/ SendUp(<< <<"failed", Head(main)>> >>)
    BY <1>4 DEF MainTaskFails
  <2>2. faults = 0 => pc.current # NOSTATE
    BY <1>3, <2>1
  <2> QED
    BY <1>1, <2>1, <2>2, AgreeDropped
<1>5. CASE MainTaskAborts
  <2>1. /\ main' = Tail(main) /\ pc' = pc /\ uplink' = uplink
        /\ \E i \in 2 .. Len(main) : main[i] = QUITED
    BY <1>5 DEF MainTaskAborts
  <2>2. faults = 0 => pc.current # NOSTATE
    BY <1>3, <2>1
  <2> QED
    BY <1>1, <2>1, <2>2, AgreeDropped
<1>6. CASE MainTaskReady
  <2>1. CASE Head(main) = CONNECTED /\ Known
    BY <1>1, <1>6, <2>1, AgreeHello DEF MainTaskReady, Confirm
  <2>2. CASE Head(main) = QUITED /\ Known
    BY <1>1, <1>6, <2>2, AgreeQuit DEF MainTaskReady, Confirm
  <2>3. CASE Head(main) \notin {CONNECTED, QUITED} /\ Known
    BY <1>1, <1>6, <2>3, AgreeReached DEF MainTaskReady, Confirm, Reached
  <2>4. CASE ~Known
    <3>1. main' = Tail(main) /\ pc' = pc /\ uplink' = uplink
      BY <1>6, <2>4 DEF MainTaskReady, Confirm
    <3>2. faults = 0 => pc.current # NOSTATE
      BY <1>3, <2>4
    <3> QED
      BY <1>1, <3>1, <3>2, AgreeDropped
  <2> QED
    BY <2>1, <2>2, <2>3, <2>4
<1> QED
  BY <1>4, <1>5, <1>6 DEF MainTaskStep

LEMMA AgreeStep == TreeInv /\ TreeInv' /\ Retried /\ AgreeInv /\ [Next]_vars => AgreeInv'
<1> SUFFICES ASSUME TreeInv, TreeInv', Retried, AgreeInv, [Next]_vars PROVE AgreeInv'
  OBVIOUS
<1>1. CASE UNCHANGED vars
  <2>1. faults' = faults /\ faults \in Nat
    BY <1>1, Types, TreeAssumption DEF TreeInv, LinkTypes, vars
  <2>2. UNCHANGED <<pcvars, uplink, downlink, cc, unsent>>
    BY <1>1 DEF vars, ccvars
  <2> QED
    BY <2>1, <2>2, AgreeQuiet
<1>2. CASE Next
  <2>1. TreeInv /\ TreeInv' /\ Retried /\ AgreeInv
    OBVIOUS
  <2>2. CASE (\E s \in Requests : RequestState(s)) \/ StartFails \/ StartDaemonOffline
             \/ GarbageCollection \/ ChildDisconnected
    BY <2>1, <2>2, AgreeEntry
  <2>3. CASE ProcessAction
    BY <2>1, <2>3, AgreeAction
  <2>4. CASE ReceiveUp
    BY <2>1, <2>4, AgreeUp
  <2>5. CASE NewParent
    BY <2>1, <2>5, AgreeNewParent
  <2>6. ASSUME NEW last \in BOOLEAN, ParentConnected(last) PROVE AgreeInv'
    BY <2>1, <2>6, AgreeConnect
  <2>7. CASE ReceiveDown
    BY <2>1, <2>7, AgreeDown
  <2>8. CASE MainTaskStep
    BY <2>1, <2>8, AgreeMain
  <2>9. CASE ParentDisconnected \/ GiveUp \/ LinkBreaks
    BY <2>1, <2>9, AgreePort
  <2> QED
    BY <1>2, <2>2, <2>3, <2>4, <2>5, <2>6, <2>7, <2>8, <2>9
       DEF Next, ChildControlStep, DaemonStep, ParentControlStep
<1> QED
  BY <1>1, <1>2

\* When nothing is under way, ChildControl knows the state the child is in, after errors and
\* repeated commands, and over any number of new connections too - unless it took a request
\* to be carried out that it did not pass on, or the child was taken back to CONNECTED by a
\* first contact that it made twice, which takes a lost connection.
THEOREM SidesAgree == Spec => []StatesAgree
<1>1. Init => AgreeInv
  <2> SUFFICES ASSUME Init PROVE AgreeInv
    OBVIOUS
  <2>1. pc.port = "none" /\ pc.current = NOSTATE /\ cc.port = "null"
    BY DEF Init
  <2>2. uplink = <<>> /\ downlink = <<>> /\ main = <<>>
    BY DEF Init
  <2>3. Once
    BY <2>1, <2>2 DEF Once
  <2>4. Answered /\ NotGone /\ Agreement
    BY <2>1 DEF Answered, NotGone, Agreement, Linked
  <2> QED
    BY <2>3, <2>4 DEF AgreeInv
<1>2. TreeInv /\ AgreeInv => StatesAgree
  <2> SUFFICES ASSUME AgreeInv, Quiet, cc.port = "open", pc.port = "open", unsent = {}
               PROVE  pc.current = cc.current \/ (faults > 0 /\ pc.current = CONNECTED)
    BY DEF StatesAgree
  <2>1. uplink = <<>> /\ downlink = <<>>
    BY DEF Quiet
  <2>2. pc.current = CONNECT => pc.lastRetry /\ ~Meeting
    BY <2>1 DEF AgreeInv, Answered, Introduces, Meeting
  <2>3. Linked
    BY DEF Linked
  <2>4. Told(uplink, cc.current, pc.current) => cc.current = pc.current
    BY <2>1 DEF Told
  <2> QED
    BY <2>2, <2>3, <2>4 DEF AgreeInv, Agreement
<1>3. Spec => []Retried
  <2>1. Init => Retried
    BY DEF Init, Retried
  <2>2. TreeInv => TypeOK
    BY DEF TreeInv
  <2> QED
    BY <2>1, <2>2, RetriedStep, TreeInvariant, PTL DEF Spec
<1>4. Spec => []AgreeInv
  BY <1>1, <1>3, AgreeStep, TreeInvariant, PTL DEF Spec
<1> QED
  BY <1>2, <1>4, TreeInvariant, PTL
=============================================================================
