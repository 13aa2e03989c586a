-------------------------- MODULE RelayChannel_proofs --------------------------
(***************************************************************************)
(* What the relay answered is in its database, for any number of requests  *)
(* and operators.  Nothing orders the saves: the argument is that each     *)
(* write is followed by a save of whatever the record is by then, so the   *)
(* last save to happen saves the last write.                               *)
(***************************************************************************)
EXTENDS RelayChannel, TLAPS

\* Somebody has still to save.
Unsaved ==
    \/ \E r \in Handlers : handler[r] = "save"
    \/ checker = "save"
    \/ \E o \in Operators : operator[o] # "idle"

\* The record is the row unless somebody has still to save, and the tables of
\* positions are functions of the requests.
IInv ==
    /\ DOMAIN handler = Handlers /\ handler = [r \in Handlers |-> handler[r]]
    /\ DOMAIN operator = Operators /\ operator = [o \in Operators |-> operator[o]]
    /\ Unsaved \/ db = channel

\* A step that changes neither the record nor the row and takes nobody out of
\* saving.
LEMMA NothingSaved ==
    ASSUME Unsaved \/ db = channel, UNCHANGED <<channel, db>>, Unsaved => Unsaved'
    PROVE  Unsaved' \/ db' = channel'
OBVIOUS

\* Neither a relay request nor the checker nor an operator leaves the record
\* unsaved for good, and a restart finds the row.
THEOREM DurableAtRestTheorem == Spec => []DurableAtRest
<1>1. Init => IInv
  BY DEF Init, IInv
<1>2. IInv /\ [Next]_vars => IInv'
  <2> SUFFICES ASSUME IInv, [Next]_vars PROVE IInv'
    OBVIOUS
  <2> USE DEF IInv
  <2>1. ASSUME NEW r \in Handlers, Route(r) PROVE IInv'
    BY <2>1, NothingSaved DEF Route, Unsaved
  <2>2. ASSUME NEW r \in Handlers, Answered(r) \/ Refused(r) \/ Unreachable(r) PROVE IInv'
    <3>1. PICK h : Observe(r, h)
      BY <2>2 DEF Answered, Refused, Unreachable
    <3> QED
      BY <3>1, NothingSaved DEF Observe, Unsaved
  <2>3. ASSUME NEW r \in Handlers, RecordHealth(r) PROVE IInv'
    BY <2>3 DEF RecordHealth, Unsaved
  <2>4. ASSUME NEW r \in Handlers, HandlerSaves(r) PROVE IInv'
    BY <2>4 DEF HandlerSaves
  <2>5. CASE ListEnabled \/ Probe
    BY <2>5, NothingSaved DEF ListEnabled, Probe, Unsaved
  <2>6. CASE RecordCheck
    BY <2>6 DEF RecordCheck, Unsaved
  <2>7. CASE CheckerSaves
    BY <2>7 DEF CheckerSaves
  <2>8. ASSUME NEW o \in Operators, NEW edit \in Edits, Edit(o, edit) PROVE IInv'
    BY <2>8 DEF Edit, Unsaved
  <2>9. ASSUME NEW o \in Operators, StoreCopy(o) PROVE IInv'
    BY <2>9 DEF StoreCopy, Unsaved
  <2>10. ASSUME NEW o \in Operators, OperatorSaves(o) PROVE IInv'
    BY <2>10 DEF OperatorSaves
  <2>11. CASE Outage
    BY <2>11, NothingSaved DEF Outage, Unsaved
  <2>12. CASE Restart
    BY <2>12 DEF Restart
  <2>13. CASE UNCHANGED vars
    BY <2>13, NothingSaved DEF vars, Unsaved
  <2> QED
    BY <2>1, <2>2, <2>3, <2>4, <2>5, <2>6, <2>7, <2>8, <2>9, <2>10, <2>11, <2>12, <2>13
    DEF Next, Check, Finish, Complete
<1>3. IInv => DurableAtRest
  BY DEF IInv, Unsaved, DurableAtRest
<1> QED
  BY <1>1, <1>2, <1>3, PTL DEF Spec

-----------------------------------------------------------------------------
\* A health, wherever it is on its way, that counts failures is a bad one.
Sound(h) == h.healthy => h.fails = 0

\* TypeOK is not inductive: the record is overwritten with a HealthStatus, a
\* copy or the row, so what it promises of the record has to hold of these too.
TypeInv ==
    /\ TypeOK
    /\ Sound(db) /\ Sound(found)
    /\ \A r \in Handlers : Sound(observed[r])
    /\ \A o \in Operators : Sound(copy[o])

\* What the writers make of a record: another record, sound if what they wrote is.
LEMMA Records ==
    /\ Good \in Health /\ Sound(Good)
    /\ New \in Channel /\ Sound(New)
    /\ [New EXCEPT !.healthy = FALSE] \in Channel
    /\ \A n \in Fails : OneMore(n) \in Fails /\ Bad(n) \in Health /\ Sound(Bad(n))
    /\ \A c \in Channel, h \in Health :
          WithHealth(c, h) \in Channel /\ (Sound(h) => Sound(WithHealth(c, h)))
    /\ \A c \in Channel, edit \in Edits :
          Edited(c, edit) \in Channel /\ (Sound(c) => Sound(Edited(c, edit)))
<1>1. /\ Good \in Health /\ Sound(Good)
      /\ New \in Channel /\ Sound(New)
      /\ [New EXCEPT !.healthy = FALSE] \in Channel
  <2>1. 0 \in Fails
    BY DEF Fails, FailLimit
  <2> QED
    BY <2>1 DEF Good, New, Health, Channel, Sound
<1>2. ASSUME NEW n \in Fails PROVE OneMore(n) \in Fails /\ Bad(n) \in Health /\ Sound(Bad(n))
  BY DEF OneMore, Bad, Health, Fails, FailLimit, Sound
<1>3. ASSUME NEW c \in Channel, NEW h \in Health
      PROVE  WithHealth(c, h) \in Channel /\ (Sound(h) => Sound(WithHealth(c, h)))
  BY DEF WithHealth, Health, Channel, Fails, FailLimit, Sound
<1>4. ASSUME NEW c \in Channel, NEW edit \in Edits
      PROVE  Edited(c, edit) \in Channel /\ (Sound(c) => Sound(Edited(c, edit)))
  <2>1. DOMAIN c = {"enabled", "readOnly", "healthy", "fails"}
    BY DEF Channel
  <2>2. ASSUME NEW b \in BOOLEAN, edit = [enabled |-> b]
        PROVE  Edited(c, edit) \in Channel /\ (Sound(c) => Sound(Edited(c, edit)))
    <3>1. DOMAIN edit = {"enabled"} /\ edit["enabled"] = b
      BY <2>2
    <3>2. Edited(c, edit) = [enabled |-> b, readOnly |-> c.readOnly,
                             healthy |-> c.healthy, fails |-> c.fails]
      BY <2>1, <3>1 DEF Edited
    <3> QED
      BY <3>2 DEF Channel, Sound
  <2>3. ASSUME NEW b \in BOOLEAN, edit = [readOnly |-> b]
        PROVE  Edited(c, edit) \in Channel /\ (Sound(c) => Sound(Edited(c, edit)))
    <3>1. DOMAIN edit = {"readOnly"} /\ edit["readOnly"] = b
      BY <2>3
    <3>2. Edited(c, edit) = [enabled |-> c.enabled, readOnly |-> b,
                             healthy |-> c.healthy, fails |-> c.fails]
      BY <2>1, <3>1 DEF Edited
    <3> QED
      BY <3>2 DEF Channel, Sound
  <2> QED
    BY <2>2, <2>3 DEF Edits
<1> QED
  BY <1>1, <1>2, <1>3, <1>4

\* A healthy channel has no failures counted against it, whoever wrote its
\* record last and however old what was written.
THEOREM TypeCorrect == Spec => []TypeOK
<1>1. Init => TypeInv
  <2> SUFFICES ASSUME Init PROVE TypeInv
    OBVIOUS
  <2>1. channel \in Channel /\ db = channel /\ channel.fails = 0
    <3>1. channel \in Channel /\ db = channel
      BY Records DEF Init
    <3>2. channel.fails = 0
      BY DEF Init, New
    <3> QED
      BY <3>1, <3>2
  <2>2. 0 \in Fails
    BY DEF Fails, FailLimit
  <2>3. Sound(channel) /\ Sound(db)
    BY <2>1 DEF Sound
  <2> QED
    BY <2>1, <2>2, <2>3, Records DEF Init, TypeInv, TypeOK, Sound
<1>2. TypeInv /\ [Next]_vars => TypeInv'
  <2> SUFFICES ASSUME TypeInv, [Next]_vars PROVE TypeInv'
    OBVIOUS
  <2> USE DEF TypeInv, TypeOK
  <2>1. ASSUME NEW r \in Handlers, Route(r) PROVE TypeInv'
    BY <2>1 DEF Route
  <2>2. ASSUME NEW r \in Handlers, NEW h \in Health, Sound(h), Observe(r, h) PROVE TypeInv'
    BY <2>2 DEF Observe
  <2>3. ASSUME NEW r \in Handlers, Answered(r) \/ Refused(r) \/ Unreachable(r) PROVE TypeInv'
    <3>1. CASE Answered(r)
      BY <3>1, <2>2, Records DEF Answered
    <3>2. CASE Refused(r)
      <4>1. channel.fails \in Fails
        BY DEF Channel
      <4> QED
        BY <3>2, <4>1, <2>2, Records DEF Refused
    <3>3. CASE Unreachable(r)
      <4>1. channel.fails \in Fails /\ 1 \in Fails
        BY DEF Channel, Fails, FailLimit
      <4> QED
        BY <3>3, <4>1, <2>2, Records DEF Unreachable
    <3> QED
      BY <2>3, <3>1, <3>2, <3>3
  <2>4. ASSUME NEW r \in Handlers, RecordHealth(r) PROVE TypeInv'
    BY <2>4, Records DEF RecordHealth, Sound
  <2>5. ASSUME NEW r \in Handlers, HandlerSaves(r) PROVE TypeInv'
    BY <2>5 DEF HandlerSaves, Sound
  <2>6. CASE ListEnabled
    BY <2>6 DEF ListEnabled, Channel
  <2>7. CASE Probe
    <3>1. Sound(found')
      BY <2>7, Records DEF Probe, Fails, FailLimit
    <3>2. found' \in Health /\ snapshot' \in Fails
      BY <2>7, Records DEF Probe, Fails, FailLimit
    <3> QED
      BY <2>7, <3>1, <3>2 DEF Probe
  <2>8. CASE RecordCheck
    BY <2>8, Records DEF RecordCheck, Sound
  <2>9. CASE CheckerSaves
    BY <2>9 DEF CheckerSaves, Sound
  <2>10. ASSUME NEW o \in Operators, NEW edit \in Edits, Edit(o, edit) PROVE TypeInv'
    BY <2>10, Records DEF Edit, Sound
  <2>11. ASSUME NEW o \in Operators, StoreCopy(o) PROVE TypeInv'
    BY <2>11, Records DEF StoreCopy, Sound
  <2>12. ASSUME NEW o \in Operators, OperatorSaves(o) PROVE TypeInv'
    BY <2>12 DEF OperatorSaves, Sound
  <2>13. CASE Outage
    BY <2>13 DEF Outage
  <2>14. CASE Restart
    <3>1. /\ channel' \in Channel /\ Sound(channel') /\ db' \in Channel /\ Sound(db')
          /\ upstream' = upstream
      BY <2>14 DEF Restart
    <3>2. /\ handler' \in [Handlers -> {"idle", "sent", "write", "save"}]
          /\ observed' \in [Handlers -> Health]
      BY <2>14, Records DEF Restart
    <3>3. checker' = "idle" /\ snapshot' \in Fails /\ found' \in Health /\ Sound(found')
      BY <2>14, Records DEF Restart, Fails, FailLimit
    <3>4. operator' \in [Operators -> {"idle", "store", "save"}] /\ copy' \in [Operators -> Channel]
      BY <2>14, Records DEF Restart
    <3>5. (\A r \in Handlers : Sound(observed'[r])) /\ (\A o \in Operators : Sound(copy'[o]))
      BY <2>14, Records DEF Restart
    <3>6. TypeOK'
      BY <3>1, <3>2, <3>3, <3>4 DEF Sound
    <3> QED
      BY <3>1, <3>3, <3>5, <3>6
  <2>15. CASE UNCHANGED vars
    BY <2>15 DEF vars
  <2> QED
    BY <2>1, <2>3, <2>4, <2>5, <2>6, <2>7, <2>8, <2>9, <2>10, <2>11, <2>12, <2>13, <2>14, <2>15
    DEF Next, Check, Finish, Complete
<1>3. TypeInv => TypeOK
  BY DEF TypeInv
<1> QED
  BY <1>1, <1>2, <1>3, PTL DEF Spec

=============================================================================
