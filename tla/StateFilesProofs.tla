--------------------------- MODULE StateFilesProofs ---------------------------
(***************************************************************************)
(* Theorems of StateFiles: what was settled stays settled, and a pin does  *)
(* not come back.                                                          *)
(***************************************************************************)
EXTENDS StateFiles, TLAPS

Inv == FilesInv /\ SettledStands /\ PinNeverReturns

\* What is settled is in every registry that parses.
LEMMA SettledMeansPresent ==
    ASSUME SettledStands
    PROVE \A s \in InPlace : \A i \in Items(s) :
              <<s, i>> \in settled /\ file[s].form = "whole" => i \in file[s].items
    BY DEF SettledStands, Answer, Loads

LEMMA IdleIsJob == Idle \in Job
    BY FilesAssumption DEF Idle, Job, InPlace

LEMMA InitInv == FilesInit => Inv
<1> SUFFICES ASSUME FilesInit PROVE Inv
    OBVIOUS
<1> USE DEF FilesInit
<1>1. Whole({}) \in Content
    BY DEF Content
<1>2. FilesTypeOK
    BY <1>1, IdleIsJob DEF FilesTypeOK
<1>3. \A p \in Process : job[p].at = "idle" /\ job[p] = Idle
    BY DEF Idle
<1>4. \A p \in Process : CopyIsCurrent(p) /\ CheckIsCurrent(p)
    BY <1>3 DEF CopyIsCurrent, CheckIsCurrent
<1>5. SettledStands /\ PinNeverReturns
    BY DEF SettledStands, PinNeverReturns
<1> QED BY <1>2, <1>4, <1>5 DEF Inv, FilesInv

\* The processes on a file change by the one whose job changes.
LEMMA OnFollowsJob ==
    ASSUME FilesTypeOK, NEW p \in Process, NEW j, job' = [job EXCEPT ![p] = j], NEW s
    PROVE  On(s)' = IF j.on = s THEN On(s) \cup {p} ELSE On(s) \ {p}
<1>1. \A q \in Process : job'[q] = IF q = p THEN j ELSE job[q]
    BY DEF FilesTypeOK
<1> QED BY <1>1 DEF On

\* A process that becomes idle: nothing it left behind is needed of its job.
LEMMA EndOfJob ==
    ASSUME FilesTypeOK, NEW p \in Process, \A q \in Process : CopyIsCurrent(q) /\ CheckIsCurrent(q),
           job' = [job EXCEPT ![p] = Idle], raced' = raced,
           alarmed' = alarmed, checksRaced' = checksRaced,
           \A q \in Process : q # p /\ job[q].at \in {"truncate", "fill"} =>
               \A k \in Items(job[q].on) : <<job[q].on, k>> \in settled' => k \in job[q].items,
           \A q \in Process : q # p /\ job[q].at = "replace" /\ ~checksRaced =>
               (drifted' => job[q].state.pinned = "invalid")
    PROVE  job' \in [Process -> Job] /\ \A q \in Process : CopyIsCurrent(q)' /\ CheckIsCurrent(q)'
<1>1. job \in [Process -> Job]
    BY DEF FilesTypeOK
<1>2. \A q \in Process : job'[q] = IF q = p THEN Idle ELSE job[q]
    BY <1>1
<1>3. \A t : t # "none" => On(t)' = On(t) \ {p}
  <2>1. Idle.on = "none"
      BY DEF Idle
  <2> QED BY <1>2, <2>1 DEF On
<1>4. job' \in [Process -> Job]
    BY <1>1, IdleIsJob
<1>5. ASSUME NEW q \in Process PROVE CopyIsCurrent(q)' /\ CheckIsCurrent(q)'
  <2>1. CASE q = p
      BY <2>1, <1>2 DEF Idle, CopyIsCurrent, CheckIsCurrent
  <2>2. CASE q # p
    <3>1. job'[q] = job[q] /\ CopyIsCurrent(q) /\ CheckIsCurrent(q)
        BY <2>2, <1>2
    <3>2. ASSUME job[q].at \in {"truncate", "fill"}, q \notin raced
          PROVE  On(job[q].on)' = {q}
      <4>1. On(job[q].on) = {q} /\ job[q].on # "none"
          BY <3>1, <3>2 DEF CopyIsCurrent, InPlace
      <4>2. On(job[q].on)' = On(job[q].on) \ {p}
          <5>1. job[q].on = job'[q].on
              BY <3>1
          <5> QED BY <4>1, <1>2, <2>2, <5>1 DEF On, Idle
      <4> QED BY <4>1, <4>2, <2>2
    <3>3. CopyIsCurrent(q)'
        BY <3>1, <3>2, <2>2 DEF CopyIsCurrent
    <3>4. On("continuous")' = On("continuous") \ {p}
        BY <1>3
    <3>5. CheckIsCurrent(q)'
        BY <3>1, <3>4, <2>2 DEF CheckIsCurrent
    <3> QED BY <3>3, <3>5
  <2> QED BY <2>1, <2>2
<1> QED BY <1>4, <1>5

\* A command loads its registry.
LEMMA AddStep ==
    ASSUME Inv, NEW p \in Process, NEW s \in InPlace, NEW i \in Items(s), Add(p, s, i)
    PROVE  Inv'
<1> DEFINE j == Saving(s, i, file[s].items \cup {i})
<1>1. FilesTypeOK /\ \A q \in Process : CopyIsCurrent(q) /\ CheckIsCurrent(q)
    BY DEF Inv, FilesInv
<1>2. UNCHANGED <<file, kept, settled, alarmed, drifted, checksRaced>>
    BY DEF Add, checkHistory
<1>3. file[s].form = "whole"
    BY DEF Add, Loads
<1>4. j \in Job
  <2>1. i \in Item
      BY DEF Items, Item, InPlace
  <2>2. file[s].items \subseteq Item
      BY <1>1 DEF FilesTypeOK, Content, Whole, Empty, Torn
  <2> QED BY <2>1, <2>2 DEF Saving, Job
<1>5. job[p] = Idle /\ job' = [job EXCEPT ![p] = j] /\ job \in [Process -> Job]
    BY <1>1 DEF Add, FilesTypeOK
<1>6. \A q \in Process : job'[q] = IF q = p THEN j ELSE job[q]
    BY <1>5
<1>7. j.at = "truncate" /\ j.on = s /\ j.adds = {i} /\ j.items = file[s].items \cup {i}
    BY DEF Saving
<1> HIDE DEF j
<1>8. raced' = IF On(s) = {} THEN raced \ {p} ELSE raced \cup On(s) \cup {p}
    BY DEF Add
<1>9. FilesTypeOK'
  <2>1. job' \in [Process -> Job]
      BY <1>4, <1>5
  <2>2. raced' \subseteq Process
      BY <1>1, <1>8 DEF FilesTypeOK, On
  <2> QED BY <1>1, <1>2, <2>1, <2>2 DEF FilesTypeOK
<1>10. \A t : On(t)' = IF t = s THEN On(t) \cup {p} ELSE On(t) \ {p}
    BY <1>1, <1>5, <1>7, OnFollowsJob
<1>11. p \notin On(s) /\ p \notin On("continuous")
    BY <1>5 DEF On, Idle, InPlace
<1>12. ASSUME NEW q \in Process PROVE CopyIsCurrent(q)' /\ CheckIsCurrent(q)'
  <2>1. CASE q = p
    <3>1. \A k \in Items(s) : <<s, k>> \in settled => k \in file[s].items
        BY <1>3, SettledMeansPresent DEF Inv
    <3>2. p \notin raced' => On(s)' = {p}
        BY <1>8, <1>10
    <3>3. job'[p] = j
        BY <1>6
    <3>4. CopyIsCurrent(p)'
      <4>1. On(job[p].on)' = On(s)'
          BY <3>3, <1>7 DEF On
      <4> QED BY <4>1, <1>7, <1>2, <3>1, <3>2, <3>3 DEF CopyIsCurrent
    <3> QED BY <2>1, <3>3, <3>4, <1>7 DEF CheckIsCurrent
  <2>2. CASE q # p
    <3>1. job'[q] = job[q] /\ CopyIsCurrent(q) /\ CheckIsCurrent(q)
        BY <2>2, <1>1, <1>6
    <3>2. ASSUME job[q].at \in {"truncate", "fill"}, q \notin raced'
          PROVE  On(job[q].on)' = {q}
      <4>1. q \notin raced /\ job[q].on # s
          BY <3>2, <2>2, <1>8 DEF On
      <4>2. On(job[q].on) = {q}
          BY <3>1, <3>2, <4>1 DEF CopyIsCurrent
      <4> QED BY <4>1, <4>2, <3>1, <1>6, <1>7, <2>2 DEF On
    <3>3. On("continuous")' = On("continuous")
        BY <1>10, <1>11 DEF InPlace
    <3> QED BY <3>1, <3>2, <3>3, <1>2 DEF CopyIsCurrent, CheckIsCurrent
  <2> QED BY <2>1, <2>2
<1>13. SettledStands' /\ PinNeverReturns'
    BY <1>2 DEF Inv, SettledStands, PinNeverReturns, Answer, Loads
<1> QED BY <1>9, <1>12, <1>13 DEF Inv, FilesInv

LEMMA RevokedAlreadyStep ==
    ASSUME Inv, NEW p \in Process, NEW i \in Digest, RevokedAlready(p, i)
    PROVE  Inv'
<1>1. FilesTypeOK /\ \A q \in Process : CopyIsCurrent(q) /\ CheckIsCurrent(q)
    BY DEF Inv, FilesInv
<1>2. UNCHANGED <<file, kept, job, raced, alarmed, drifted, checksRaced>>
    BY DEF RevokedAlready, checkHistory
<1>3. i \in file["revocations"].items /\ file["revocations"].form = "whole"
    BY DEF RevokedAlready, Loads
<1>4. settled' = IF On("revocations") = {} THEN settled \cup {<<"revocations", i>>} ELSE settled
    BY DEF RevokedAlready
<1>5. FilesTypeOK'
  <2>1. <<"revocations", i>> \in InPlace \X Item
      BY DEF InPlace, Item
  <2> QED BY <1>1, <1>2, <1>4, <2>1 DEF FilesTypeOK
<1>6. ASSUME NEW q \in Process PROVE CopyIsCurrent(q)' /\ CheckIsCurrent(q)'
  <2>1. \A k : <<job[q].on, k>> \in settled' => <<job[q].on, k>> \in settled
      BY <1>4 DEF On
  <2>2. \A t : On(t)' = On(t)
      BY <1>2 DEF On
  <2>3. CopyIsCurrent(q)'
      BY <1>1, <1>2, <2>1, <2>2 DEF CopyIsCurrent
  <2> QED BY <1>1, <1>2, <2>2, <2>3 DEF CheckIsCurrent
<1>7. SettledStands'
  <2> SUFFICES ASSUME NEW s \in InPlace, NEW k \in Items(s), <<s, k>> \in settled'
               PROVE  file[s].form = "whole" => k \in file[s].items
      BY <1>2 DEF SettledStands, Answer, Loads
  <2>1. CASE <<s, k>> \in settled
      BY <2>1, SettledMeansPresent DEF Inv
  <2>2. CASE <<s, k>> \notin settled
    <3>1. s = "revocations" /\ k = i
        BY <2>2, <1>4
    <3> QED BY <3>1, <1>3
  <2> QED BY <2>1, <2>2
<1>8. PinNeverReturns'
    BY <1>2 DEF Inv, PinNeverReturns
<1> QED BY <1>5, <1>6, <1>7, <1>8 DEF Inv, FilesInv

LEMMA TruncateStep ==
    ASSUME Inv, NEW p \in Process, Truncate(p)
    PROVE  Inv'
<1>1. FilesTypeOK /\ \A q \in Process : CopyIsCurrent(q) /\ CheckIsCurrent(q)
    BY DEF Inv, FilesInv
<1>2. UNCHANGED <<kept, raced, settled, alarmed, drifted, checksRaced>>
    BY DEF Truncate, checkHistory
<1>3. job[p].at = "truncate" /\ job' = [job EXCEPT ![p].at = "fill"] /\ job \in [Process -> Job]
    BY <1>1 DEF Truncate, FilesTypeOK
<1>4. \A q \in Process : /\ job'[q].on = job[q].on /\ job'[q].adds = job[q].adds
                         /\ job'[q].items = job[q].items /\ job'[q].state = job[q].state
                         /\ job'[q].at = IF q = p THEN "fill" ELSE job[q].at
    BY <1>3 DEF Job
<1>5. \A q \in Process : q # p => job'[q] = job[q]
    BY <1>3
<1>6. \A t : On(t)' = On(t)
    BY <1>4 DEF On
<1>7. FilesTypeOK'
  <2>1. job' \in [Process -> Job]
      BY <1>3 DEF Job
  <2>2. file' \in [InPlace -> Content]
    <3>1. Empty \in Content
        BY DEF Content
    <3> QED BY <1>1, <3>1 DEF Truncate, FilesTypeOK
  <2> QED BY <1>1, <1>2, <2>1, <2>2 DEF FilesTypeOK
<1>8. ASSUME NEW q \in Process PROVE CopyIsCurrent(q)' /\ CheckIsCurrent(q)'
  <2>1. CASE q = p
    <3>1. On(job[q].on)' = On(job[q].on) /\ job'[q].on = job[q].on
        BY <1>4, <1>6
    <3>2. CopyIsCurrent(q)'
      <4>1. CopyIsCurrent(q) /\ job[q].at = "truncate" /\ job'[q].at = "fill"
          BY <2>1, <1>1, <1>3, <1>4
      <4> QED BY <4>1, <3>1, <1>2, <1>4, <1>6 DEF CopyIsCurrent
    <3> QED BY <2>1, <3>2, <1>4 DEF CheckIsCurrent
  <2>2. CASE q # p
      BY <2>2, <1>1, <1>2, <1>5, <1>6 DEF CopyIsCurrent, CheckIsCurrent
  <2> QED BY <2>1, <2>2
<1>9. SettledStands'
  <2> SUFFICES ASSUME NEW s \in InPlace, NEW k \in Items(s), <<s, k>> \in settled
               PROVE  file'[s].form = "whole" => k \in file'[s].items
      BY <1>2 DEF SettledStands, Answer, Loads
  <2>1. file'[s] = Empty \/ file'[s] = file[s]
      BY <1>1 DEF Truncate, FilesTypeOK
  <2> QED BY <2>1, SettledMeansPresent DEF Inv, Empty
<1>10. PinNeverReturns'
    BY <1>2 DEF Inv, PinNeverReturns
<1> QED BY <1>7, <1>8, <1>9, <1>10 DEF Inv, FilesInv

\* The bytes reach the file, whole or on top of other bytes.
LEMMA FillStep ==
    ASSUME Inv, NEW p \in Process, Fill(p)
    PROVE  Inv'
<1>1. FilesTypeOK /\ \A q \in Process : CopyIsCurrent(q) /\ CheckIsCurrent(q)
    BY DEF Inv, FilesInv
<1>2. UNCHANGED <<kept, raced, alarmed, drifted, checksRaced>>
    BY DEF Fill, checkHistory
<1> DEFINE s == job[p].on
<1>3. job[p].at = "fill" /\ s \in InPlace /\ job[p].adds \subseteq job[p].items /\ job[p].items \subseteq Item
    BY <1>1 DEF Fill, CopyIsCurrent, FilesTypeOK, Job
<1>4. job' = [job EXCEPT ![p] = Idle]
    BY DEF Fill
<1>5. PICK content \in {Whole(job[p].items), Torn} : file' = [file EXCEPT ![s] = content]
    BY DEF Fill, Overwritten
<1>6. settled' = IF p \in raced THEN settled ELSE settled \cup {<<s, i>> : i \in job[p].adds}
    BY DEF Fill
<1>7. ASSUME NEW q \in Process, q # p, job[q].at \in {"truncate", "fill"}
      PROVE  \A k \in Items(job[q].on) : <<job[q].on, k>> \in settled' => k \in job[q].items
  <2>1. CopyIsCurrent(q) /\ CopyIsCurrent(p)
      BY <1>1
  <2>2. CASE p \in raced
      BY <2>1, <2>2, <1>6, <1>7 DEF CopyIsCurrent
  <2>3. CASE p \notin raced
    <3>1. On(s) = {p}
        BY <2>1, <2>3, <1>3 DEF CopyIsCurrent
    <3>2. job[q].on # s
        BY <3>1, <1>7 DEF On
    <3>3. \A k : <<job[q].on, k>> \in settled' => <<job[q].on, k>> \in settled
        BY <3>2, <1>6
    <3> QED BY <3>3, <2>1, <1>7 DEF CopyIsCurrent
  <2> QED BY <2>2, <2>3
<1>8. \A q \in Process : q # p /\ job[q].at = "replace" /\ ~checksRaced =>
          (drifted' => job[q].state.pinned = "invalid")
  <2> SUFFICES ASSUME NEW q \in Process, job[q].at = "replace", ~checksRaced, drifted'
               PROVE  job[q].state.pinned = "invalid"
      OBVIOUS
  <2>1. drifted
      BY <1>2
  <2>2. CheckIsCurrent(q)
      BY <1>1
  <2> QED BY <2>1, <2>2, Zenon DEF CheckIsCurrent
<1>9. job' \in [Process -> Job] /\ \A q \in Process : CopyIsCurrent(q)' /\ CheckIsCurrent(q)'
    BY <1>1, <1>2, <1>4, <1>7, <1>8, EndOfJob
<1>10. FilesTypeOK'
  <2>1. file' \in [InPlace -> Content]
    <3>1. content \in Content
        BY <1>3 DEF Content
    <3> QED BY <1>1, <1>5, <3>1 DEF FilesTypeOK
  <2>2. settled' \subseteq InPlace \X Item
      BY <1>1, <1>3, <1>6 DEF FilesTypeOK
  <2> QED BY <1>1, <1>2, <1>9, <2>1, <2>2 DEF FilesTypeOK
<1>11. SettledStands'
  <2> SUFFICES ASSUME NEW t \in InPlace, NEW k \in Items(t), <<t, k>> \in settled'
               PROVE  file'[t].form = "whole" => k \in file'[t].items
      BY DEF SettledStands, Answer, Loads
  <2>1. CASE t = s
    <3>1. <<s, k>> \in settled \/ k \in job[p].adds
        BY <2>1, <1>6
    <3>2. k \in job[p].items
        BY <2>1, <3>1, <1>1, <1>3 DEF CopyIsCurrent
    <3>3. file'[t] = content
        BY <2>1, <1>1, <1>3, <1>5 DEF FilesTypeOK
    <3> QED BY <3>2, <3>3 DEF Whole, Torn
  <2>2. CASE t # s
    <3>1. file'[t] = file[t] /\ <<t, k>> \in settled
        BY <2>2, <1>1, <1>5, <1>6 DEF FilesTypeOK
    <3> QED BY <3>1, SettledMeansPresent DEF Inv
  <2> QED BY <2>1, <2>2
<1>12. PinNeverReturns'
    BY <1>2 DEF Inv, PinNeverReturns
<1> QED BY <1>9, <1>10, <1>11, <1>12 DEF Inv, FilesInv

LEMMA FillFailsStep ==
    ASSUME Inv, NEW p \in Process, FillFails(p)
    PROVE  Inv'
<1>1. FilesTypeOK /\ \A q \in Process : CopyIsCurrent(q) /\ CheckIsCurrent(q)
    BY DEF Inv, FilesInv
<1>2. UNCHANGED <<kept, raced, settled, alarmed, drifted, checksRaced>>
    BY DEF FillFails, checkHistory
<1>3. job' = [job EXCEPT ![p] = Idle]
    BY DEF FillFails
<1>4. \A q \in Process : q # p /\ job[q].at \in {"truncate", "fill"} =>
          \A k \in Items(job[q].on) : <<job[q].on, k>> \in settled' => k \in job[q].items
    BY <1>1, <1>2 DEF CopyIsCurrent
<1>5. \A q \in Process : q # p /\ job[q].at = "replace" /\ ~checksRaced =>
          (drifted' => job[q].state.pinned = "invalid")
  <2> SUFFICES ASSUME NEW q \in Process, job[q].at = "replace", ~checksRaced, drifted'
               PROVE  job[q].state.pinned = "invalid"
      OBVIOUS
  <2>1. drifted
      BY <1>2
  <2>2. CheckIsCurrent(q)
      BY <1>1
  <2> QED BY <2>1, <2>2, Zenon DEF CheckIsCurrent
<1>6. job' \in [Process -> Job] /\ \A q \in Process : CopyIsCurrent(q)' /\ CheckIsCurrent(q)'
    BY <1>1, <1>2, <1>3, <1>4, <1>5, EndOfJob
<1>7. FilesTypeOK'
  <2>1. Torn \in Content
      BY DEF Content
  <2> QED BY <1>1, <1>2, <1>6, <2>1 DEF FilesTypeOK, FillFails
<1>8. SettledStands'
  <2> SUFFICES ASSUME NEW s \in InPlace, NEW k \in Items(s), <<s, k>> \in settled
               PROVE  file'[s].form = "whole" => k \in file'[s].items
      BY <1>2 DEF SettledStands, Answer, Loads
  <2>1. file'[s] = Torn \/ file'[s] = file[s]
      BY <1>1 DEF FillFails, FilesTypeOK
  <2> QED BY <2>1, SettledMeansPresent DEF Inv, Torn
<1>9. PinNeverReturns'
    BY <1>2 DEF Inv, PinNeverReturns
<1> QED BY <1>6, <1>7, <1>8, <1>9 DEF Inv, FilesInv

LEMMA StopStep ==
    ASSUME Inv, NEW p \in Process, Stop(p)
    PROVE  Inv'
<1>1. FilesTypeOK /\ \A q \in Process : CopyIsCurrent(q) /\ CheckIsCurrent(q)
    BY DEF Inv, FilesInv
<1>2. UNCHANGED <<file, kept, raced, settled, alarmed, drifted, checksRaced>>
    BY DEF Stop, checkHistory
<1>3. job' = [job EXCEPT ![p] = Idle]
    BY DEF Stop
<1>4. \A q \in Process : q # p /\ job[q].at \in {"truncate", "fill"} =>
          \A k \in Items(job[q].on) : <<job[q].on, k>> \in settled' => k \in job[q].items
    BY <1>1, <1>2 DEF CopyIsCurrent
<1>5. \A q \in Process : q # p /\ job[q].at = "replace" /\ ~checksRaced =>
          (drifted' => job[q].state.pinned = "invalid")
  <2> SUFFICES ASSUME NEW q \in Process, job[q].at = "replace", ~checksRaced, drifted'
               PROVE  job[q].state.pinned = "invalid"
      OBVIOUS
  <2>1. drifted
      BY <1>2
  <2>2. CheckIsCurrent(q)
      BY <1>1
  <2> QED BY <2>1, <2>2, Zenon DEF CheckIsCurrent
<1>6. job' \in [Process -> Job] /\ \A q \in Process : CopyIsCurrent(q)' /\ CheckIsCurrent(q)'
    BY <1>1, <1>2, <1>3, <1>4, <1>5, EndOfJob
<1>7. FilesTypeOK'
    BY <1>1, <1>2, <1>6 DEF FilesTypeOK
<1>8. SettledStands' /\ PinNeverReturns'
    BY <1>2 DEF Inv, SettledStands, PinNeverReturns, Answer, Loads
<1> QED BY <1>6, <1>7, <1>8 DEF Inv, FilesInv

\* A continuous check has scanned, decided and loaded the previous state.
LEMMA CheckStep ==
    ASSUME Inv, NEW p \in Process, NEW subject \in Subject, NEW allowed \in BOOLEAN,
           Check(p, subject, allowed)
    PROVE  Inv'
<1> DEFINE st == Evaluate(kept, subject, allowed)
           j == [at |-> "replace", on |-> "continuous", adds |-> {}, items |-> {}, state |-> st]
<1>1. FilesTypeOK /\ \A q \in Process : CopyIsCurrent(q) /\ CheckIsCurrent(q)
    BY DEF Inv, FilesInv
<1>2. UNCHANGED <<file, kept, raced, settled, drifted>>
    BY DEF Check
<1>3. kept \in {NoState} \cup State
    BY <1>1 DEF FilesTypeOK
<1>4. st \in State /\ (kept # NoState /\ kept.pinned = "invalid" => st.pinned = "invalid")
    BY <1>3 DEF Evaluate, State
<1>5. alarmed' = IF allowed /\ kept # NoState /\ kept.subject = subject THEN alarmed \ {p} ELSE alarmed \cup {p}
    BY DEF Check
<1>6. p \in alarmed' => st.pinned = "invalid"
    BY <1>5 DEF Evaluate
<1>7. job[p] = Idle /\ job' = [job EXCEPT ![p] = j] /\ job \in [Process -> Job]
    BY <1>1 DEF Check, FilesTypeOK
<1>8. j \in Job
    BY <1>4 DEF Job
<1>9. j.at = "replace" /\ j.on = "continuous" /\ j.state = st
    OBVIOUS
<1> HIDE DEF st, j
<1>10. \A q \in Process : job'[q] = IF q = p THEN j ELSE job[q]
    BY <1>7
<1>11. FilesTypeOK'
  <2>1. job' \in [Process -> Job]
      BY <1>7, <1>8
  <2>2. alarmed' \subseteq Process
      BY <1>1, <1>5 DEF FilesTypeOK
  <2>3. checksRaced' \in BOOLEAN
      BY <1>1 DEF Check, FilesTypeOK
  <2> QED BY <1>1, <1>2, <2>1, <2>2, <2>3 DEF FilesTypeOK
<1>12. \A t : On(t)' = IF t = "continuous" THEN On(t) \cup {p} ELSE On(t) \ {p}
    BY <1>1, <1>7, <1>9, OnFollowsJob
<1>13. p \notin On("continuous") /\ \A t \in InPlace : p \notin On(t)
    BY <1>7 DEF On, Idle, InPlace
<1>14. ASSUME ~checksRaced'
       PROVE  ~checksRaced /\ On("continuous") = {}
    BY <1>14 DEF Check
<1>15. ASSUME ~checksRaced', drifted
       PROVE  st.pinned = "invalid"
    BY <1>14, <1>15, <1>4 DEF Inv, PinNeverReturns
<1>16. ASSUME NEW q \in Process PROVE CopyIsCurrent(q)' /\ CheckIsCurrent(q)'
  <2>1. CASE q = p
    <3>1. job'[q] = j
        BY <2>1, <1>10
    <3>2. CopyIsCurrent(q)'
        BY <3>1, <1>4, <1>9 DEF CopyIsCurrent
    <3>3. p \in alarmed' => job'[p].state.pinned = "invalid"
        BY <3>1, <2>1, <1>6, <1>9
    <3>4. ASSUME ~checksRaced'
          PROVE  On("continuous")' = {p}
        BY <3>4, <1>14, <1>12
    <3>5. ASSUME ~checksRaced', drifted'
          PROVE  job'[p].state.pinned = "invalid"
      <4>1. drifted
          BY <3>5, <1>2
      <4>2. st.pinned = "invalid"
          BY <3>5, <4>1, <1>15
      <4> QED BY <4>2, <3>1, <2>1, <1>9
    <3>6. CheckIsCurrent(q)'
        BY <3>3, <3>4, <3>5, <2>1 DEF CheckIsCurrent
    <3> QED BY <3>2, <3>6
  <2>2. CASE q # p
    <3>1. job'[q] = job[q] /\ CopyIsCurrent(q) /\ CheckIsCurrent(q)
        BY <2>2, <1>1, <1>10
    <3>2. ASSUME job[q].at \in {"truncate", "fill"}, q \notin raced
          PROVE  On(job[q].on)' = {q}
      <4>1. On(job[q].on) = {q} /\ job[q].on \in InPlace
          BY <3>1, <3>2 DEF CopyIsCurrent
      <4>2. p \notin On(job[q].on)
          BY <4>1, <1>13
      <4> QED BY <4>1, <4>2, <3>1, <1>10, <1>9, <2>2 DEF On, InPlace
    <3>3. CopyIsCurrent(q)'
        BY <3>1, <3>2, <1>2 DEF CopyIsCurrent
    <3>4. q \in alarmed' => q \in alarmed
        BY <2>2, <1>5
    <3>5. ASSUME job[q].at = "replace", ~checksRaced'
          PROVE  FALSE
      <4>1. job[q].on = "continuous"
          BY <3>1, <3>5 DEF CopyIsCurrent
      <4> QED BY <4>1, <3>5, <1>14 DEF On
    <3>6. CheckIsCurrent(q)'
        BY <3>1, <3>4, <3>5 DEF CheckIsCurrent
    <3> QED BY <3>3, <3>6
  <2> QED BY <2>1, <2>2
<1>17. SettledStands'
    BY <1>2 DEF Inv, SettledStands, Answer, Loads
<1>18. PinNeverReturns'
  <2> SUFFICES ASSUME drifted', ~checksRaced' PROVE kept' # NoState /\ kept'.pinned = "invalid"
      BY DEF PinNeverReturns
  <2>1. drifted /\ ~checksRaced /\ kept' = kept
      BY <1>2, <1>14
  <2> QED BY <2>1 DEF Inv, PinNeverReturns
<1> QED BY <1>11, <1>16, <1>17, <1>18 DEF Inv, FilesInv

\* The new state replaces the old one.
LEMMA ReplaceStep ==
    ASSUME Inv, NEW p \in Process, Replace(p)
    PROVE  Inv'
<1>1. FilesTypeOK /\ \A q \in Process : CopyIsCurrent(q) /\ CheckIsCurrent(q)
    BY DEF Inv, FilesInv
<1>2. UNCHANGED <<file, raced, settled, alarmed, checksRaced>>
    BY DEF Replace
<1>3. job[p].at = "replace" /\ job' = [job EXCEPT ![p] = Idle] /\ kept' = job[p].state
    BY DEF Replace
<1>4. job[p].on = "continuous" /\ job[p].state \in State /\ (p \in alarmed => job[p].state.pinned = "invalid")
    BY <1>1, <1>3 DEF CopyIsCurrent, CheckIsCurrent
<1>5. drifted' = (drifted \/ p \in alarmed)
    BY DEF Replace
<1>6. ASSUME ~checksRaced
      PROVE  On("continuous") = {p} /\ (drifted => job[p].state.pinned = "invalid")
  <2>1. CheckIsCurrent(p)
      BY <1>1
  <2> QED BY <2>1, <1>3, <1>6, Zenon DEF CheckIsCurrent
<1>7. \A q \in Process : q # p /\ job[q].at = "replace" /\ ~checksRaced =>
          (drifted' => job[q].state.pinned = "invalid")
  <2> SUFFICES ASSUME NEW q \in Process, q # p, job[q].at = "replace", ~checksRaced PROVE FALSE
      OBVIOUS
  <2>1. job[q].on = "continuous"
      BY <1>1 DEF CopyIsCurrent
  <2> QED BY <2>1, <1>6 DEF On
<1>8. \A q \in Process : q # p /\ job[q].at \in {"truncate", "fill"} =>
          \A k \in Items(job[q].on) : <<job[q].on, k>> \in settled' => k \in job[q].items
    BY <1>1, <1>2 DEF CopyIsCurrent
<1>9. job' \in [Process -> Job] /\ \A q \in Process : CopyIsCurrent(q)' /\ CheckIsCurrent(q)'
    BY <1>1, <1>2, <1>3, <1>7, <1>8, EndOfJob
<1>10. FilesTypeOK'
  <2>1. drifted' \in BOOLEAN
      BY <1>5
  <2> QED BY <1>1, <1>2, <1>3, <1>4, <1>9, <2>1 DEF FilesTypeOK
<1>11. SettledStands'
    BY <1>2 DEF Inv, SettledStands, Answer, Loads
<1>12. PinNeverReturns'
  <2> SUFFICES ASSUME drifted', ~checksRaced' PROVE kept' # NoState /\ kept'.pinned = "invalid"
      BY DEF PinNeverReturns
  <2>1. ~checksRaced
      BY <1>2
  <2>2. job[p].state.pinned = "invalid"
      BY <2>1, <1>4, <1>5, <1>6
  <2>3. kept' # NoState
      BY <1>3, <1>4, FilesAssumption DEF State
  <2> QED BY <2>2, <2>3, <1>3
<1> QED BY <1>9, <1>10, <1>11, <1>12 DEF Inv, FilesInv

THEOREM Invariance == FilesSpec => []Inv
<1>1. Inv /\ [FilesNext]_filesVars => Inv'
  <2> SUFFICES ASSUME Inv, [FilesNext]_filesVars PROVE Inv'
      OBVIOUS
  <2>1. CASE UNCHANGED filesVars
    <3>1. UNCHANGED <<file, kept, job, raced, settled, alarmed, drifted, checksRaced>>
        BY <2>1 DEF filesVars, checkHistory
    <3>2. FilesTypeOK'
        BY <3>1 DEF Inv, FilesInv, FilesTypeOK
    <3>3. \A q \in Process : CopyIsCurrent(q)' /\ CheckIsCurrent(q)'
        BY <3>1 DEF Inv, FilesInv, CopyIsCurrent, CheckIsCurrent, On
    <3>4. SettledStands' /\ PinNeverReturns'
        BY <3>1 DEF Inv, SettledStands, PinNeverReturns, Answer, Loads
    <3> QED BY <3>2, <3>3, <3>4 DEF Inv, FilesInv
  <2>2. CASE FilesNext
    <3>1. PICK p \in Process :
              \/ \E s \in InPlace : \E i \in Items(s) : Add(p, s, i)
              \/ \E i \in Digest : RevokedAlready(p, i)
              \/ \E subject \in Subject, allowed \in BOOLEAN : Check(p, subject, allowed)
              \/ Truncate(p) \/ Fill(p) \/ FillFails(p) \/ Replace(p) \/ Stop(p)
        BY <2>2 DEF FilesNext
    <3> QED BY <3>1, AddStep, RevokedAlreadyStep, CheckStep, TruncateStep, FillStep,
               FillFailsStep, ReplaceStep, StopStep
  <2> QED BY <2>1, <2>2
<1> QED BY <1>1, InitInv, PTL DEF FilesSpec

\* An addition to a revocation registry or catalog that nothing overlapped with
\* is found by every later look-up that gets an answer.
THEOREM SettledAdditionsStand == FilesSpec => []SettledStands
<1>1. Inv => SettledStands
    BY DEF Inv
<1> QED BY <1>1, Invariance, PTL

\* A pin that a saved check invalidated stays invalid while checks run one
\* after the other.
THEOREM PinsStayInvalid == FilesSpec => []PinNeverReturns
<1>1. Inv => PinNeverReturns
    BY DEF Inv
<1> QED BY <1>1, Invariance, PTL

\* Every command is about to save a copy that has what was settled.
THEOREM FilesInvariant == FilesSpec => []FilesInv
<1>1. Inv => FilesInv
    BY DEF Inv
<1> QED BY <1>1, Invariance, PTL
===============================================================================
