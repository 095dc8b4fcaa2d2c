----------------------------- MODULE FwRunProof -----------------------------
(***************************************************************************)
(* What fw-update leaves in its result file and makes of it in the next    *)
(* run, proved for every number of devices, of workers and of runs, every  *)
(* location map, and wherever the operator labels the devices anew or a    *)
(* run is killed.                                                          *)
(***************************************************************************)
EXTENDS FwRun, FiniteSetTheorems, TLAPS

Outcomes == {"none", "succeeded", "failed"}

IsFile(f) == \E R : f \in [state : {"absent", "empty", "header"}, rows : Seq(R)]

RunType ==
    /\ phase \in {"idle", "confirmed", "created", "pool"}
    /\ IsFile(file)
    /\ selected \in Seq(Locations)
    /\ \A j, k \in 1 .. Len(selected) : selected[j] = selected[k] => j = k
    /\ launched \in 0 .. Len(selected)
    /\ thisRun \in [Locations -> Outcomes]
    /\ lost \subseteq Locations

\* A run hands out its devices in their order, each of them once: a worker is
\* busy with one that was handed out and has not ended, and nothing has happened
\* before the pool is there.
HandedOutOnce ==
    /\ \A loc \in working :
          /\ thisRun[loc] = "none"
          /\ \E k \in 1 .. launched : selected[k] = loc
    /\ phase # "pool" => working = {}
    /\ phase \in {"confirmed", "created"} => launched = 0 /\ thisRun = NoOutcomes
    /\ phase # "idle" =>
          \A k \in launched + 1 .. Len(selected) : thisRun[selected[k]] = "none"

\* The bay of a device under a complete map has a row.
Filed(bay) == \E k \in 1 .. Len(file.rows) : file.rows[k].bay = bay

\* What the file says of the run that writes it: a row for each device that has
\* ended and whose row was not lost, under its own bay when the map is complete.
FileOfRun ==
    phase \in {"created", "pool"} =>
        /\ writtenBy = locToBay
        /\ \A loc \in lost : thisRun[loc] # "none"
        /\ Len(file.rows) = Cardinality({loc \in Locations \ lost : thisRun[loc] # "none"})
        /\ Complete(locToBay) => \A loc \in Locations :
              /\ Filed(locToBay[loc]) <=> thisRun[loc] # "none" /\ loc \notin lost
              /\ PrevSucceeded(locToBay[loc]) <=> thisRun[loc] = "succeeded" /\ loc \notin lost

\* What the file says in and between runs to a reader with the writer's map.
FileIsTrue ==
    Complete(writtenBy) =>
        \A loc \in Locations : PrevSucceeded(writtenBy[loc]) => loc \in ok

IInv ==
    /\ RunType
    /\ HandedOutOnce
    /\ FileOfRun
    /\ FileIsTrue
    /\ SkippedOnlyIfUpdated

-----------------------------------------------------------------------------
\* A row at the end of the file decides for its bay, and for no other.
LEMMA AppendedRow ==
    ASSUME IsFile(file), NEW bay, NEW succeeded \in BOOLEAN,
           file' = [file EXCEPT !.rows = Append(@, [bay |-> bay, succeeded |-> succeeded])]
    PROVE  /\ IsFile(file')
           /\ Len(file.rows) \in Nat
           /\ Len(file'.rows) = Len(file.rows) + 1
           /\ Filed(bay)'
           /\ PrevSucceeded(bay)' <=> succeeded
           /\ \A b : b # bay => /\ Filed(b)' <=> Filed(b)
                                /\ PrevSucceeded(b)' <=> PrevSucceeded(b)
  <1>1. PICK R : file \in [state : {"absent", "empty", "header"}, rows : Seq(R)]
    BY DEF IsFile
  <1>2. PICK row : row = [bay |-> bay, succeeded |-> succeeded]
    OBVIOUS
  <1>3. PICK n : n = Len(file.rows)
    OBVIOUS
  <1>4. n \in Nat /\ file.rows \in Seq(R \cup {row})
    BY <1>1, <1>3
  <1>5. PICK rows : rows = Append(file.rows, row)
    OBVIOUS
  <1>6. /\ rows \in Seq(R \cup {row})
        /\ Len(rows) = n + 1
        /\ rows[n + 1] = row
        /\ \A k \in 1 .. n : rows[k] = file.rows[k]
    BY <1>3, <1>4, <1>5
  <1>7. file' = [file EXCEPT !.rows = rows]
    BY <1>2, <1>5
  <1>8. /\ file' \in [state : {"absent", "empty", "header"}, rows : Seq(R \cup {row})]
        /\ file'.rows = rows
    BY <1>1, <1>6, <1>7
  <1>9. row.bay = bay /\ row.succeeded = succeeded
    BY <1>2
  <1>10. Filed(bay)'
    BY <1>4, <1>6, <1>8, <1>9 DEF Filed
  <1>11. PrevSucceeded(bay)' <=> succeeded
    <2>1. \A k \in 1 .. n + 1 :
              (\A j \in k + 1 .. n + 1 : rows[j].bay # bay) /\ rows[k].bay = bay <=> k = n + 1
      BY <1>4, <1>6, <1>9
    <2>2. PrevSucceeded(bay)' <=> rows[n + 1].succeeded
      BY <1>4, <1>6, <1>8, <2>1 DEF PrevSucceeded
    <2> QED
      BY <1>6, <1>9, <2>2
  <1>12. ASSUME NEW b, b # bay
         PROVE  /\ Filed(b)' <=> Filed(b)
                /\ PrevSucceeded(b)' <=> PrevSucceeded(b)
    <2>1. rows[n + 1].bay # b
      BY <1>6, <1>9, <1>12
    <2>2. Filed(b)' <=> Filed(b)
      BY <1>3, <1>4, <1>6, <1>8, <2>1 DEF Filed
    <2>3. ASSUME PrevSucceeded(b)
          PROVE  PrevSucceeded(b)'
      <3>1. PICK k \in 1 .. n : /\ file.rows[k].bay = b
                                /\ file.rows[k].succeeded
                                /\ \A j \in k + 1 .. n : file.rows[j].bay # b
        BY <1>3, <2>3 DEF PrevSucceeded
      <3>2. k \in 1 .. n + 1 /\ rows[k] = file.rows[k]
        BY <1>4, <1>6
      <3>3. \A j \in k + 1 .. n + 1 : rows[j].bay # b
        BY <1>4, <1>6, <2>1, <3>1
      <3> QED
        BY <1>6, <1>8, <3>1, <3>2, <3>3 DEF PrevSucceeded
    <2>4. ASSUME PrevSucceeded(b)'
          PROVE  PrevSucceeded(b)
      <3>1. PICK k \in 1 .. n + 1 : /\ rows[k].bay = b
                                    /\ rows[k].succeeded
                                    /\ \A j \in k + 1 .. n + 1 : rows[j].bay # b
        BY <1>6, <1>8, <2>4 DEF PrevSucceeded
      <3>2. k \in 1 .. n /\ rows[k] = file.rows[k]
        BY <1>4, <1>6, <2>1, <3>1
      <3>3. \A j \in k + 1 .. n : file.rows[j].bay # b
        BY <1>4, <1>6, <3>1
      <3> QED
        BY <1>3, <3>1, <3>2, <3>3 DEF PrevSucceeded
    <2> QED
      BY <2>2, <2>3, <2>4
  <1>13. IsFile(file')
    BY <1>8 DEF IsFile
  <1> QED
    BY <1>3, <1>4, <1>6, <1>8, <1>10, <1>11, <1>12, <1>13

\* The sorted channels are the channels, each of them once.
LEMMA SortedChannels ==
    ASSUME NEW channels \in SUBSET Locations, IsFiniteSet(channels),
           NEW s \in Sorted(channels)
    PROVE  /\ s \in Seq(Locations)
           /\ \A j, k \in 1 .. Len(s) : s[j] = s[k] => j = k
           /\ \A loc \in channels : \E k \in 1 .. Len(s) : s[k] = loc
  <1>1. PICK n : n = Cardinality(channels)
    OBVIOUS
  <1>2. n \in Nat
    BY <1>1, FS_CardinalityType
  <1>3. /\ s \in [1 .. n -> channels]
        /\ \A j, k \in 1 .. n : j < k => s[j] < s[k]
    BY <1>1 DEF Sorted
  <1>4. s \in Seq(Locations) /\ Len(s) = n
    BY <1>2, <1>3
  <1>5. \A loc \in channels : loc \in Int
    BY FwRunAssumption DEF Locations
  <1>6. ASSUME NEW j \in 1 .. n, NEW k \in 1 .. n, s[j] = s[k]
        PROVE  j = k
    <2>1. s[j] \in Int /\ ~(s[j] < s[k]) /\ ~(s[k] < s[j])
      BY <1>3, <1>5, <1>6
    <2>2. ~(j < k) /\ ~(k < j)
      BY <1>3, <2>1
    <2> QED
      BY <1>2, <2>2
  <1>7. ASSUME NEW loc \in channels, \A k \in 1 .. n : s[k] # loc
        PROVE  FALSE
    <2>1. PICK rest : rest = channels \ {loc}
      OBVIOUS
    <2>2. IsFiniteSet(rest) /\ Cardinality(rest) = n - 1
      BY <1>1, <2>1, FS_RemoveElement
    <2>3. PICK positions : positions = 1 .. n
      OBVIOUS
    <2>4. IsFiniteSet(positions) /\ Cardinality(positions) = n
      BY <1>2, <2>3, FS_Interval
    <2>5. s \in [positions -> rest] /\ Cardinality(rest) < Cardinality(positions)
      BY <1>2, <1>3, <1>7, <2>1, <2>2, <2>3, <2>4
    <2>6. \E x, y \in positions : x # y /\ s[x] = s[y]
      BY <2>2, <2>4, <2>5, FS_PigeonHole
    <2> QED
      BY <1>6, <2>3, <2>6
  <1> QED
    BY <1>4, <1>6, <1>7

-----------------------------------------------------------------------------
\* The variables the invariant is about; scans and runs that end at once change
\* none of them.
invVars == <<locToBay, phase, file, selected, launched, working, ok, thisRun, lost, writtenBy>>

\* A step that changes none of them keeps the invariant.
LEMMA OthersKeep == ASSUME IInv, UNCHANGED invVars PROVE IInv'
  <1> USE DEF invVars
  <1>1. RunType'
    BY DEF IInv, RunType, IsFile
  <1>2. HandedOutOnce'
    BY DEF IInv, HandedOutOnce
  <1>3. /\ \A bay : PrevSucceeded(bay)' <=> PrevSucceeded(bay)
        /\ \A bay : Filed(bay)' <=> Filed(bay)
    BY DEF PrevSucceeded, Filed
  <1>4. FileOfRun' /\ FileIsTrue'
    BY <1>3 DEF IInv, FileOfRun, FileIsTrue, Complete, OneToOne
  <1>5. SkippedOnlyIfUpdated'
    BY DEF IInv, SkippedOnlyIfUpdated, Complete, OneToOne, Selected
  <1> QED
    BY <1>1, <1>2, <1>4, <1>5 DEF IInv

\* Locations is a finite set, and so is every part of it.
LEMMA LocationsFinite ==
    /\ IsFiniteSet(Locations)
    /\ \A S \in SUBSET Locations : IsFiniteSet(S)
  <1>1. IsFiniteSet(Locations)
    BY FwRunAssumption, FS_Interval DEF Locations
  <1> QED
    BY <1>1, FS_Subset

\* A run leaves out the devices whose rows say that they are updated: under the
\* writer's map these are devices that are.
LEMMA StartRunKeeps == ASSUME IInv, StartRun PROVE IInv'
  <1>1. PICK channels : /\ channels = ChannelsToUpdate(all', locToBay')
                        /\ selected' \in Sorted(channels)
    BY DEF StartRun
  <1>2. channels \subseteq Locations
    BY <1>1 DEF ChannelsToUpdate, Filtered
  <1>3. /\ selected' \in Seq(Locations)
        /\ \A j, k \in 1 .. Len(selected') : selected'[j] = selected'[k] => j = k
        /\ \A loc \in channels : \E k \in 1 .. Len(selected') : selected'[k] = loc
    BY <1>1, <1>2, LocationsFinite, SortedChannels
  <1>4. /\ phase' = "confirmed" /\ launched' = 0 /\ thisRun' = NoOutcomes
        /\ UNCHANGED <<file, working, ok, lost, writtenBy>>
    BY DEF StartRun
  <1>5. NoOutcomes \in [Locations -> Outcomes]
    BY DEF NoOutcomes, Outcomes
  <1>6. Len(selected') \in Nat
    BY <1>3
  <1>7. RunType'
    BY <1>3, <1>4, <1>5, <1>6 DEF IInv, RunType, IsFile
  <1>8. working = {}
    BY DEF IInv, HandedOutOnce, StartRun, NextRun
  <1>9. \A k \in 1 .. Len(selected') : thisRun'[selected'[k]] = "none"
    BY <1>3, <1>4 DEF NoOutcomes
  <1>10. HandedOutOnce'
    BY <1>4, <1>8, <1>9 DEF HandedOutOnce
  <1>11. \A bay : PrevSucceeded(bay)' <=> PrevSucceeded(bay)
    BY <1>4 DEF PrevSucceeded
  <1>12. FileOfRun' /\ FileIsTrue'
    BY <1>4, <1>11 DEF IInv, FileOfRun, FileIsTrue, Complete, OneToOne
  <1>13. SkippedOnlyIfUpdated'
    <2> SUFFICES ASSUME Complete(locToBay'), locToBay' = writtenBy, NEW loc \in Locations,
                        loc \notin channels
                 PROVE  loc \in ok
      BY <1>3, <1>4 DEF SkippedOnlyIfUpdated, Selected, Complete, OneToOne
    <2>1. PrevSucceeded(LocationToBay(locToBay', loc))
      BY <1>1 DEF ChannelsToUpdate, Filtered
    <2>2. LocationToBay(locToBay', loc) = writtenBy[loc]
      BY DEF LocationToBay, Complete
    <2> QED
      BY <2>1, <2>2 DEF IInv, FileIsTrue
  <1> QED
    BY <1>7, <1>10, <1>12, <1>13 DEF IInv

\* A file without rows says nothing of anybody.
LEMMA EmptyFile ==
    ASSUME NEW state \in {"absent", "empty", "header"},
           file' = [state |-> state, rows |-> << >>]
    PROVE  /\ IsFile(file')
           /\ Len(file'.rows) = 0
           /\ \A bay : ~PrevSucceeded(bay)' /\ ~Filed(bay)'
  <1>1. file'.rows = << >> /\ file' \in [state : {"absent", "empty", "header"}, rows : Seq({})]
    OBVIOUS
  <1> QED
    BY <1>1 DEF IsFile, PrevSucceeded, Filed

\* Before the pool nobody has ended, and the file is empty.
LEMMA HeaderKeeps == ASSUME IInv, CreateFile \/ WriteHeader PROVE IInv'
  <1>1. /\ phase \in {"confirmed", "created"} /\ phase' \in {"created", "pool"}
        /\ UNCHANGED <<locToBay, selected, launched, working, ok, thisRun>>
        /\ writtenBy' = locToBay
    BY DEF CreateFile, WriteHeader, historyVars, IInv, FileOfRun
  <1>2. /\ IsFile(file')
        /\ Len(file'.rows) = 0
        /\ \A bay : ~PrevSucceeded(bay)' /\ ~Filed(bay)'
    <2>1. \E state \in {"absent", "empty", "header"} : file' = [state |-> state, rows |-> << >>]
      BY DEF CreateFile, WriteHeader, Empty
    <2> QED
      BY <2>1, EmptyFile
  <1>3. thisRun = NoOutcomes
    BY <1>1 DEF IInv, HandedOutOnce
  <1>4. \A loc \in Locations : thisRun'[loc] = "none"
    BY <1>1, <1>3 DEF NoOutcomes
  <1>5. lost' = {}
    BY <1>3 DEF CreateFile, WriteHeader, historyVars, IInv, FileOfRun, RunType, NoOutcomes
  <1>6. RunType'
    BY <1>1, <1>2, <1>5 DEF IInv, RunType
  <1>7. HandedOutOnce'
    BY <1>1 DEF IInv, HandedOutOnce
  <1>8. FileOfRun'
    <2>1. {loc \in Locations \ lost' : thisRun'[loc] # "none"} = {}
      BY <1>4
    <2>2. Len(file'.rows) = Cardinality({loc \in Locations \ lost' : thisRun'[loc] # "none"})
      BY <1>2, <2>1, FS_EmptySet
    <2> QED
      BY <1>1, <1>2, <1>4, <1>5, <2>2 DEF FileOfRun
  <1>9. FileIsTrue' /\ SkippedOnlyIfUpdated'
    BY <1>1, <1>2 DEF FileIsTrue, SkippedOnlyIfUpdated
  <1> QED
    BY <1>6, <1>7, <1>8, <1>9 DEF IInv

\* The next location has not been handed out before.
LEMMA LaunchKeeps == ASSUME IInv, Launch PROVE IInv'
  <1> USE DEF IInv
  <1>1. /\ phase = "pool" /\ launched' = launched + 1
        /\ launched < Len(selected)
        /\ working' = working \cup {selected[launched + 1]}
        /\ UNCHANGED <<locToBay, phase, file, selected, ok, thisRun, lost, writtenBy>>
    BY DEF Launch, historyVars
  <1>2. Len(selected) \in Nat /\ launched \in Nat
    BY DEF RunType
  <1>3. RunType'
    BY <1>1, <1>2 DEF RunType, IsFile
  <1>4. thisRun[selected[launched + 1]] = "none"
    BY <1>1, <1>2 DEF HandedOutOnce
  <1>5. HandedOutOnce'
    BY <1>1, <1>2, <1>4 DEF HandedOutOnce
  <1>6. \A bay : (PrevSucceeded(bay)' <=> PrevSucceeded(bay)) /\ (Filed(bay)' <=> Filed(bay))
    BY <1>1 DEF PrevSucceeded, Filed
  <1>7. FileOfRun' /\ FileIsTrue'
    BY <1>1, <1>6 DEF FileOfRun, FileIsTrue, Complete, OneToOne
  <1>8. SkippedOnlyIfUpdated'
    BY <1>1 DEF SkippedOnlyIfUpdated
  <1> QED
    BY <1>3, <1>5, <1>7, <1>8

\* A worker files its device under the bay of the map the file is written under.
LEMMA BayOfWorker ==
    ASSUME IInv, phase = "pool", NEW loc \in working, NEW k,
           k = CHOOSE j \in 1 .. Len(selected) : selected[j] = loc,
           Complete(locToBay)
    PROVE  Bay(k) = locToBay[loc]
  <1>1. \E j \in 1 .. Len(selected) : selected[j] = loc
    <2>1. PICK j \in 1 .. launched : selected[j] = loc
      BY DEF IInv, HandedOutOnce
    <2>2. launched \in 0 .. Len(selected) /\ Len(selected) \in Nat
      BY DEF IInv, RunType
    <2> QED
      BY <2>1, <2>2
  <1>2. selected[k] = loc /\ k \in 1 .. Len(selected)
    BY <1>1
  <1>3. loc \in Locations
    BY <1>2 DEF IInv, RunType
  <1> QED
    BY <1>2, <1>3 DEF Bay, Complete

\* A worker ends: its row, when it is not lost, is the first of its bay.
LEMMA FinishKeeps ==
    ASSUME IInv, NEW loc \in Locations, NEW succeeded \in BOOLEAN, Finish(loc, succeeded)
    PROVE  IInv'
  <1> DEFINE Ended == {l \in Locations \ lost : thisRun[l] # "none"}
             result == IF succeeded THEN "succeeded" ELSE "failed"
  <1>0. PICK k : /\ k = CHOOSE j \in 1 .. Len(selected) : selected[j] = loc
                 /\ AppendRow(loc, [bay |-> Bay(k), succeeded |-> succeeded])
    BY DEF Finish
  <1>1. PICK bay : bay = Bay(k)
    OBVIOUS
  <1>2. /\ loc \in working /\ working' = working \ {loc}
        /\ ok' = IF succeeded THEN ok \cup {loc} ELSE ok \ {loc}
        /\ thisRun' = [thisRun EXCEPT ![loc] = result]
        /\ UNCHANGED <<locToBay, phase, selected, launched, writtenBy>>
    BY DEF Finish
  <1>3. phase = "pool" /\ thisRun[loc] = "none"
    BY <1>2 DEF IInv, HandedOutOnce
  <1>4. /\ thisRun \in [Locations -> Outcomes]
        /\ thisRun' \in [Locations -> Outcomes]
        /\ thisRun'[loc] = result
        /\ \A l \in Locations \ {loc} : thisRun'[l] = thisRun[l]
    BY <1>2 DEF IInv, RunType, Outcomes
  <1>5. result # "none" /\ (result = "succeeded" <=> succeeded)
    OBVIOUS
  <1>6. loc \notin lost
    BY <1>3 DEF IInv, FileOfRun
  <1>7. IsFiniteSet(Ended) /\ Cardinality(Ended) = Len(file.rows) /\ loc \notin Ended
    BY <1>3, LocationsFinite DEF IInv, FileOfRun
  <1>8. Complete(locToBay) => bay = locToBay[loc]
    BY <1>0, <1>1, <1>2, <1>3, BayOfWorker
  <1>9. \A l \in working : l \in Locations /\ thisRun[l] = "none"
    BY DEF IInv, RunType, HandedOutOnce
  <1>10. HandedOutOnce'
    <2>1. PICK j \in 1 .. launched : selected[j] = loc
      BY <1>2 DEF IInv, HandedOutOnce
    <2>2. /\ Len(selected) \in Nat /\ launched \in 0 .. Len(selected)
          /\ \A i \in 1 .. Len(selected) : selected[i] \in Locations
      BY DEF IInv, RunType
    <2>3. ASSUME NEW i \in launched + 1 .. Len(selected)
          PROVE  thisRun'[selected[i]] = "none"
      <3>1. i \in 1 .. Len(selected) /\ j \in 1 .. Len(selected) /\ i # j
        BY <2>2
      <3>2. selected[i] # loc
        BY <2>1, <3>1 DEF IInv, RunType
      <3>3. thisRun[selected[i]] = "none"
        BY <1>3 DEF IInv, HandedOutOnce
      <3> QED
        BY <1>4, <2>2, <3>1, <3>2, <3>3
    <2>4. ASSUME NEW l \in working'
          PROVE  thisRun'[l] = "none" /\ \E i \in 1 .. launched' : selected'[i] = l
      BY <1>2, <1>4, <1>9 DEF IInv, HandedOutOnce
    <2> QED
      BY <1>2, <1>3, <2>3, <2>4 DEF HandedOutOnce
  <1>11. SkippedOnlyIfUpdated'
    BY <1>2, <1>3 DEF SkippedOnlyIfUpdated
  <1>12. RunType' /\ FileOfRun' /\ FileIsTrue'
    <2>1. CASE /\ file' = [file EXCEPT !.rows =
                              Append(@, [bay |-> bay, succeeded |-> succeeded])]
               /\ UNCHANGED lost
      <3>1. /\ IsFile(file')
            /\ Len(file.rows) \in Nat
            /\ Len(file'.rows) = Len(file.rows) + 1
            /\ Filed(bay)'
            /\ PrevSucceeded(bay)' <=> succeeded
            /\ \A b : b # bay => /\ Filed(b)' <=> Filed(b)
                                 /\ PrevSucceeded(b)' <=> PrevSucceeded(b)
        BY <2>1, AppendedRow DEF IInv, RunType
      <3>2. {l \in Locations \ lost' : thisRun'[l] # "none"} = Ended \cup {loc}
        BY <1>4, <1>5, <1>6, <2>1
      <3>3. Len(file'.rows) = Cardinality({l \in Locations \ lost' : thisRun'[l] # "none"})
        <4>1. PICK ended : ended = Ended
          OBVIOUS
        <4>2. Cardinality(ended \cup {loc}) = Cardinality(ended) + 1
          BY <1>7, <4>1, FS_AddElement
        <4> QED
          BY <1>7, <3>1, <3>2, <4>1, <4>2
      <3>4. ASSUME Complete(locToBay), NEW l \in Locations
            PROVE  /\ Filed(locToBay[l])' <=> thisRun'[l] # "none" /\ l \notin lost'
                   /\ PrevSucceeded(locToBay[l])' <=> thisRun'[l] = "succeeded" /\ l \notin lost'
        <4>1. CASE l = loc
          BY <1>2, <1>4, <1>5, <1>6, <1>8, <2>1, <3>1, <3>4, <4>1
        <4>2. CASE l # loc
          <5>1. locToBay[l] # bay
            BY <1>8, <3>4, <4>2 DEF Complete, OneToOne
          <5> QED
            BY <1>2, <1>3, <1>4, <2>1, <3>1, <3>4, <4>2, <5>1 DEF IInv, FileOfRun
        <4> QED
          BY <4>1, <4>2
      <3>5. RunType'
        BY <1>2, <1>4, <2>1, <3>1 DEF IInv, RunType
      <3>6. FileOfRun'
        BY <1>2, <1>3, <1>4, <1>6, <2>1, <3>3, <3>4 DEF IInv, FileOfRun, Complete, OneToOne
      <3>7. FileIsTrue'
        <4> SUFFICES ASSUME Complete(writtenBy), NEW l \in Locations,
                            PrevSucceeded(writtenBy[l])'
                     PROVE  l \in ok'
          BY <1>2 DEF FileIsTrue, Complete, OneToOne
        <4>1. writtenBy = locToBay
          BY <1>3 DEF IInv, FileOfRun
        <4>2. CASE l = loc
          BY <1>2, <1>8, <3>1, <4>1, <4>2
        <4>3. CASE l # loc
          <5>1. locToBay[l] # bay
            BY <1>8, <4>1, <4>3 DEF Complete, OneToOne
          <5> QED
            BY <1>2, <3>1, <4>1, <4>3, <5>1 DEF IInv, FileIsTrue
        <4> QED
          BY <4>2, <4>3
      <3> QED
        BY <3>5, <3>6, <3>7
    <2>2. CASE lost' = lost \cup {loc} /\ UNCHANGED file
      <3>1. {l \in Locations \ lost' : thisRun'[l] # "none"} = Ended
        BY <1>4, <1>7, <2>2
      <3>2. /\ \A b : Filed(b)' <=> Filed(b)
            /\ \A b : PrevSucceeded(b)' <=> PrevSucceeded(b)
        BY <2>2 DEF Filed, PrevSucceeded
      <3>3. ASSUME Complete(locToBay), NEW l \in Locations
            PROVE  /\ Filed(locToBay[l])' <=> thisRun'[l] # "none" /\ l \notin lost'
                   /\ PrevSucceeded(locToBay[l])' <=> thisRun'[l] = "succeeded" /\ l \notin lost'
        BY <1>2, <1>3, <1>4, <2>2, <3>2, <3>3 DEF IInv, FileOfRun
      <3>4. RunType'
        BY <1>2, <1>4, <2>2 DEF IInv, RunType, IsFile
      <3>5. FileOfRun'
        <4>1. \A l \in lost' : thisRun'[l] # "none"
          BY <1>3, <1>4, <1>5, <2>2 DEF IInv, RunType, FileOfRun
        <4>2. Len(file'.rows) = Cardinality({l \in Locations \ lost' : thisRun'[l] # "none"})
          BY <1>7, <2>2, <3>1
        <4>3. writtenBy' = locToBay'
          BY <1>2, <1>3 DEF IInv, FileOfRun
        <4> QED
          BY <1>2, <3>3, <4>1, <4>2, <4>3 DEF FileOfRun, Complete, OneToOne
      <3>6. FileIsTrue'
        <4> SUFFICES ASSUME Complete(writtenBy), NEW l \in Locations,
                            PrevSucceeded(writtenBy[l])
                     PROVE  l \in ok'
          BY <1>2, <3>2 DEF FileIsTrue, Complete, OneToOne
        <4>1. l \in ok /\ l # loc
          BY <1>3 DEF IInv, FileOfRun, FileIsTrue
        <4> QED
          BY <1>2, <4>1
      <3> QED
        BY <3>4, <3>5, <3>6
    <2> QED
      BY <1>0, <1>1, <2>1, <2>2 DEF AppendRow
  <1> QED
    BY <1>10, <1>11, <1>12 DEF IInv

\* The pool is empty when a run ends.
LEMMA EndRunKeeps == ASSUME IInv, EndRun PROVE IInv'
  <1> USE DEF IInv
  <1>1. /\ phase' = "idle" /\ working' = {}
        /\ UNCHANGED <<locToBay, file, selected, launched, ok, thisRun, lost, writtenBy>>
    BY DEF EndRun, historyVars
  <1>2. RunType'
    BY <1>1 DEF RunType, IsFile
  <1>3. HandedOutOnce' /\ FileOfRun' /\ SkippedOnlyIfUpdated'
    BY <1>1 DEF HandedOutOnce, FileOfRun, SkippedOnlyIfUpdated
  <1>4. \A bay : PrevSucceeded(bay)' <=> PrevSucceeded(bay)
    BY <1>1 DEF PrevSucceeded
  <1>5. FileIsTrue'
    BY <1>1, <1>4 DEF FileIsTrue, Complete, OneToOne
  <1> QED
    BY <1>2, <1>3, <1>5

\* A device whose update a crash cuts short has no row yet in the file of its run.
LEMMA CrashKeeps == ASSUME IInv, Crash PROVE IInv'
  <1> USE DEF IInv
  <1>1. /\ phase' = "idle" /\ working' = {} /\ ok' = ok \ working
        /\ UNCHANGED <<locToBay, file, selected, launched, thisRun, lost, writtenBy>>
    BY DEF Crash
  <1>2. RunType'
    BY <1>1 DEF RunType, IsFile
  <1>3. HandedOutOnce' /\ FileOfRun' /\ SkippedOnlyIfUpdated'
    BY <1>1 DEF HandedOutOnce, FileOfRun, SkippedOnlyIfUpdated
  <1>4. \A bay : PrevSucceeded(bay)' <=> PrevSucceeded(bay)
    BY <1>1 DEF PrevSucceeded
  <1>5. FileIsTrue'
    <2> SUFFICES ASSUME Complete(writtenBy), NEW loc \in Locations,
                        PrevSucceeded(writtenBy[loc])
                 PROVE  loc \notin working
      BY <1>1, <1>4 DEF FileIsTrue, Complete, OneToOne
    <2>1. ASSUME loc \in working
          PROVE  phase = "pool" /\ thisRun[loc] = "none"
      BY <2>1 DEF HandedOutOnce
    <2> QED
      BY <2>1 DEF FileOfRun
  <1> QED
    BY <1>2, <1>3, <1>5

-----------------------------------------------------------------------------
\* The invariant holds at first, when there is no file.
LEMMA InitIInv == ASSUME Init PROVE IInv
  <1>1. /\ phase = "idle" /\ file.rows = << >> /\ selected = << >> /\ launched = 0
        /\ working = {} /\ thisRun = NoOutcomes /\ lost = {}
        /\ file \in [state : {"absent", "empty", "header"}, rows : Seq({})]
    BY DEF Init, Absent
  <1>2. RunType
    BY <1>1 DEF RunType, IsFile, NoOutcomes, Outcomes
  <1>3. HandedOutOnce /\ FileOfRun /\ SkippedOnlyIfUpdated
    BY <1>1 DEF HandedOutOnce, FileOfRun, SkippedOnlyIfUpdated
  <1>4. FileIsTrue
    BY <1>1 DEF FileIsTrue, PrevSucceeded
  <1> QED
    BY <1>2, <1>3, <1>4 DEF IInv

\* Every step keeps it.
LEMMA NextIInv == ASSUME IInv, [Next]_vars PROVE IInv'
  <1>1. CASE StartScan \/ ContinueScan \/ RunDoesNothing \/ UNCHANGED vars
    <2>1. UNCHANGED invVars
      BY <1>1 DEF StartScan, ContinueScan, RunDoesNothing, vars, runVars, historyVars, invVars
    <2> QED
      BY <2>1, OthersKeep
  <1>2. CASE RunStep
    BY <1>2, HeaderKeeps, LaunchKeeps, FinishKeeps, EndRunKeeps DEF RunStep
  <1> QED
    BY <1>1, <1>2, StartRunKeeps, CrashKeeps DEF Next

\* The invariant the two theorems rest on.
LEMMA RunInvariant == Spec => []IInv
  BY InitIInv, NextIInv, PTL DEF Spec

\* Under a complete map that is still the one the file was written under, a run
\* leaves out only devices whose latest update succeeded, whatever runs, crashes
\* and lost rows came before it.
THEOREM SkippedAreUpdated == Spec => []SkippedOnlyIfUpdated
  BY RunInvariant, PTL DEF IInv

\* In the pool the file has one row for each device that has ended and whose row
\* could be appended, and under a complete map each one is read back as what its
\* own update came to.
THEOREM RowsAreOutcomes == Spec => []RowsTellOutcomes
  <1>1. IInv => RowsTellOutcomes
    <2> SUFFICES ASSUME IInv, phase = "pool"
                 PROVE  RowsTellOutcomes
      BY DEF RowsTellOutcomes
    <2>1. \A loc \in Locations : Complete(locToBay) =>
              LocationToBay(locToBay, loc) = locToBay[loc]
      BY DEF Complete, LocationToBay
    <2> QED
      BY <2>1 DEF IInv, FileOfRun, RowsTellOutcomes
  <1> QED
    BY <1>1, RunInvariant, PTL

-----------------------------------------------------------------------------
(* The labels of a scan, and the map a run makes of them.                  *)

LabelRows == [bay : Answers, location : Nat]

OneRowEach(rows) ==
    \A j, k \in 1 .. Len(rows) : rows[j].location = rows[k].location => j = k

\* One more row in the writer, of a location that has none yet, is one more entry
\* of the map when its bay is a number, and nothing when it is not.
LEMMA MapOfMoreRows ==
    ASSUME NEW rows \in Seq(LabelRows), NEW row \in LabelRows,
           OneRowEach(rows), \A k \in 1 .. Len(rows) : rows[k].location # row.location
    PROVE  LocToBay(WithHeader(Append(rows, row))) =
               IF IsNumber(row.bay)
               THEN Labelling!WithEntry(LocToBay(WithHeader(rows)), row.location, row.bay)
               ELSE LocToBay(WithHeader(rows))
  <1>1. PICK n : n = Len(rows)
    OBVIOUS
  <1>2. PICK more : more = Append(rows, row)
    OBVIOUS
  <1>3. /\ n \in Nat /\ DOMAIN rows = 1 .. n /\ DOMAIN more = 1 .. n + 1
        /\ more[n + 1] = row
        /\ \A k \in 1 .. n : more[k] = rows[k]
    BY <1>1, <1>2
  <1>4. PICK old : old = WithHeader(rows)
    OBVIOUS
  <1>5. PICK new : new = WithHeader(more)
    OBVIOUS
  <1>6. old.rows = rows /\ new.rows = more
    BY <1>4, <1>5 DEF WithHeader
  <1>7. Numbered(new) = Numbered(old) \cup (IF IsNumber(row.bay) THEN {n + 1} ELSE {})
    BY <1>3, <1>6 DEF Numbered
  <1>8. Numbered(old) \subseteq 1 .. n
    BY <1>3, <1>6 DEF Numbered
  <1>9. \A k \in Numbered(old) : /\ new.rows[k] = old.rows[k]
                                 /\ new.rows[k].location # row.location
    BY <1>1, <1>3, <1>6, <1>8
  <1>10. ASSUME NEW loc, loc # row.location
         PROVE  RowsOfLocation(loc, new) = RowsOfLocation(loc, old)
    BY <1>3, <1>6, <1>7, <1>9, <1>10 DEF RowsOfLocation
  <1>11. ASSUME NEW k \in RowsOfLocation(row.location, new)
         PROVE  k = n + 1 /\ IsNumber(row.bay)
    BY <1>7, <1>9, <1>11 DEF RowsOfLocation
  <1>12. PICK f : f = LocToBay(new)
    OBVIOUS
  <1>13. PICK g : g = LocToBay(old)
    OBVIOUS
  <1>14. /\ f = [loc \in DOMAIN f |-> f[loc]] /\ g = [loc \in DOMAIN g |-> g[loc]]
         /\ DOMAIN f = {new.rows[k].location : k \in Numbered(new)}
         /\ DOMAIN g = {old.rows[k].location : k \in Numbered(old)}
    BY <1>12, <1>13 DEF LocToBay
  <1>15. ASSUME NEW loc \in DOMAIN g
         PROVE  loc # row.location /\ loc \in DOMAIN f /\ f[loc] = g[loc]
    <2>1. PICK k \in Numbered(old) : old.rows[k].location = loc
      BY <1>14, <1>15
    <2>2. loc # row.location /\ loc \in DOMAIN f
      BY <1>7, <1>9, <1>14, <2>1
    <2>3. RowsOfLocation(loc, old) = {k}
      BY <1>1, <1>6, <1>8, <2>1 DEF RowsOfLocation, OneRowEach
    <2>4. RowsOfLocation(loc, new) = {k}
      BY <1>10, <2>2, <2>3
    <2>5. k \in Nat
      BY <1>3, <1>8, <2>1
    <2>6. k = CHOOSE i \in {k} : \A j \in {k} : j <= i
      BY <2>5
    <2>7. f[loc] = new.rows[k].bay
      BY <1>12, <1>14, <2>2, <2>4, <2>6 DEF LocToBay
    <2>8. g[loc] = old.rows[k].bay
      BY <1>13, <1>14, <1>15, <2>3, <2>6 DEF LocToBay
    <2> QED
      BY <1>9, <2>1, <2>2, <2>7, <2>8
  <1>16. CASE ~IsNumber(row.bay)
    <2>1. Numbered(new) = Numbered(old)
      BY <1>7, <1>16
    <2>2. DOMAIN f = DOMAIN g
      BY <1>9, <1>14, <2>1
    <2>3. f = g
      BY <1>14, <1>15, <2>2
    <2> QED
      BY <1>2, <1>4, <1>5, <1>12, <1>13, <1>16, <2>3
  <1>17. CASE IsNumber(row.bay)
    <2>1. DOMAIN f = DOMAIN g \cup {row.location}
      BY <1>3, <1>6, <1>7, <1>9, <1>14, <1>17
    <2>2. RowsOfLocation(row.location, new) = {n + 1}
      BY <1>3, <1>6, <1>7, <1>11, <1>17 DEF RowsOfLocation
    <2>3. n + 1 = CHOOSE i \in {n + 1} : \A j \in {n + 1} : j <= i
      BY <1>3
    <2>4. f[row.location] = row.bay
      BY <1>3, <1>6, <1>12, <1>14, <2>1, <2>2, <2>3 DEF LocToBay
    <2>5. PICK h : h = Labelling!WithEntry(g, row.location, row.bay)
      OBVIOUS
    <2>6. h = [loc \in DOMAIN g \cup {row.location} |->
                  IF loc = row.location THEN row.bay ELSE g[loc]]
      BY <2>5 DEF Labelling!WithEntry
    <2>7. f = h
      BY <1>14, <1>15, <2>1, <2>4, <2>6
    <2> QED
      BY <1>2, <1>4, <1>5, <1>12, <1>13, <1>17, <2>5, <2>7
  <1> QED
    BY <1>16, <1>17

\* A scan writes each location once, in their order, and what the operator has
\* said is the map of what is in the writer; the file is empty until the writer
\* is flushed, and no run begins before that.
ScanInv ==
    /\ scan \in [state : {"none", "labelling"}, next : Nat, writer : Seq(LabelRows)]
    /\ labelled = [bays |-> labelled.bays, finished |-> labelled.finished]
    /\ scan.state = "labelling" =>
          /\ phase = "idle"
          /\ mapFile = Empty
          /\ labelled.bays = LocToBay(WithHeader(scan.writer))
          /\ OneRowEach(scan.writer)
          /\ \A k \in 1 .. Len(scan.writer) : scan.writer[k].location < scan.next
    /\ scan.state = "none" /\ scans > 0 =>
          mapFile = Empty \/ (labelled.finished /\ LocToBay(mapFile) = labelled.bays)
    /\ RunsUseFinishedLabels

\* The map of a file without rows is empty.
LEMMA MapOfNoRows == LocToBay(WithHeader(<< >>)) = << >>
  <1>1. PICK f : f = WithHeader(<< >>)
    OBVIOUS
  <1>2. f.rows = << >>
    BY <1>1 DEF WithHeader
  <1>3. Numbered(f) = {}
    BY <1>2 DEF Numbered
  <1>4. PICK g : g = LocToBay(f)
    OBVIOUS
  <1>5. g = [loc \in {} |-> loc]
    BY <1>3, <1>4 DEF LocToBay
  <1>6. << >> = [loc \in {} |-> loc]
    OBVIOUS
  <1> QED
    BY <1>1, <1>4, <1>5, <1>6

\* A scan begins with an empty writer, and nothing said.
LEMMA StartScanKeeps == ASSUME ScanInv, StartScan PROVE ScanInv'
  <1>1. /\ scan' = [state |-> "labelling", next |-> 1, writer |-> << >>]
        /\ mapFile' = Empty
        /\ labelled' = [bays |-> << >>, finished |-> FALSE]
        /\ phase = "idle" /\ phase' = "idle"
    BY DEF StartScan, Labelling!CreateMap, Labelling!NoScan, Labelling!Empty, Empty, runVars
  <1>2. /\ scan' \in [state : {"none", "labelling"}, next : Nat, writer : Seq(LabelRows)]
        /\ scan'.state = "labelling" /\ scan'.writer = << >>
    BY <1>1
  <1>3. OneRowEach(scan'.writer)
    BY <1>2 DEF OneRowEach
  <1> QED
    BY <1>1, <1>2, <1>3, MapOfNoRows DEF ScanInv, RunsUseFinishedLabels

\* A question that is answered adds a row to the writer and what it says to the
\* labels.
LEMMA LabelKeeps ==
    ASSUME ScanInv, NEW answer \in Answers, Labelling!LabelDevice(answer),
           UNCHANGED <<scans, runVars>>
    PROVE  ScanInv'
  <1>1. /\ scan.state = "labelling" /\ phase = "idle" /\ mapFile = Empty
        /\ mapFile' = mapFile /\ phase' = phase
    BY DEF Labelling!LabelDevice, Labelling!Written, ScanInv, runVars
  <1>2. PICK row : row = [bay |-> answer, location |-> scan.next]
    OBVIOUS
  <1>3. PICK rows : rows = scan.writer
    OBVIOUS
  <1>4. PICK next : next = scan.next
    OBVIOUS
  <1>5. next \in Nat /\ rows \in Seq(LabelRows) /\ row \in LabelRows
    BY <1>2, <1>3, <1>4 DEF ScanInv, LabelRows
  <1>6. scan' = [scan EXCEPT !.next = next + 1, !.writer = Append(rows, row)]
    BY <1>2, <1>3, <1>4 DEF Labelling!LabelDevice
  <1>7. Append(rows, row) \in Seq(LabelRows)
    BY <1>5
  <1>8. /\ scan' \in [state : {"none", "labelling"}, next : Nat, writer : Seq(LabelRows)]
        /\ scan'.state = "labelling" /\ scan'.next = next + 1
        /\ scan'.writer = Append(rows, row)
    <2>1. PICK more : more = Append(rows, row)
      OBVIOUS
    <2>2. scan \in [state : {"none", "labelling"}, next : Nat, writer : Seq(LabelRows)]
      BY DEF ScanInv
    <2>3. scan' = [state |-> "labelling", next |-> next + 1, writer |-> more]
      BY <1>1, <1>6, <2>1, <2>2
    <2>4. more \in Seq(LabelRows) /\ next + 1 \in Nat
      BY <1>5, <1>7, <2>1
    <2> QED
      BY <2>1, <2>3, <2>4
  <1>9. /\ OneRowEach(rows)
        /\ \A k \in 1 .. Len(rows) : rows[k].location < next
        /\ \A k \in 1 .. Len(rows) : rows[k].location \in Nat
    <2>1. \A k \in 1 .. Len(rows) : rows[k] \in LabelRows
      BY <1>5
    <2>2. \A k \in 1 .. Len(rows) : rows[k].location \in Nat
      BY <2>1 DEF LabelRows
    <2> QED
      BY <1>1, <1>3, <1>4, <2>2 DEF ScanInv
  <1>10. row.location = next /\ row.bay = answer
    BY <1>2, <1>4
  <1>11. PICK more : more = Append(rows, row)
    OBVIOUS
  <1>12. /\ Len(rows) \in Nat
         /\ Len(more) = Len(rows) + 1
         /\ more[Len(rows) + 1] = row
         /\ \A k \in 1 .. Len(rows) : more[k] = rows[k]
    BY <1>5, <1>11
  <1>13. \A k \in 1 .. Len(rows) : rows[k].location # row.location
    BY <1>5, <1>9, <1>10
  <1>14. OneRowEach(more)
    BY <1>9, <1>12, <1>13 DEF OneRowEach
  <1>15. \A k \in 1 .. Len(more) : more[k].location < next + 1
    BY <1>5, <1>9, <1>10, <1>12
  <1>16. labelled'.bays = LocToBay(WithHeader(more))
         /\ labelled' = [bays |-> labelled'.bays, finished |-> labelled'.finished]
    <2>1. PICK bays : bays = IF IsNumber(answer)
                             THEN Labelling!WithEntry(labelled.bays, scan.next, answer)
                             ELSE labelled.bays
      OBVIOUS
    <2>2. labelled' = [labelled EXCEPT !.bays = bays]
      BY <2>1 DEF Labelling!LabelDevice, Labelling!IsNumber, IsNumber
    <2>3. labelled' = [bays |-> bays, finished |-> labelled.finished]
      BY <2>2 DEF ScanInv
    <2>4. labelled.bays = LocToBay(WithHeader(rows))
      BY <1>1, <1>3 DEF ScanInv
    <2>5. bays = LocToBay(WithHeader(more))
      BY <1>4, <1>5, <1>9, <1>10, <1>11, <1>13, <2>1, <2>4, MapOfMoreRows
    <2> QED
      BY <2>3, <2>5
  <1> QED
    BY <1>1, <1>8, <1>11, <1>14, <1>15, <1>16 DEF ScanInv, RunsUseFinishedLabels

\* The other steps of a scan: a device is passed over, the file is written, or the
\* operator gives up and leaves it empty.
LEMMA ScanKeeps ==
    ASSUME ScanInv, UNCHANGED <<scans, runVars>>,
           Labelling!LeaveOut \/ Labelling!Flush \/ Labelling!KillScan
    PROVE  ScanInv'
  <1>1. scan.state = "labelling" /\ phase = "idle" /\ phase' = "idle"
    BY DEF Labelling!LeaveOut, Labelling!Flush, Labelling!KillScan, ScanInv, runVars
  <1>2. /\ mapFile = Empty
        /\ labelled.bays = LocToBay(WithHeader(scan.writer))
    BY <1>1 DEF ScanInv
  <1>3. CASE Labelling!LeaveOut
    <2>1. PICK next : next = scan.next + 1
      OBVIOUS
    <2>2. next \in Nat /\ scan.next \in Nat
      BY <2>1 DEF ScanInv
    <2>3. scan' = [scan EXCEPT !.next = next]
      BY <1>3, <2>1 DEF Labelling!LeaveOut
    <2>4. /\ scan' \in [state : {"none", "labelling"}, next : Nat, writer : Seq(LabelRows)]
          /\ scan'.state = "labelling" /\ scan'.next = next /\ scan'.writer = scan.writer
      BY <1>1, <2>2, <2>3 DEF ScanInv
    <2>5. UNCHANGED <<mapFile, labelled>>
      BY <1>3 DEF Labelling!LeaveOut
    <2>6. \A k \in 1 .. Len(scan.writer) : scan.writer[k].location < next
      <3>1. \A k \in 1 .. Len(scan.writer) : /\ scan.writer[k].location \in Nat
                                             /\ scan.writer[k].location < scan.next
        <4>1. \A k \in 1 .. Len(scan.writer) : scan.writer[k] \in LabelRows
          BY DEF ScanInv
        <4>2. \A k \in 1 .. Len(scan.writer) : scan.writer[k].location \in Nat
          BY <4>1 DEF LabelRows
        <4> QED
          BY <1>1, <4>2 DEF ScanInv
      <3> QED
        BY <2>1, <2>2, <3>1
    <2> QED
      BY <1>1, <1>2, <2>4, <2>5, <2>6 DEF ScanInv, RunsUseFinishedLabels
  <1>4. ASSUME scan' = Labelling!NoScan
        PROVE  /\ scan' \in [state : {"none", "labelling"}, next : Nat, writer : Seq(LabelRows)]
               /\ scan'.state = "none"
    BY <1>4 DEF Labelling!NoScan
  <1>5. CASE Labelling!Flush
    <2>1. mapFile' = WithHeader(scan.writer)
      BY <1>5 DEF Labelling!Flush, Labelling!WithHeader, WithHeader
    <2>2. labelled' = [bays |-> labelled.bays, finished |-> TRUE]
      BY <1>5 DEF Labelling!Flush, ScanInv
    <2> QED
      BY <1>1, <1>2, <1>4, <1>5, <2>1, <2>2
      DEF Labelling!Flush, ScanInv, RunsUseFinishedLabels
  <1>6. CASE Labelling!KillScan
    BY <1>1, <1>2, <1>4, <1>6 DEF Labelling!KillScan, ScanInv, RunsUseFinishedLabels
  <1> QED
    BY <1>3, <1>5, <1>6

\* A run loads the map of the last scan, or of none: an empty file does not load.
LEMMA RunKeepsLabels ==
    ASSUME ScanInv, StartRun \/ RunDoesNothing \/ RunStep \/ Crash
    PROVE  ScanInv'
  <1>1. UNCHANGED <<mapFile, scan, labelled, scans>>
    BY DEF StartRun, RunDoesNothing, RunStep, CreateFile, WriteHeader, Launch, EndRun, Finish,
           Crash, labelVars
  <1>2. CASE StartRun
    <2>1. scan.state = "none" /\ MapLoads(mapFile) /\ locToBay' = LocToBay(mapFile)
      BY <1>2 DEF StartRun, NextRun
    <2>2. mapFile # Empty
      <3>1. Empty.rows = << >> /\ Empty.state = "empty"
        BY DEF Empty
      <3> QED
        BY <2>1, <3>1 DEF MapLoads
    <2> QED
      BY <1>1, <2>1, <2>2 DEF ScanInv, RunsUseFinishedLabels
  <1>3. CASE RunDoesNothing \/ RunStep \/ Crash
    <2>1. locToBay' = locToBay /\ (phase = "idle" => phase' = "idle")
      BY <1>3 DEF RunDoesNothing, RunStep, CreateFile, WriteHeader, Launch, EndRun, Finish, Crash
    <2> QED
      BY <1>1, <2>1 DEF ScanInv, RunsUseFinishedLabels
  <1> QED
    BY <1>2, <1>3

\* A run that goes on after a scan goes on with all the operator said, in a scan
\* that came to its end, whatever was given up before.
THEOREM LabelsAreWhole == Spec => []RunsUseFinishedLabels
  <1>1. Init => ScanInv
    BY DEF Init, Labelling!Init, Labelling!NoScan, ScanInv, RunsUseFinishedLabels
  <1>2. ASSUME ScanInv, [Next]_vars
        PROVE  ScanInv'
    <2>1. CASE ContinueScan
      BY <1>2, <2>1, LabelKeeps, ScanKeeps DEF ContinueScan, Labelling!LabelStep
    <2>2. CASE UNCHANGED vars
      BY <1>2, <2>2 DEF vars, labelVars, runVars, ScanInv, RunsUseFinishedLabels
    <2> QED
      BY <1>2, <2>1, <2>2, StartScanKeeps, RunKeepsLabels DEF Next
  <1>3. ScanInv => RunsUseFinishedLabels
    BY DEF ScanInv
  <1> QED
    BY <1>1, <1>2, <1>3, PTL DEF Spec

=============================================================================
