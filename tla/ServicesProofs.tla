---------------------------- MODULE ServicesProofs ----------------------------
(***************************************************************************)
(* Proofs about the services: that a proc runs the Lua function            *)
(* it was given and the panic function's jump stays in the running entry,  *)
(* for any procs and functions and any nesting of calls; that the          *)
(* references the tracker exports are real, for any datums, lists and      *)
(* variables; that the extended profiler records every run it was asked    *)
(* for, for any procs and however deep they call, sleep and resume; and    *)
(* that the memory profiler's report adds up, for any tables and width.    *)
(***************************************************************************)
EXTENDS LuaBridge, RefTracking, ExtendedProfiling, MemoryUsage, FoldLemmas,
  FiniteSetTheorems, SequenceTheorems, WellFoundedInduction, TLAPS

-----------------------------------------------------------------------------
(***************************************************************************)
(* The Lua bridge.                                                         *)
(***************************************************************************)
Entry == [phase : {"pushing", "lua", "result"}, calledBack : BOOLEAN]

Place == IF Last(frames).phase = "pushing" THEN "hook" ELSE "call"

\* An entry inside another makes that one an entry that has called back.
NestedCalledBack == \A i \in 1 .. Len(frames) - 1 : frames[i].calledBack

LuaInv ==
    /\ registry \in Seq(Closures)
    /\ DOMAIN injected = LuaProcs /\ DOMAIN assigned = LuaProcs
    /\ frames \in Seq(Entry)
    /\ NestedCalledBack
    /\ RunsItsFunction
    /\ JumpsHome

-----------------------------------------------------------------------------
(* An entry begins: the place it remembers is its own.                     *)
LEMMA EnteredKeeps ==
    ASSUME frames \in Seq(Entry), NestedCalledBack,
           NEW phase \in {"pushing", "lua"}, Entered(phase),
           SetJmp(IF phase = "pushing" THEN "hook" ELSE "call")
    PROVE  frames' \in Seq(Entry) /\ NestedCalledBack' /\ JumpsHome'
<1> DEFINE outer == [i \in DOMAIN frames |->
                       [frames[i] EXCEPT !.calledBack = i = Len(frames) \/ @]]
           new == [phase |-> phase, calledBack |-> FALSE]
<1>1. new \in Entry
  BY DEF Entry
<1>2. ASSUME NEW i \in 1 .. Len(frames)
      PROVE  /\ [frames[i] EXCEPT !.calledBack = i = Len(frames) \/ @] \in Entry
             /\ [frames[i] EXCEPT !.calledBack = i = Len(frames) \/ @].calledBack
  <2>1. frames[i] \in Entry
    OBVIOUS
  <2>2. i # Len(frames) => frames[i].calledBack
    BY DEF NestedCalledBack
  <2>3. (i = Len(frames) \/ frames[i].calledBack) = TRUE
    BY <2>2
  <2>4. QED
    BY <2>1, <2>3 DEF Entry
<1>3. outer \in Seq(Entry) /\ Len(outer) = Len(frames)
      /\ \A i \in 1 .. Len(frames) : outer[i].calledBack
  <2>1. DOMAIN frames = 1 .. Len(frames) /\ Len(frames) \in Nat
    OBVIOUS
  <2>2. \A i \in 1 .. Len(frames) : outer[i] \in Entry /\ outer[i].calledBack
    BY <1>2, <2>1
  <2>3. outer = [i \in 1 .. Len(frames) |-> outer[i]]
    BY <2>1
  <2> HIDE DEF outer
  <2>4. outer \in Seq(Entry) /\ Len(outer) = Len(frames)
    BY <2>1, <2>2, <2>3
  <2>5. QED
    BY <2>2, <2>4
<1>4. frames' = Append(outer, new)
  BY DEF Entered
<1> HIDE DEF outer, new
<1>5. /\ frames' \in Seq(Entry) /\ Len(frames') = Len(frames) + 1
      /\ frames'[Len(frames')] = new
      /\ \A i \in 1 .. Len(frames) : frames'[i] = outer[i]
  BY <1>1, <1>3, <1>4
<1>6. NestedCalledBack'
  BY <1>3, <1>5 DEF NestedCalledBack
<1>7. Last(frames') = new
  BY <1>5 DEF Last
<1>8. jmp' = <<Len(frames'), IF phase = "pushing" THEN "hook" ELSE "call">> /\ jmp_set' = TRUE
  BY DEF SetJmp
<1>9. JumpsHome'
  BY <1>7, <1>8 DEF JumpsHome, new
<1>10. QED
  BY <1>5, <1>6, <1>9

(* Entries end: what is left has called back, and nothing jumps into what  *)
(* is gone.                                                                *)
LEMMA ReturnedKeeps ==
    ASSUME frames \in Seq(Entry), frames # <<>>, NestedCalledBack, JumpsHome,
           NEW n \in 1 .. Len(frames), Returned(n)
    PROVE  frames' \in Seq(Entry) /\ NestedCalledBack' /\ JumpsHome'
<1>1. /\ frames' = SubSeq(frames, 1, n - 1)
      /\ jmp' = IF jmp # Dead /\ jmp[1] >= n THEN Dead ELSE jmp
  BY DEF Returned
<1>2. /\ frames' \in Seq(Entry) /\ Len(frames') = n - 1
      /\ \A i \in 1 .. n - 1 : frames'[i] = frames[i]
  BY <1>1
<1>3. \A i \in 1 .. n - 1 : frames'[i].calledBack
  BY <1>2 DEF NestedCalledBack
<1>4. NestedCalledBack'
  BY <1>2, <1>3 DEF NestedCalledBack
<1>5. jmp' = Dead
  BY <1>1 DEF JumpsHome
<1>6. frames' # <<>> => Last(frames').calledBack
  BY <1>2, <1>3 DEF Last
<1>7. JumpsHome'
  BY <1>5, <1>6 DEF JumpsHome
<1>8. QED
  BY <1>2, <1>4, <1>7

(* The innermost entry goes from one phase to another.                     *)
LEMMA PhaseKeeps ==
    ASSUME frames \in Seq(Entry), frames # <<>>, NestedCalledBack,
           NEW phase \in {"lua", "result"},
           frames' = [frames EXCEPT ![Len(frames)].phase = phase]
    PROVE  /\ frames' \in Seq(Entry) /\ Len(frames') = Len(frames)
           /\ frames' # <<>>
           /\ NestedCalledBack'
           /\ Last(frames').phase = phase
           /\ Last(frames').calledBack = Last(frames).calledBack
<1>1. frames[Len(frames)] \in Entry /\ Len(frames) \in 1 .. Len(frames)
  OBVIOUS
<1>2. [frames[Len(frames)] EXCEPT !.phase = phase] \in Entry
  BY <1>1 DEF Entry
<1>3. /\ frames' \in Seq(Entry) /\ Len(frames') = Len(frames)
      /\ \A i \in 1 .. Len(frames) - 1 : frames'[i] = frames[i]
      /\ frames'[Len(frames)] = [frames[Len(frames)] EXCEPT !.phase = phase]
  BY <1>1, <1>2
<1>4. NestedCalledBack'
  BY <1>3 DEF NestedCalledBack
<1>5. /\ Last(frames').phase = phase
      /\ Last(frames').calledBack = Last(frames).calledBack
  BY <1>1, <1>3 DEF Last, Entry
<1>6. QED
  BY <1>1, <1>3, <1>4, <1>5

-----------------------------------------------------------------------------
LEMMA LuaInitially == LuaInit => LuaInv
BY DEF LuaInit, LuaInv, NestedCalledBack, RunsItsFunction, JumpsHome

LEMMA AssignKeeps ==
    ASSUME LuaInv, NEW path \in LuaProcs \cup Missing, NEW f \in Closures, Assign(path, f)
    PROVE  LuaInv'
<1> USE DEF LuaInv
<1>1. /\ registry' \in Seq(Closures) /\ Len(registry') = Len(registry) + 1
      /\ \A i \in 1 .. Len(registry) : registry'[i] = registry[i]
      /\ registry'[GetID] = f
  <2>1. registry' = [i \in 1 .. GetID |-> IF i = GetID THEN f ELSE registry[i]]
    BY DEF Assign, Registered
  <2>2. QED
    BY <2>1 DEF GetID
<1>2. CASE path \in LuaProcs
  <2>1. /\ injected' = [injected EXCEPT ![path] = GetID]
        /\ assigned' = [assigned EXCEPT ![path] = f]
        /\ UNCHANGED <<frames, jmp, jmp_set>>
    BY <1>2 DEF Assign
  <2>2. RunsItsFunction'
    BY <1>1, <2>1 DEF RunsItsFunction, GetID
  <2>3. QED
    BY <1>1, <2>1, <2>2 DEF NestedCalledBack, JumpsHome
<1>3. CASE path \notin LuaProcs
  <2>1. /\ Returned(Len(frames)) \/ UNCHANGED <<frames, jmp>>
        /\ UNCHANGED <<injected, assigned, jmp_set>>
        /\ frames # <<>>
    BY <1>3 DEF Assign, InLua
  <2>2. RunsItsFunction'
    BY <1>1, <2>1 DEF RunsItsFunction
  <2>3. frames' \in Seq(Entry) /\ NestedCalledBack' /\ JumpsHome'
    <3>1. CASE Returned(Len(frames))
      BY <2>1, <3>1, ReturnedKeeps
    <3>2. CASE UNCHANGED <<frames, jmp>>
      BY <2>1, <3>2 DEF NestedCalledBack, JumpsHome
    <3>3. QED
      BY <2>1, <3>1, <3>2
  <2>4. QED
    BY <1>1, <2>1, <2>2, <2>3
<1>4. QED
  BY <1>2, <1>3

LEMMA LuaStep == LuaInv /\ [LuaNext]_luaVars => LuaInv'
<1> SUFFICES ASSUME LuaInv, [LuaNext]_luaVars
             PROVE  LuaInv'
  OBVIOUS
<1> USE DEF LuaInv
<1>1. ASSUME UNCHANGED <<registry, injected, assigned>>,
             frames' \in Seq(Entry) /\ NestedCalledBack' /\ JumpsHome'
      PROVE  LuaInv'
  BY <1>1 DEF RunsItsFunction
<1>2. ASSUME NEW p \in LuaProcs, CallHook(p)
      PROVE  LuaInv'
  BY <1>1, <1>2, EnteredKeeps DEF CallHook
<1>3. CASE LoadScript
  BY <1>1, <1>3, EnteredKeeps DEF LoadScript
<1>4. CASE LuaCall
  <2>1. /\ frames' \in Seq(Entry) /\ frames' # <<>> /\ NestedCalledBack'
        /\ Last(frames').phase = "lua"
    BY <1>4, PhaseKeeps DEF LuaCall
  <2>2. jmp' = <<Len(frames'), "call">> /\ jmp_set' = TRUE
    BY <1>4 DEF LuaCall, SetJmp
  <2>3. JumpsHome'
    BY <2>1, <2>2 DEF JumpsHome
  <2>4. QED
    BY <1>1, <1>4, <2>1, <2>3 DEF LuaCall
<1>5. ASSUME NEW path \in LuaProcs \cup Missing, NEW f \in Closures, Assign(path, f)
      PROVE  LuaInv'
  BY <1>5, AssignKeeps
<1>6. CASE Result
  <2>1. /\ frames' \in Seq(Entry) /\ Len(frames') = Len(frames) /\ NestedCalledBack'
        /\ Last(frames').phase = "result"
        /\ Last(frames').calledBack = Last(frames).calledBack
    BY <1>6, PhaseKeeps DEF Result, InLua
  <2>2. frames # <<>> /\ Last(frames).phase = "lua" /\ UNCHANGED <<jmp, jmp_set>>
    BY <1>6 DEF Result, InLua
  <2>3. JumpsHome'
    BY <2>1, <2>2 DEF JumpsHome
  <2>4. QED
    BY <1>1, <1>6, <2>1, <2>3 DEF Result
<1>7. CASE Return
  <2>1. frames # <<>> /\ Returned(Len(frames)) /\ Len(frames) \in 1 .. Len(frames)
    BY <1>7 DEF Return
  <2>2. QED
    BY <1>1, <1>7, <2>1, ReturnedKeeps DEF Return
<1>8. CASE Unprotected
  <2>1. CASE Len(frames) > 1
    <3>1. frames # <<>> /\ Returned(Len(frames) - 1) /\ Len(frames) - 1 \in 1 .. Len(frames)
      BY <1>8, <2>1 DEF Unprotected
    <3>2. QED
      BY <1>1, <1>8, <3>1, ReturnedKeeps DEF Unprotected
  <2>2. CASE ~ (Len(frames) > 1)
    <3>1. frames # <<>> /\ jmp # Dead /\ Returned(jmp[1])
      BY <1>8, <2>2 DEF Unprotected
    <3>2. jmp[1] = Len(frames) /\ Len(frames) \in 1 .. Len(frames)
      BY <3>1 DEF JumpsHome
    <3>3. QED
      BY <1>1, <1>8, <3>1, <3>2, ReturnedKeeps DEF Unprotected
  <2>3. QED
    BY <2>1, <2>2
<1>9. CASE UNCHANGED luaVars
  BY <1>1, <1>9 DEF luaVars, NestedCalledBack, JumpsHome
<1>10. QED
  BY <1>2, <1>3, <1>4, <1>5, <1>6, <1>7, <1>8, <1>9 DEF LuaNext

LEMMA LuaInvariance == LuaSpec => []LuaInv
BY LuaInitially, LuaStep, PTL DEF LuaSpec

(* dm_table_newindex and luajit_call_hook: a proc given Lua functions runs *)
(* the last of them, whatever is registered or fails to be injected later. *)
THEOREM ProcsRunTheirFunctions == LuaSpec => []RunsItsFunction
<1>1. LuaInv => RunsItsFunction
  BY DEF LuaInv
<1>2. QED
  BY <1>1, LuaInvariance, PTL

(* luajit_error: until an entry has called back into DM, the place an      *)
(* error jumps to is that entry's own, and never one outside of it.        *)
THEOREM JumpsStayHome == LuaSpec => []JumpsHome
<1>1. LuaInv => JumpsHome
  BY DEF LuaInv
<1>2. QED
  BY <1>1, LuaInvariance, PTL

-----------------------------------------------------------------------------
(***************************************************************************)
(* The reference tracker.                                                  *)
(***************************************************************************)
\* The entry is true, or what it says ended behind the hooks.
Real(r) == Holds(r) \/ r \in unseen

RefTypes ==
    /\ live \subseteq Things
    /\ field \in [Datums -> [Names -> Things \cup {Null}]]
    /\ elements \in [Lists -> Seq(Things \cup {Null})]
    /\ assoc \in [Lists -> [Things -> Things \cup {Null}]]
    /\ back_references \in [References -> Nat]
    /\ written \subseteq Datums \X Names

\* Nothing is known of a holder that does not exist, and nothing is left in it.
DeadHoldNothing ==
    /\ \A r \in References : r[1] \notin live => back_references[r] = 0
    /\ \A d \in Datums \ live, n \in Names : field[d][n] = Null

AllReal == \A r \in References : back_references[r] > 0 => Real(r)

WrittenKnown ==
    \A w \in written : w[1] \in live /\ field[w[1]][w[2]] # Null =>
        back_references[<<w[1], w[2], field[w[1]][w[2]]>>] >= 1

RefInv == RefTypes /\ DeadHoldNothing /\ MapsMirror /\ AllReal /\ WrittenKnown

-----------------------------------------------------------------------------
(* What a step of the hooks does to the two maps.                          *)
LEMMA TrackKeeps ==
    ASSUME RefTypes, MapsMirror, NEW gone, NEW new, Track(gone, new)
    PROVE  /\ back_references' \in [References -> Nat] /\ MapsMirror'
           /\ \A r \in References :
                back_references'[r] = (IF r \in gone THEN 0 ELSE back_references[r])
                                      + (IF r \in new THEN 1 ELSE 0)
BY DEF Track, RefTypes, MapsMirror

LEMMA ReferencesInitially == ReferencesInit => RefInv
BY ReferenceAssumption DEF ReferencesInit, RefInv, RefTypes, DeadHoldNothing, MapsMirror,
    AllReal, WrittenKnown, Things

LEMMA SetVariableKeeps ==
    ASSUME RefInv, NEW d \in Datums, NEW n \in Names, NEW v \in Things \cup {Null},
           SetVariable(d, n, v)
    PROVE  RefInv'
<1> USE DEF RefInv
<1> DEFINE new == {r \in References : r = <<d, n, v>>}
<1>1. /\ d \in live
      /\ Track(Before(d, n), new)
      /\ field' = [field EXCEPT ![d][n] = v]
      /\ written' = written \cup {<<d, n>>}
      /\ \A r \in References : r \in unseen /\ r \notin unseen' =>
           r[1] = d /\ r[2] = n /\ r[3] \in {field[d][n], v}
      /\ UNCHANGED <<elements, assoc, live>>
  BY DEF SetVariable, Note
<1>2. /\ back_references' \in [References -> Nat] /\ MapsMirror'
      /\ \A r \in References :
           back_references'[r] = (IF r \in Before(d, n) THEN 0 ELSE back_references[r])
                                 + (IF r \in new THEN 1 ELSE 0)
  BY <1>1, TrackKeeps
<1>3. /\ field' \in [Datums -> [Names -> Things \cup {Null}]]
      /\ field'[d][n] = v
      /\ \A e \in Datums, m \in Names : <<e, m>> # <<d, n>> => field'[e][m] = field[e][m]
  BY <1>1 DEF RefTypes
<1>4. RefTypes'
  BY <1>1, <1>2, <1>3 DEF RefTypes
<1>5. DeadHoldNothing'
  BY <1>1, <1>2, <1>3 DEF DeadHoldNothing
<1>6. ASSUME NEW r \in References, r[1] = d, r[2] = n
      PROVE  /\ r[3] = v => back_references'[r] >= 1
             /\ back_references'[r] > 0 => r[3] = v \/ r \in unseen'
  <2>1. r = <<d, n, r[3]>> /\ r[3] \in Things
    BY <1>6, ReferenceAssumption DEF References, Things
  <2>2. r \in new <=> r[3] = v
    BY <2>1
  <2>3. r \in Before(d, n) <=> r[3] = field[d][n]
    BY <2>1 DEF Before
  <2>4. back_references[r] > 0 => r[3] = field[d][n] \/ r \in unseen
    BY <1>6, ReferenceAssumption DEF AllReal, Real, Holds, Things
  <2>5. r \in unseen /\ r[3] \notin {field[d][n], v} => r \in unseen'
    BY <1>1
  <2>6. back_references[r] \in Nat
    BY DEF RefTypes
  <2>7. back_references'[r] = (IF r[3] = field[d][n] THEN 0 ELSE back_references[r])
                              + (IF r[3] = v THEN 1 ELSE 0)
    BY <1>2, <2>2, <2>3
  <2>8. QED
    BY <2>4, <2>5, <2>6, <2>7
<1>7. ASSUME NEW r \in References, ~ (r[1] = d /\ r[2] = n)
      PROVE  back_references'[r] = back_references[r]
  <2>1. r \notin Before(d, n) /\ r \notin new
    BY <1>7 DEF Before
  <2>2. QED
    BY <1>2, <2>1 DEF RefTypes
<1>8. AllReal'
  <2> SUFFICES ASSUME NEW r \in References, back_references'[r] > 0
               PROVE  Real(r)'
    BY DEF AllReal
  <2>1. CASE r[1] = d /\ r[2] = n
    BY <2>1, <1>3, <1>6 DEF Real, Holds
  <2>2. CASE ~ (r[1] = d /\ r[2] = n)
    <3>1. Real(r)
      BY <1>7, <2>2 DEF AllReal
    <3>2. r[1] \in Datums => r[2] \in Names
      BY ReferenceAssumption DEF References, Things
    <3>3. r[1] \in Datums => field'[r[1]][r[2]] = field[r[1]][r[2]]
      BY <1>3, <2>2, <3>2
    <3>4. r \in unseen => r \in unseen'
      BY <1>1, <2>2
    <3>5. QED
      BY <1>1, <3>1, <3>3, <3>4 DEF Real, Holds
  <2>3. QED
    BY <2>1, <2>2
<1>9. WrittenKnown'
  <2> SUFFICES ASSUME NEW w \in written', w[1] \in live', field'[w[1]][w[2]] # Null
               PROVE  back_references'[<<w[1], w[2], field'[w[1]][w[2]]>>] >= 1
    BY DEF WrittenKnown
  <2> DEFINE r == <<w[1], w[2], field'[w[1]][w[2]]>>
  <2>1. w[1] \in Datums /\ w[2] \in Names /\ w = <<w[1], w[2]>>
    BY <1>4 DEF RefTypes
  <2>2. field'[w[1]][w[2]] \in Things
    BY <1>3, <2>1
  <2>3. r \in References
    BY <2>1, <2>2 DEF References
  <2>4. CASE w = <<d, n>>
    BY <1>3, <1>6, <2>3, <2>4
  <2>5. CASE w # <<d, n>>
    <3>1. field'[w[1]][w[2]] = field[w[1]][w[2]]
      BY <1>3, <2>1, <2>5
    <3>2. w \in written /\ back_references[r] >= 1
      BY <1>1, <2>5, <3>1 DEF WrittenKnown
    <3>3. ~ (r[1] = d /\ r[2] = n)
      BY <2>1, <2>5
    <3>4. QED
      BY <1>7, <2>3, <3>2, <3>3
  <2>6. QED
    BY <2>4, <2>5
<1>10. QED
  BY <1>2, <1>4, <1>5, <1>8, <1>9

(* A step that concerns the list l alone.                                  *)
OnlyList(l) ==
    /\ live' = live \cup {l}
    /\ back_references' \in [References -> Nat] /\ MapsMirror'
    /\ \A r \in References : r[1] # l => back_references'[r] = back_references[r]
    /\ UNCHANGED <<field, written>>
    /\ elements' \in [Lists -> Seq(Things \cup {Null})]
    /\ assoc' \in [Lists -> [Things -> Things \cup {Null}]]
    /\ \A k \in Lists \ {l} : elements'[k] = elements[k] /\ assoc'[k] = assoc[k]
    /\ \A r \in References : r[1] # l /\ r \in unseen => r \in unseen'

(* Such a step has only the entries of that list to answer for.            *)
LEMMA OnlyListKeeps ==
    ASSUME RefInv, NEW l \in Lists, OnlyList(l),
           \A r \in References : r[1] = l /\ back_references'[r] > 0 => Real(r)'
    PROVE  RefInv'
<1> USE DEF RefInv, OnlyList
<1>1. l \in Things /\ l \notin Datums
  BY ReferenceAssumption DEF Things
<1>2. RefTypes'
  BY <1>1 DEF RefTypes
<1>3. DeadHoldNothing'
  BY <1>1 DEF DeadHoldNothing
<1>4. AllReal'
  <2> SUFFICES ASSUME NEW r \in References, back_references'[r] > 0, r[1] # l
               PROVE  Real(r)'
    BY DEF AllReal
  <2>1. Real(r)
    BY DEF AllReal
  <2>2. QED
    BY <2>1 DEF Real, Holds
<1>5. WrittenKnown'
  <2> SUFFICES ASSUME NEW w \in written, w[1] \in live', field[w[1]][w[2]] # Null
               PROVE  back_references'[<<w[1], w[2], field[w[1]][w[2]]>>] >= 1
    BY DEF WrittenKnown
  <2>1. w[1] \in Datums /\ w[2] \in Names
    BY DEF RefTypes
  <2>2. w[1] # l /\ w[1] \in live
    BY <1>1, <2>1
  <2>3. field[w[1]][w[2]] \in Things
    BY <2>1 DEF RefTypes
  <2>4. <<w[1], w[2], field[w[1]][w[2]]>> \in References
    BY <2>1, <2>3 DEF References
  <2>5. QED
    BY <2>2, <2>4 DEF WrittenKnown
<1>6. QED
  BY <1>2, <1>3, <1>4, <1>5

(* Entries of the list l that are erased or added are OnlyList's.          *)
LEMMA TrackListKeeps ==
    ASSUME RefInv, NEW l \in Lists, NEW gone, NEW new, Track(gone, new),
           \A r \in gone \cup new : r[1] = l
    PROVE  /\ back_references' \in [References -> Nat] /\ MapsMirror'
           /\ \A r \in References :
                back_references'[r] = (IF r \in gone THEN 0 ELSE back_references[r])
                                      + (IF r \in new THEN 1 ELSE 0)
           /\ \A r \in References : r[1] # l => back_references'[r] = back_references[r]
<1>1. /\ back_references' \in [References -> Nat] /\ MapsMirror'
      /\ \A r \in References :
           back_references'[r] = (IF r \in gone THEN 0 ELSE back_references[r])
                                 + (IF r \in new THEN 1 ELSE 0)
  BY TrackKeeps DEF RefInv
<1>2. \A r \in References : r[1] # l => r \notin gone /\ r \notin new
  OBVIOUS
<1>3. QED
  BY <1>1, <1>2 DEF RefInv, RefTypes

LEMMA ContainsIs ==
    ASSUME NEW s, NEW x
    PROVE  Contains(s, x) <=> \E i \in 1 .. Len(s) : s[i] = x
BY DEF Contains

LEMMA ContainsAppend ==
    ASSUME NEW S, NEW s \in Seq(S), NEW v \in S, NEW x
    PROVE  Contains(Append(s, v), x) <=> Contains(s, x) \/ x = v
<1> DEFINE t == Append(s, v)
<1>1. Len(t) = Len(s) + 1 /\ t[Len(s) + 1] = v /\ \A i \in 1 .. Len(s) : t[i] = s[i]
  OBVIOUS
<1>2. Len(s) \in Nat
  OBVIOUS
<1> HIDE DEF t
<1>3. ASSUME Contains(s, x)
      PROVE  Contains(t, x)
  BY <1>1, <1>2, <1>3, ContainsIs
<1>4. ASSUME x = v
      PROVE  Contains(t, x)
  <2>1. Len(s) + 1 \in 1 .. Len(t)
    BY <1>1, <1>2
  <2>2. QED
    BY <1>1, <1>4, <2>1, ContainsIs
<1>5. ASSUME Contains(t, x), x # v
      PROVE  Contains(s, x)
  <2>1. PICK i \in 1 .. Len(t) : t[i] = x
    BY <1>5, ContainsIs
  <2>2. i \in 1 .. Len(s)
    BY <1>1, <1>2, <1>5, <2>1
  <2>3. s[i] = x
    BY <1>1, <2>1, <2>2
  <2>4. QED
    BY <2>2, <2>3, ContainsIs
<1>6. QED
  BY <1>3, <1>4, <1>5 DEF t

LEMMA AppendKeeps ==
    ASSUME RefInv, NEW l \in Lists, NEW v \in Things, Append_(l, v)
    PROVE  RefInv'
<1>1. /\ l \in live
      /\ Track({}, {<<l, In, v>>})
      /\ elements' = [elements EXCEPT ![l] = Append(elements[l], v)]
      /\ \A r \in unseen : r # <<l, In, v>> => r \in unseen'
      /\ UNCHANGED <<field, assoc, live, written>>
  BY DEF Append_, Note
<1>2. elements \in [Lists -> Seq(Things \cup {Null})] /\ assoc \in [Lists -> [Things -> Things \cup {Null}]]
      /\ back_references \in [References -> Nat]
  BY DEF RefInv, RefTypes
<1>3. /\ elements' \in [Lists -> Seq(Things \cup {Null})]
      /\ elements'[l] = Append(elements[l], v)
      /\ \A k \in Lists \ {l} : elements'[k] = elements[k]
  <2>1. Append(elements[l], v) \in Seq(Things \cup {Null})
    BY <1>2
  <2>2. QED
    BY <1>1, <1>2, <2>1
<1>4. /\ back_references' \in [References -> Nat] /\ MapsMirror'
      /\ \A r \in References :
           back_references'[r] = (IF r \in {} THEN 0 ELSE back_references[r])
                                 + (IF r \in {<<l, In, v>>} THEN 1 ELSE 0)
      /\ \A r \in References : r[1] # l => back_references'[r] = back_references[r]
  <2>1. \A r \in {} \cup {<<l, In, v>>} : r[1] = l
    OBVIOUS
  <2>2. QED
    BY <1>1, <2>1, TrackListKeeps
<1>5. OnlyList(l)
  BY <1>1, <1>2, <1>3, <1>4 DEF OnlyList
<1>6. ASSUME NEW r \in References, r[1] = l, back_references'[r] > 0
      PROVE  Real(r)'
  <2>1. CASE r = <<l, In, v>>
    <3>1. elements[l] \in Seq(Things \cup {Null})
      BY <1>2
    <3>2. Contains(elements'[l], v)
      BY <1>3, <3>1, ContainsAppend
    <3>3. QED
      BY <2>1, <3>2 DEF Real, Holds
  <2>2. CASE r # <<l, In, v>>
    <3>1. back_references[r] > 0
      BY <1>2, <1>4, <1>6, <2>2
    <3>2. Real(r) /\ l \notin Datums
      BY <3>1, ReferenceAssumption DEF RefInv, AllReal
    <3>3. Contains(elements[l], r[3]) => Contains(elements'[l], r[3])
      <4>1. elements[l] \in Seq(Things \cup {Null}) /\ v \in Things \cup {Null}
        BY <1>2
      <4>2. QED
        BY <1>3, <4>1, ContainsAppend
    <3>4. QED
      BY <1>1, <1>6, <2>2, <3>2, <3>3 DEF Real, Holds
  <2>3. QED
    BY <2>1, <2>2
<1>7. QED
  BY <1>5, <1>6, OnlyListKeeps

-----------------------------------------------------------------------------
LEMMA LastExists ==
    ASSUME NEW n \in Nat, NEW I, I \subseteq 1 .. n, I # {}
    PROVE  Max(I) \in I
<1> DEFINE D == {k \in Nat : n - k \in I}
<1>1. D # {}
  <2>1. PICK i : i \in I
    OBVIOUS
  <2>2. i \in 1 .. n
    BY <2>1
  <2>3. n - i \in Nat /\ n - (n - i) = i
    BY <2>2
  <2>4. QED
    BY <2>1, <2>3
<1>2. PICK k \in D : \A j \in D : ~ (j < k)
  <2>1. IsWellFoundedOn(OpToRel(<, Nat), Nat)
    BY NatLessThanWellFounded
  <2>2. D \subseteq Nat
    OBVIOUS
  <2> HIDE DEF D
  <2>3. \E k \in D : \A j \in D : <<j, k>> \notin OpToRel(<, Nat)
    BY <1>1, <2>1, <2>2, WFMin
  <2>4. QED
    BY <2>2, <2>3 DEF OpToRel
<1>3. n - k \in I /\ k \in Nat
  OBVIOUS
<1>4. \A i \in I : n - k >= i
  <2> SUFFICES ASSUME NEW i \in I
               PROVE  n - k >= i
    OBVIOUS
  <2>1. i \in 1 .. n
    OBVIOUS
  <2>2. n - i \in Nat /\ n - (n - i) = i
    BY <2>1
  <2>3. n - i \in D
    BY <2>2
  <2>4. ~ (n - i < k)
    BY <1>2, <2>3
  <2>5. QED
    BY <1>3, <2>1, <2>4
<1>5. QED
  BY <1>3, <1>4 DEF Max

LEMMA LastOfFinds ==
    ASSUME RefTypes, NEW l \in Lists, NEW v, LastOf(l, v) # 0
    PROVE  LastOf(l, v) \in 1 .. Len(elements[l]) /\ elements[l][LastOf(l, v)] = v
<1> DEFINE I == {i \in 1 .. Len(elements[l]) : elements[l][i] = v}
<1>1. LastOf(l, v) = IF I # {} THEN Max(I) ELSE 0
  BY DEF LastOf, SelectLastInSeq
<1>2. I # {}
  BY <1>1
<1>3. Len(elements[l]) \in Nat
  BY DEF RefTypes
<1>4. I \subseteq 1 .. Len(elements[l])
  OBVIOUS
<1>5. \A i \in I : elements[l][i] = v
  OBVIOUS
<1> HIDE DEF I
<1>6. Max(I) \in I
  BY <1>2, <1>3, <1>4, LastExists
<1>7. QED
  BY <1>1, <1>2, <1>4, <1>5, <1>6

(* What is not at the place that is removed stays in the sequence.         *)
LEMMA RemoveAtContains ==
    ASSUME NEW S, NEW s \in Seq(S), NEW i \in 1 .. Len(s)
    PROVE  /\ RemoveAt(s, i) \in Seq(S)
           /\ \A x : x # s[i] => (Contains(s, x) => Contains(RemoveAt(s, i), x))
<1> DEFINE a == SubSeq(s, 1, i - 1)
           b == SubSeq(s, i + 1, Len(s))
<1>1. a \in Seq(S) /\ Len(a) = i - 1 /\ \A j \in 1 .. i - 1 : a[j] = s[j]
  OBVIOUS
<1>2. b \in Seq(S) /\ Len(b) = Len(s) - i
      /\ \A j \in 1 .. Len(s) - i : b[j] = s[i + j]
  OBVIOUS
<1>3. RemoveAt(s, i) = a \o b
  BY DEF RemoveAt
<1> HIDE DEF a, b
<1>4. /\ a \o b \in Seq(S) /\ Len(a \o b) = Len(a) + Len(b)
      /\ \A j \in 1 .. Len(a) : (a \o b)[j] = a[j]
      /\ \A j \in 1 .. Len(b) : (a \o b)[Len(a) + j] = b[j]
  <2>1. a \in Seq(S) /\ b \in Seq(S)
    BY <1>1, <1>2
  <2>2. Len(a) \in Nat /\ Len(b) \in Nat
    BY <2>1
  <2>3. /\ a \o b \in Seq(S) /\ Len(a \o b) = Len(a) + Len(b)
        /\ \A j \in 1 .. Len(a) + Len(b) :
             (a \o b)[j] = IF j <= Len(a) THEN a[j] ELSE b[j - Len(a)]
    BY <2>1, ConcatProperties
  <2> DEFINE c == a \o b
             m == Len(a)
             n == Len(b)
  <2> HIDE DEF c, m, n
  <2>4. /\ m \in Nat /\ n \in Nat
        /\ \A j \in 1 .. m + n : c[j] = IF j <= m THEN a[j] ELSE b[j - m]
    BY <2>2, <2>3 DEF c, m, n
  <2>5. /\ \A j \in 1 .. m : c[j] = a[j]
        /\ \A j \in 1 .. n : c[m + j] = b[j]
    BY <2>4
  <2>6. QED
    BY <2>3, <2>5 DEF c, m, n
<1> DEFINE n == Len(s)
<1>5. n \in Nat /\ i \in 1 .. n /\ Len(a) = i - 1 /\ Len(b) = n - i
      /\ Len(a \o b) = n - 1
  BY <1>1, <1>2, <1>4
<1>6. ASSUME NEW x, x # s[i], Contains(s, x)
      PROVE  Contains(a \o b, x)
  <2>1. PICK j \in 1 .. n : s[j] = x
    BY <1>6, ContainsIs
  <2>2. j # i
    BY <1>6, <2>1
  <2> HIDE DEF n
  <2>3. CASE j < i
    <3>1. j \in 1 .. i - 1 /\ j \in 1 .. n - 1
      BY <1>5, <2>1, <2>3
    <3>2. (a \o b)[j] = x
      BY <1>1, <1>4, <1>5, <2>1, <3>1
    <3>3. QED
      BY <1>5, <3>1, <3>2, ContainsIs
  <2>4. CASE ~ (j < i)
    <3>1. j - i \in 1 .. n - i /\ (i - 1) + (j - i) = j - 1 /\ i + (j - i) = j
          /\ j - 1 \in 1 .. n - 1
      BY <1>5, <2>1, <2>2, <2>4
    <3>2. b[j - i] = x
      BY <1>2, <2>1, <3>1 DEF n
    <3>3. (a \o b)[Len(a) + (j - i)] = x
      BY <1>4, <1>5, <3>1, <3>2
    <3>4. (a \o b)[j - 1] = x
      BY <1>5, <3>1, <3>3
    <3>5. QED
      BY <1>5, <3>1, <3>4, ContainsIs
  <2>5. QED
    BY <2>3, <2>4
<1>7. QED
  BY <1>3, <1>4, <1>6

LEMMA RemoveKeeps ==
    ASSUME RefInv, NEW l \in Lists, NEW v \in Things, RemoveFromContainer(l, v)
    PROVE  RefInv'
<1> DEFINE kept == RemoveAt(elements[l], LastOf(l, v))
<1>1. /\ l \in live
      /\ Track(Held(l, v), {})
      /\ UNCHANGED <<field, live, written>>
  BY DEF RemoveFromContainer, Forget
<1>2. /\ elements \in [Lists -> Seq(Things \cup {Null})]
      /\ assoc \in [Lists -> [Things -> Things \cup {Null}]]
      /\ back_references \in [References -> Nat]
  BY DEF RefInv, RefTypes
<1>3. \/ UNCHANGED <<elements, assoc>> /\ Note({}, Held(l, v))
      \/ /\ LastOf(l, v) # 0
         /\ elements' = [elements EXCEPT ![l] = kept]
         /\ \/ UNCHANGED assoc /\ Note({}, Held(l, v))
            \/ assoc' = [assoc EXCEPT ![l][v] = Null] /\ Note(Ended, Held(l, v))
  BY DEF RemoveFromContainer
<1>4. LastOf(l, v) # 0 =>
        /\ kept \in Seq(Things \cup {Null})
        /\ \A x : x # v => (Contains(elements[l], x) => Contains(kept, x))
  <2> SUFFICES ASSUME LastOf(l, v) # 0
               PROVE  /\ kept \in Seq(Things \cup {Null})
                      /\ \A x : x # v => (Contains(elements[l], x) => Contains(kept, x))
    OBVIOUS
  <2>1. elements[l] \in Seq(Things \cup {Null}) /\ LastOf(l, v) \in 1 .. Len(elements[l])
        /\ elements[l][LastOf(l, v)] = v
    BY <1>2, LastOfFinds DEF RefInv
  <2>2. QED
    BY <2>1, RemoveAtContains
<1> HIDE DEF kept
<1>5. /\ elements' \in [Lists -> Seq(Things \cup {Null})]
      /\ \A x : x # v => (Contains(elements[l], x) => Contains(elements'[l], x))
      /\ \A k \in Lists \ {l} : elements'[k] = elements[k]
  BY <1>2, <1>3, <1>4
<1>6. /\ assoc' \in [Lists -> [Things -> Things \cup {Null}]]
      /\ \A k \in Lists \ {l} : assoc'[k] = assoc[k]
      /\ UNCHANGED assoc \/ Note(Ended, Held(l, v))
      /\ \A r \in unseen : r \notin Held(l, v) => r \in unseen'
  <2>1. CASE assoc' = [assoc EXCEPT ![l][v] = Null] /\ Note(Ended, Held(l, v))
    BY <1>2, <2>1 DEF Note
  <2>2. CASE UNCHANGED assoc /\ Note({}, Held(l, v))
    BY <1>2, <2>2 DEF Note
  <2>3. QED
    BY <1>3, <2>1, <2>2
<1>7. /\ back_references' \in [References -> Nat] /\ MapsMirror'
      /\ \A r \in References :
           back_references'[r] = (IF r \in Held(l, v) THEN 0 ELSE back_references[r])
                                 + (IF r \in {} THEN 1 ELSE 0)
      /\ \A r \in References : r[1] # l => back_references'[r] = back_references[r]
  <2>1. \A r \in Held(l, v) \cup {} : r[1] = l
    BY DEF Held
  <2>2. QED
    BY <1>1, <2>1, TrackListKeeps
<1>8. OnlyList(l)
  BY <1>1, <1>5, <1>6, <1>7 DEF OnlyList, Held
<1>9. ASSUME NEW r \in References, r[1] = l, back_references'[r] > 0
      PROVE  Real(r)'
  <2>1. r \notin Held(l, v) /\ back_references[r] > 0
    BY <1>2, <1>7, <1>9
  <2>2. r[3] # v
    BY <1>9, <2>1 DEF Held
  <2>3. Real(r) /\ l \notin Datums
    BY <2>1, ReferenceAssumption DEF RefInv, AllReal
  <2>4. CASE UNCHANGED assoc
    BY <1>5, <1>6, <1>9, <2>1, <2>2, <2>3, <2>4 DEF Real, Holds
  <2>5. CASE Note(Ended, Held(l, v))
    <3>1. r \in Ended => r \in unseen'
      BY <2>1, <2>5 DEF Note
    <3>2. Holds(r) => r \in Ended \/ Holds(r)'
      BY DEF Ended
    <3>3. QED
      BY <1>6, <2>1, <2>3, <3>1, <3>2 DEF Real
  <2>6. QED
    BY <1>6, <2>4, <2>5
<1>10. QED
  BY <1>8, <1>9, OnlyListKeeps

LEMMA SetAssocKeeps ==
    ASSUME RefInv, NEW l \in Lists, NEW k \in Things, NEW v \in Things \cup {Null},
           SetAssocElement(l, k, v)
    PROVE  RefInv'
<1> DEFINE old == assoc[l][k]
           new == {r \in References : r = <<l, In, v>>}
<1>1. /\ l \in live
      /\ Track(Held(l, old), new)
      /\ assoc' = [assoc EXCEPT ![l][k] = v]
      /\ \/ UNCHANGED elements
         \/ elements' = [elements EXCEPT ![l] = Append(elements[l], k)]
      /\ \A r \in unseen : r \notin Held(l, old) \cup Held(l, v) => r \in unseen'
      /\ UNCHANGED <<field, live, written>>
  BY DEF SetAssocElement, Note
<1>2. /\ elements \in [Lists -> Seq(Things \cup {Null})]
      /\ assoc \in [Lists -> [Things -> Things \cup {Null}]]
      /\ back_references \in [References -> Nat]
  BY DEF RefInv, RefTypes
<1>3. /\ elements' \in [Lists -> Seq(Things \cup {Null})]
      /\ \A x : Contains(elements[l], x) => Contains(elements'[l], x)
      /\ \A m \in Lists \ {l} : elements'[m] = elements[m]
  <2>1. elements[l] \in Seq(Things \cup {Null})
    BY <1>2
  <2>2. /\ Append(elements[l], k) \in Seq(Things \cup {Null})
        /\ \A x : Contains(elements[l], x) => Contains(Append(elements[l], k), x)
    BY <2>1, ContainsAppend
  <2>3. QED
    BY <1>1, <1>2, <2>2
<1>4. /\ assoc' \in [Lists -> [Things -> Things \cup {Null}]]
      /\ \A m \in Lists \ {l} : assoc'[m] = assoc[m]
      /\ assoc'[l][k] = v
      /\ \A j \in Things \ {k} : assoc'[l][j] = assoc[l][j]
  BY <1>1, <1>2
<1>5. /\ back_references' \in [References -> Nat] /\ MapsMirror'
      /\ \A r \in References :
           back_references'[r] = (IF r \in Held(l, old) THEN 0 ELSE back_references[r])
                                 + (IF r \in new THEN 1 ELSE 0)
      /\ \A r \in References : r[1] # l => back_references'[r] = back_references[r]
  <2>1. \A r \in Held(l, old) \cup new : r[1] = l
    BY DEF Held
  <2> HIDE DEF new
  <2>2. QED
    BY <1>1, <2>1, TrackListKeeps
<1>6. OnlyList(l)
  BY <1>1, <1>3, <1>4, <1>5 DEF OnlyList, Held
<1>7. ASSUME NEW r \in References, r[1] = l, back_references'[r] > 0
      PROVE  Real(r)'
  <2>1. CASE r \in new
    <3>1. r[3] = v
      BY <2>1
    <3>2. QED
      BY <1>4, <1>7, <3>1 DEF Real, Holds
  <2>2. CASE r \notin new
    <3>1. r \notin Held(l, old) /\ back_references[r] > 0
      BY <1>2, <1>5, <1>7, <2>2
    <3>2. r[3] # old
      BY <1>7, <3>1 DEF Held
    <3>3. Real(r) /\ l \notin Datums
      BY <1>7, <3>1, ReferenceAssumption DEF RefInv, AllReal
    <3> HIDE DEF new
    <3>4. CASE \E j \in Things : assoc[l][j] = r[3]
      <4>1. PICK j \in Things : assoc[l][j] = r[3]
        BY <3>4
      <4>2. j # k
        BY <3>2, <4>1
      <4>3. assoc'[l][j] = r[3]
        BY <1>4, <4>1, <4>2
      <4>4. QED
        BY <1>7, <4>3 DEF Real, Holds
    <3>5. CASE Contains(elements[l], r[3])
      BY <1>3, <1>7, <3>5 DEF Real, Holds
    <3>6. CASE r[3] = v
      BY <1>4, <1>7, <3>6 DEF Real, Holds
    <3>7. CASE r \in unseen /\ r[3] # v
      BY <1>1, <3>2, <3>7 DEF Real, Held
    <3>8. QED
      BY <1>7, <3>3, <3>4, <3>5, <3>6, <3>7 DEF Real, Holds
  <2>3. QED
    BY <2>1, <2>2
<1>8. QED
  BY <1>6, <1>7, OnlyListKeeps

(* A list that begins to exist, whose entries are those of its elements.   *)
LEMMA FreshKeeps ==
    ASSUME RefInv, NEW l \in Lists \ live, NEW s \in Seq(Things),
           elements' = [elements EXCEPT ![l] = s],
           live' = live \cup {l},
           UNCHANGED <<field, assoc, written, unseen>>,
           back_references' \in [References -> Nat], MapsMirror',
           \A r \in References : r[1] # l => back_references'[r] = back_references[r],
           \A r \in References : r[1] = l /\ back_references'[r] > 0 =>
               back_references[r] > 0 \/ Contains(s, r[3])
    PROVE  RefInv'
<1>1. s \in Seq(Things \cup {Null})
  <2>1. Len(s) \in Nat /\ s \in [1 .. Len(s) -> Things]
    OBVIOUS
  <2>2. s \in [1 .. Len(s) -> Things \cup {Null}]
    BY <2>1
  <2>3. QED
    BY <2>1, <2>2
<1>2. /\ elements \in [Lists -> Seq(Things \cup {Null})]
      /\ assoc \in [Lists -> [Things -> Things \cup {Null}]]
  BY DEF RefInv, RefTypes
<1>3. OnlyList(l)
  BY <1>1, <1>2 DEF OnlyList
<1>4. ASSUME NEW r \in References, r[1] = l, back_references'[r] > 0
      PROVE  Real(r)'
  <2>1. back_references[r] = 0
    BY <1>4 DEF RefInv, DeadHoldNothing
  <2>2. Contains(s, r[3])
    BY <1>4, <2>1
  <2>3. elements'[l] = s
    BY <1>2
  <2>4. QED
    BY <1>4, <2>2, <2>3 DEF Real, Holds
<1>5. QED
  BY <1>3, <1>4, OnlyListKeeps

(* How often a list has a value.                                           *)
LEMMA Occurrences ==
    ASSUME NEW s \in Seq(Things), NEW v
    PROVE  /\ Cardinality({i \in DOMAIN s : s[i] = v}) \in Nat
           /\ Cardinality({i \in DOMAIN s : s[i] = v}) > 0 => Contains(s, v)
<1> DEFINE at == {i \in DOMAIN s : s[i] = v}
<1>1. Len(s) \in Nat /\ DOMAIN s = 1 .. Len(s)
  OBVIOUS
<1>2. IsFiniteSet(1 .. Len(s))
  BY <1>1, FS_Interval
<1>3. at \subseteq 1 .. Len(s) /\ (at # {} => \E i \in 1 .. Len(s) : s[i] = v)
  BY <1>1
<1> HIDE DEF at
<1>4. IsFiniteSet(at)
  BY <1>2, <1>3, FS_Subset
<1>5. Cardinality(at) \in Nat /\ (Cardinality(at) = 0 <=> at = {})
  BY <1>4, FS_CardinalityType, FS_EmptySet
<1>6. Cardinality(at) > 0 => Contains(s, v)
  BY <1>3, <1>5, ContainsIs
<1>7. QED
  BY <1>5, <1>6 DEF at

LEMMA InitializeKeeps ==
    ASSUME RefInv, NEW l \in Lists, NEW s \in Seq(Things), InitializeList(l, s)
    PROVE  RefInv'
<1> DEFINE count(v) == Cardinality({i \in DOMAIN s : s[i] = v})
<1>1. \A v : count(v) \in Nat /\ (count(v) > 0 => Contains(s, v))
  BY Occurrences
<1> HIDE DEF count
<1>2. /\ l \notin live
      /\ back_references' =
           [r \in References |-> back_references[r] + IF r[1] = l THEN count(r[3]) ELSE 0]
      /\ forward_references' =
           [r \in References |-> forward_references[r] + IF r[1] = l THEN count(r[3]) ELSE 0]
      /\ elements' = [elements EXCEPT ![l] = s]
      /\ live' = live \cup {l}
      /\ UNCHANGED <<field, assoc, written, unseen>>
  BY DEF InitializeList, count
<1>3. back_references \in [References -> Nat] /\ MapsMirror
  BY DEF RefInv, RefTypes
<1>4. back_references' \in [References -> Nat] /\ MapsMirror'
  BY <1>1, <1>2, <1>3 DEF MapsMirror
<1>5. \A r \in References : r[1] # l => back_references'[r] = back_references[r]
  BY <1>2, <1>3
<1>6. \A r \in References : r[1] = l /\ back_references'[r] > 0 =>
        back_references[r] > 0 \/ Contains(s, r[3])
  BY <1>1, <1>2, <1>3
<1>7. QED
  BY <1>2, <1>4, <1>5, <1>6, FreshKeeps

LEMMA GetBackReferencesKeeps ==
    ASSUME RefInv, NEW l \in Lists, NEW v \in Things, GetBackReferences(l, v)
    PROVE  RefInv'
<1> DEFINE holders == {h \in Things : \E r \in References :
                         r[1] = h /\ r[3] = v /\ back_references[r] > 0}
<1>1. /\ l \notin live
      /\ UNCHANGED tracking
      /\ live' = live \cup {l}
      /\ UNCHANGED <<field, assoc, written, unseen>>
  BY DEF GetBackReferences, Exported
<1>2. PICK s \in SetToSeqs(holders) : elements' = [elements EXCEPT ![l] = s]
  BY DEF GetBackReferences
<1>3. s \in Seq(Things)
  <2>1. holders \subseteq Things
    OBVIOUS
  <2> HIDE DEF holders
  <2>2. IsFiniteSet(holders)
    BY <2>1, ReferenceAssumption, FS_Subset
  <2>3. Cardinality(holders) \in Nat
    BY <2>2, FS_CardinalityType
  <2>4. s \in [1 .. Cardinality(holders) -> holders]
    BY <1>2 DEF SetToSeqs
  <2>5. QED
    BY <2>1, <2>3, <2>4
<1>4. /\ back_references \in [References -> Nat] /\ MapsMirror
      /\ back_references' = back_references /\ forward_references' = forward_references
  BY <1>1 DEF RefInv, RefTypes, tracking
<1>5. QED
  BY <1>1, <1>2, <1>3, <1>4, FreshKeeps DEF MapsMirror

(* The other maps of what goes are found through its own.                  *)
LEMMA ForgetHolderErases ==
    ASSUME RefInv, NEW x, ForgetHolder(x)
    PROVE  /\ back_references' =
                [r \in References |-> IF r[1] = x THEN 0 ELSE back_references[r]]
           /\ MapsMirror'
<1> DEFINE known == {r \in References : r[1] = x /\ forward_references[r] > 0}
           found(r) == \E q \in known : r \in Held(x, q[3])
<1>1. /\ back_references' =
           [r \in References |-> IF found(r) THEN 0 ELSE back_references[r]]
      /\ forward_references' =
           [r \in References |-> IF r[1] = x THEN 0 ELSE forward_references[r]]
  BY DEF ForgetHolder
<1>2. back_references \in [References -> Nat] /\ back_references = forward_references
  BY DEF RefInv, RefTypes, MapsMirror
<1>3. \A r \in References : found(r) => r[1] = x
  BY DEF Held
<1>4. ASSUME NEW r \in References, r[1] = x
      PROVE  found(r) \/ back_references[r] = 0
  <2>1. back_references[r] > 0 => r \in known /\ r \in Held(x, r[3])
    BY <1>2, <1>4 DEF Held
  <2>2. QED
    BY <1>2, <2>1
<1> HIDE DEF found
<1>5. back_references' = [r \in References |-> IF r[1] = x THEN 0 ELSE back_references[r]]
  BY <1>1, <1>2, <1>3, <1>4
<1>6. QED
  BY <1>1, <1>2, <1>5 DEF MapsMirror

(* What BYOND does to a list behind the hooks is noted.                    *)
LEMMA ChangeUnhookedKeeps ==
    ASSUME RefInv, NEW l \in Lists, ChangeUnhooked(l)
    PROVE  RefInv'
<1>1. PICK s \in Rewritten(l) :
        /\ elements' = [elements EXCEPT ![l] = s]
        /\ assoc' = [assoc EXCEPT ![l] =
                       [k \in Things |-> IF Contains(s, k) THEN assoc[l][k] ELSE Null]]
  BY DEF ChangeUnhooked
<1>2. l \in live /\ UNCHANGED <<field, live, back_references, forward_references, written>>
  BY DEF ChangeUnhooked, tracking
<1>3. /\ live \subseteq Things
      /\ elements \in [Lists -> Seq(Things \cup {Null})]
      /\ assoc \in [Lists -> [Things -> Things \cup {Null}]]
      /\ back_references \in [References -> Nat]
  BY DEF RefInv, RefTypes
<1>4. \A r \in References : (r \in unseen \/ (r \in Ended /\ back_references[r] > 0)) =>
        r \in unseen'
  BY DEF ChangeUnhooked, Note
<1>5. s \in Seq(Things \cup {Null})
  <2> DEFINE e == elements[l]
  <2>1. e \in Seq(Things \cup {Null}) /\ Len(e) \in Nat /\ DOMAIN e = 1 .. Len(e)
    BY <1>3
  <2>2. \A i \in 0 .. Len(e) - 1 : SubSeq(e, 1, i) \in Seq(Things \cup {Null})
    BY <2>1
  <2>3. \A i \in DOMAIN e, v \in Things \cup {Null} :
          ReplaceAt(e, i, v) \in Seq(Things \cup {Null})
    <3> SUFFICES ASSUME NEW i \in DOMAIN e, NEW v \in Things \cup {Null}
                 PROVE  [e EXCEPT ![i] = v] \in Seq(Things \cup {Null})
      BY DEF ReplaceAt
    <3> HIDE DEF e
    <3>1. [e EXCEPT ![i] = v] \in [1 .. Len(e) -> Things \cup {Null}]
      BY <2>1
    <3>2. QED
      BY <2>1, <3>1
  <2>4. \/ \E i \in 0 .. Len(e) - 1 : s = SubSeq(e, 1, i)
        \/ \E i \in DOMAIN e, v \in live \cup {Null} : s = ReplaceAt(e, i, v)
    BY DEF Rewritten
  <2>5. live \cup {Null} \subseteq Things \cup {Null}
    BY <1>3
  <2> HIDE DEF e
  <2>6. QED
    BY <2>2, <2>3, <2>4, <2>5
<1>6. OnlyList(l)
  <2>1. elements' \in [Lists -> Seq(Things \cup {Null})]
    BY <1>1, <1>3, <1>5
  <2>2. assoc' \in [Lists -> [Things -> Things \cup {Null}]]
    BY <1>1, <1>3
  <2>3. MapsMirror'
    BY <1>2 DEF RefInv, MapsMirror
  <2>4. QED
    BY <1>1, <1>2, <1>3, <1>4, <2>1, <2>2, <2>3 DEF OnlyList
<1>7. ASSUME NEW r \in References, r[1] = l, back_references'[r] > 0
      PROVE  Real(r)'
  <2>1. Real(r) /\ back_references[r] > 0
    BY <1>2, <1>7 DEF RefInv, AllReal
  <2>2. Holds(r) => r \in Ended \/ Holds(r)'
    BY DEF Ended
  <2>3. QED
    BY <1>4, <2>1, <2>2 DEF Real
<1>8. QED
  BY <1>6, <1>7, OnlyListKeeps

LEMMA DestroyKeeps ==
    ASSUME RefInv, NEW x \in Things, Destroy(x)
    PROVE  RefInv'
<1> USE DEF RefInv
<1>1. /\ ForgetHolder(x)
      /\ field' = [d \in Datums |-> [n \in Names |->
                     IF x \in {d, field[d][n]} THEN Null ELSE field[d][n]]]
      /\ elements' = [l \in Lists |-> IF l = x THEN <<>> ELSE
                        [i \in DOMAIN elements[l] |->
                           IF elements[l][i] = x THEN Null ELSE elements[l][i]]]
      /\ assoc' = [l \in Lists |-> [k \in Things |->
                     IF x \in {l, k, assoc[l][k]} THEN Null ELSE assoc[l][k]]]
      /\ live' = live \ {x}
      /\ UNCHANGED written
  BY DEF Destroy
<1>2. /\ back_references' = [r \in References |-> IF r[1] = x THEN 0 ELSE back_references[r]]
      /\ MapsMirror'
  BY <1>1, ForgetHolderErases
<1>3. RefTypes'
  <2>1. back_references' \in [References -> Nat]
    BY <1>2 DEF RefTypes
  <2>2. elements' \in [Lists -> Seq(Things \cup {Null})]
    <3> SUFFICES ASSUME NEW l \in Lists
                 PROVE  elements'[l] \in Seq(Things \cup {Null})
      BY <1>1
    <3>1. CASE l = x
      <4>1. <<>> \in Seq(Things \cup {Null})
        OBVIOUS
      <4>2. QED
        BY <1>1, <3>1, <4>1
    <3>2. CASE l # x
      <4> DEFINE e == elements[l]
                 f == [i \in DOMAIN e |-> IF e[i] = x THEN Null ELSE e[i]]
      <4>1. e \in Seq(Things \cup {Null})
        BY DEF RefTypes
      <4>2. Len(e) \in Nat /\ DOMAIN e = 1 .. Len(e)
            /\ \A i \in DOMAIN e : e[i] \in Things \cup {Null}
        BY <4>1
      <4>3. f \in [1 .. Len(e) -> Things \cup {Null}]
        BY <4>2
      <4>4. elements'[l] = f
        BY <1>1, <3>2
      <4> HIDE DEF e, f
      <4>5. f \in Seq(Things \cup {Null})
        BY <4>2, <4>3
      <4>6. QED
        BY <4>4, <4>5
    <3>3. QED
      BY <3>1, <3>2
  <2>3. field' \in [Datums -> [Names -> Things \cup {Null}]]
    BY <1>1 DEF RefTypes
  <2>4. assoc' \in [Lists -> [Things -> Things \cup {Null}]]
    BY <1>1 DEF RefTypes
  <2>5. QED
    BY <1>1, <2>1, <2>2, <2>3, <2>4 DEF RefTypes
<1>4. DeadHoldNothing'
  BY <1>1, <1>2 DEF DeadHoldNothing
<1>5. AllReal'
  <2> SUFFICES ASSUME NEW r \in References, back_references'[r] > 0
               PROVE  Real(r)'
    BY DEF AllReal
  <2>1. r[1] # x /\ back_references[r] > 0
    BY <1>2
  <2>2. Real(r)
    BY <2>1 DEF AllReal
  <2>3. r \in unseen \/ r \in Ended => r \in unseen'
    BY <2>1 DEF Destroy, Note
  <2>4. Holds(r) => r \in Ended \/ Holds(r)'
    BY DEF Ended
  <2>5. QED
    BY <2>2, <2>3, <2>4 DEF Real
<1>6. WrittenKnown'
  <2> SUFFICES ASSUME NEW w \in written, w[1] \in live', field'[w[1]][w[2]] # Null
               PROVE  back_references'[<<w[1], w[2], field'[w[1]][w[2]]>>] >= 1
    BY <1>1 DEF WrittenKnown
  <2>1. w[1] \in Datums /\ w[2] \in Names /\ w[1] # x /\ w[1] \in live
    BY <1>1 DEF RefTypes
  <2>2. field'[w[1]][w[2]] = field[w[1]][w[2]] /\ field[w[1]][w[2]] \in Things
    BY <1>1, <2>1 DEF RefTypes
  <2>3. <<w[1], w[2], field[w[1]][w[2]]>> \in References
    BY <2>1, <2>2 DEF References
  <2>4. QED
    BY <1>2, <2>1, <2>2, <2>3 DEF WrittenKnown
<1>7. QED
  BY <1>2, <1>3, <1>4, <1>5, <1>6

(* A datum that takes the number of a destroyed one has none of its        *)
(* references.                                                             *)
LEMMA NewKeeps ==
    ASSUME RefInv, NEW d \in Datums, New(d)
    PROVE  RefInv'
<1> USE DEF RefInv
<1>1. /\ d \notin live /\ live' = live \cup {d}
      /\ UNCHANGED <<field, elements, assoc, back_references, forward_references,
                     written, unseen>>
  BY DEF New, tracking
<1>2. RefTypes' /\ DeadHoldNothing' /\ MapsMirror'
  BY <1>1 DEF RefTypes, DeadHoldNothing, MapsMirror, Things
<1>3. AllReal'
  BY <1>1 DEF AllReal, Real, Holds
<1>4. WrittenKnown'
  BY <1>1 DEF WrittenKnown, DeadHoldNothing, RefTypes
<1>5. QED
  BY <1>2, <1>3, <1>4

LEMMA ReferencesStep == RefInv /\ [ReferencesNext]_referenceVars => RefInv'
<1> SUFFICES ASSUME RefInv, [ReferencesNext]_referenceVars
             PROVE  RefInv'
  OBVIOUS
<1>1. ASSUME NEW d \in Datums, New(d)
      PROVE  RefInv'
  BY <1>1, NewKeeps
<1>2. ASSUME NEW d \in Datums, NEW n \in Names, NEW v \in Things \cup {Null},
             SetVariable(d, n, v)
      PROVE  RefInv'
  BY <1>2, SetVariableKeeps
<1>3. ASSUME NEW l \in Lists, NEW v \in Things, Append_(l, v)
      PROVE  RefInv'
  BY <1>3, AppendKeeps
<1>4. ASSUME NEW l \in Lists, NEW v \in Things, RemoveFromContainer(l, v)
      PROVE  RefInv'
  BY <1>4, RemoveKeeps
<1>5. ASSUME NEW l \in Lists, NEW v \in Things, GetBackReferences(l, v)
      PROVE  RefInv'
  BY <1>5, GetBackReferencesKeeps
<1>6. ASSUME NEW l \in Lists, NEW k \in Things, NEW v \in Things \cup {Null},
             SetAssocElement(l, k, v)
      PROVE  RefInv'
  BY <1>6, SetAssocKeeps
<1>7. ASSUME NEW l \in Lists, NEW n \in 0 .. MaxLength, NEW s \in [1 .. n -> Things],
             InitializeList(l, s)
      PROVE  RefInv'
  <2>1. s \in Seq(Things)
    OBVIOUS
  <2>2. QED
    BY <1>7, <2>1, InitializeKeeps
<1>8. ASSUME NEW x \in Things, Destroy(x)
      PROVE  RefInv'
  BY <1>8, DestroyKeeps
<1>9. ASSUME NEW l \in Lists, ChangeUnhooked(l)
      PROVE  RefInv'
  BY <1>9, ChangeUnhookedKeeps
<1>10. CASE UNCHANGED referenceVars
  BY <1>10 DEF referenceVars, heap, tracking, RefInv, RefTypes, DeadHoldNothing,
       MapsMirror, AllReal, Real, Holds, WrittenKnown
<1>11. QED
  BY <1>1, <1>2, <1>3, <1>4, <1>5, <1>6, <1>7, <1>8, <1>9, <1>10 DEF ReferencesNext

LEMMA ReferencesInvariance == ReferencesSpec => []RefInv
BY ReferencesInitially, ReferencesStep, PTL DEF ReferencesSpec

(* The seven hooks and get_back_references: what is exported of a holder   *)
(* is true unless it ended behind the hooks (by del of what was held, by a *)
(* cut, an index write, a key that went with its value) and no hook has    *)
(* erased it since; a holder that was destroyed has no entry left; and of  *)
(* what was written nothing is missing.                                    *)
THEOREM TrackingIsTrue == ReferencesSpec => []TrackedIsReal
<1>1. RefInv => TrackedIsReal
  BY DEF RefInv, TrackedIsReal, AllReal, Real, WrittenKnown
<1>2. QED
  BY <1>1, ReferencesInvariance, PTL

-----------------------------------------------------------------------------
(***************************************************************************)
(* Extended profiling.  A profile that runs has a context that runs, one   *)
(* that sleeps has a context that sleeps (if none was killed): so a proc   *)
(* without contexts has no profile, and the context that starts alone gets *)
(* one it keeps up to its end.                                             *)
(***************************************************************************)
ProfileType ==
  /\ profiles \in [Procs -> Nat] /\ sleeping_profiles \in [Procs -> Nat]
  /\ next_profile_id \in Nat \ {0}
  /\ running \in Seq(Contexts) /\ asleep \in Seq(Contexts)

\* Where contexts and profiles are.
ProfilesHaveContexts ==
  \A p \in Procs :
    /\ profiles[p] # 0 => \E i \in DOMAIN running : running[i].proc = p
    /\ sleeping_profiles[p] # 0 =>
         p \in killed \/ \E i \in DOMAIN asleep : asleep[i].proc = p

AloneIn(s) ==
  \A i, j \in DOMAIN s : s[i].alone /\ s[i].proc = s[j].proc => i = j

\* A context that is alone is the only one of its proc.
AloneMeansAlone ==
  /\ AloneIn(running) /\ AloneIn(asleep)
  /\ \A i \in DOMAIN running, j \in DOMAIN asleep :
       running[i].proc = asleep[j].proc => ~ running[i].alone /\ ~ asleep[j].alone

\* What was asked for and runs alone is being profiled.
WantedIsProfiled ==
  /\ \A i \in DOMAIN running :
       running[i].wanted /\ running[i].alone =>
         running[i].proc \in killed \/ profiles[running[i].proc] # 0
  /\ \A i \in DOMAIN asleep :
       asleep[i].wanted /\ asleep[i].alone =>
         asleep[i].proc \in killed \/ sleeping_profiles[asleep[i].proc] # 0

IdleHasNoCall == running = <<>> => new_call = NoProc

ProfileInv ==
  /\ ProfileType
  /\ NeverForgotten
  /\ ProfilesHaveContexts
  /\ AloneMeansAlone
  /\ WantedIsProfiled
  /\ IdleHasNoCall
  /\ RunsRecorded

-----------------------------------------------------------------------------
(* The operations on sequences, element by element.                        *)
LEMMA FrontElements ==
    ASSUME NEW s \in Seq(Contexts), s # <<>>
    PROVE  /\ Front(s) \in Seq(Contexts) /\ Len(Front(s)) = Len(s) - 1
           /\ \A i \in 1 .. Len(s) - 1 : Front(s)[i] = s[i]
           /\ Last(s) = s[Len(s)] /\ Last(s) \in Contexts
           /\ Len(s) \in DOMAIN s
<1>1. Len(s) \in Nat \ {0} /\ DOMAIN s = 1 .. Len(s)
  OBVIOUS
<1>2. s[Len(s)] \in Contexts
  BY <1>1
<1>3. /\ SubSeq(s, 1, Len(s) - 1) \in Seq(Contexts)
      /\ Len(SubSeq(s, 1, Len(s) - 1)) = Len(s) - 1
      /\ \A i \in 1 .. Len(s) - 1 : SubSeq(s, 1, Len(s) - 1)[i] = s[i]
  BY <1>1
<1>4. QED
  BY <1>1, <1>2, <1>3 DEF Front, Last

LEMMA RemoveAtElements ==
    ASSUME NEW s \in Seq(Contexts), NEW i \in DOMAIN s
    PROVE  /\ RemoveAt(s, i) \in Seq(Contexts)
           /\ Len(RemoveAt(s, i)) = Len(s) - 1
           /\ \A j \in DOMAIN RemoveAt(s, i) :
                RemoveAt(s, i)[j] = s[IF j < i THEN j ELSE j + 1]
<1> DEFINE a == SubSeq(s, 1, i - 1)
           b == SubSeq(s, i + 1, Len(s))
<1>1. a \in Seq(Contexts) /\ Len(a) = i - 1 /\ \A j \in 1 .. i - 1 : a[j] = s[j]
  OBVIOUS
<1>2. b \in Seq(Contexts) /\ Len(b) = Len(s) - i
      /\ \A j \in 1 .. Len(s) - i : b[j] = s[i + j]
  OBVIOUS
<1>3. RemoveAt(s, i) = a \o b
  BY DEF RemoveAt
<1> HIDE DEF a, b
<1>4. /\ a \o b \in Seq(Contexts) /\ Len(a \o b) = Len(a) + Len(b)
      /\ \A j \in 1 .. Len(a) + Len(b) :
           (a \o b)[j] = IF j <= Len(a) THEN a[j] ELSE b[j - Len(a)]
  BY <1>1, <1>2, ConcatProperties
<1>5. Len(s) \in Nat /\ i \in 1 .. Len(s)
  OBVIOUS
<1>6. RemoveAt(s, i) \in Seq(Contexts) /\ Len(RemoveAt(s, i)) = Len(s) - 1
  BY <1>1, <1>2, <1>3, <1>4, <1>5
<1>7. ASSUME NEW j \in DOMAIN RemoveAt(s, i)
      PROVE  RemoveAt(s, i)[j] = s[IF j < i THEN j ELSE j + 1]
  <2>1. j \in 1 .. Len(s) - 1
    BY <1>6
  <2>2. RemoveAt(s, i)[j] = IF j <= i - 1 THEN a[j] ELSE b[j - (i - 1)]
    <3>1. Len(a) = i - 1 /\ j \in 1 .. Len(a) + Len(b)
      BY <1>1, <1>2, <1>5, <2>1
    <3>2. (a \o b)[j] = IF j <= Len(a) THEN a[j] ELSE b[j - Len(a)]
      BY <1>4, <3>1
    <3>3. QED
      BY <1>3, <3>1, <3>2
  <2>3. CASE j < i
    BY <1>1, <1>5, <2>1, <2>2, <2>3
  <2>4. CASE ~ (j < i)
    <3>1. j - (i - 1) \in 1 .. Len(s) - i
      BY <1>5, <2>1, <2>4
    <3>2. b[j - (i - 1)] = s[i + (j - (i - 1))]
      BY <1>2, <3>1
    <3>3. QED
      BY <1>5, <2>1, <2>2, <2>4, <3>2
  <2>5. QED
    BY <2>3, <2>4
<1>8. QED
  BY <1>6, <1>7

LEMMA ContextElements ==
    ASSUME NEW s \in Seq(Contexts), NEW i \in DOMAIN s
    PROVE  s[i] \in Contexts /\ s[i].proc \in Procs
<1>1. s[i] \in Contexts
  OBVIOUS
<1>2. QED
  BY <1>1 DEF Contexts

LEMMA NotAloneElements ==
    ASSUME NEW s \in Seq(Contexts), NEW p \in Procs
    PROVE  /\ NotAlone(s, p) \in Seq(Contexts) /\ Len(NotAlone(s, p)) = Len(s)
           /\ DOMAIN NotAlone(s, p) = DOMAIN s
           /\ \A i \in DOMAIN s :
                /\ NotAlone(s, p)[i].proc = s[i].proc
                /\ NotAlone(s, p)[i].wanted = s[i].wanted
                /\ NotAlone(s, p)[i].alone => s[i].alone /\ s[i].proc # p
<1> DEFINE n == NotAlone(s, p)
<1>1. DOMAIN s = 1 .. Len(s) /\ Len(s) \in Nat
  OBVIOUS
<1>2. n = [i \in 1 .. Len(s) |-> n[i]]
  BY <1>1 DEF NotAlone
<1>3. ASSUME NEW i \in DOMAIN s
      PROVE  /\ n[i] \in Contexts
             /\ n[i].proc = s[i].proc /\ n[i].wanted = s[i].wanted
             /\ n[i].alone => s[i].alone /\ s[i].proc # p
  <2>1. s[i] \in Contexts
    OBVIOUS
  <2>2. n[i] = IF s[i].proc = p THEN [s[i] EXCEPT !.alone = FALSE] ELSE s[i]
    BY DEF NotAlone
  <2>3. CASE s[i].proc = p
    BY <2>1, <2>2, <2>3 DEF Contexts
  <2>4. CASE s[i].proc # p
    BY <2>1, <2>2, <2>4 DEF Contexts
  <2>5. QED
    BY <2>3, <2>4
<1> HIDE DEF n
<1>4. n \in Seq(Contexts) /\ Len(n) = Len(s) /\ DOMAIN n = DOMAIN s
  BY <1>1, <1>2, <1>3
<1>5. QED
  BY <1>3, <1>4 DEF n

-----------------------------------------------------------------------------
LEMMA Initially == Init => ProfileInv
BY DEF Init, ProfileInv, ProfileType, NeverForgotten, ProfilesHaveContexts,
       AloneMeansAlone, AloneIn, WantedIsProfiled, IdleHasNoCall, RunsRecorded

LEMMA NotWantedElements ==
    ASSUME NEW s \in Seq(Contexts), NEW p \in Procs
    PROVE  /\ NotWanted(s, p) \in Seq(Contexts) /\ DOMAIN NotWanted(s, p) = DOMAIN s
           /\ NotWanted(s, p) = <<>> => s = <<>>
           /\ \A i \in DOMAIN s :
                /\ NotWanted(s, p)[i].proc = s[i].proc
                /\ NotWanted(s, p)[i].alone = s[i].alone
                /\ NotWanted(s, p)[i].wanted => s[i].wanted
<1> DEFINE n == NotWanted(s, p)
<1>1. DOMAIN s = 1 .. Len(s) /\ Len(s) \in Nat
  OBVIOUS
<1>2. n = [i \in 1 .. Len(s) |-> n[i]]
  BY <1>1 DEF NotWanted
<1>3. ASSUME NEW i \in DOMAIN s
      PROVE  /\ n[i] \in Contexts
             /\ n[i].proc = s[i].proc /\ n[i].alone = s[i].alone
             /\ n[i].wanted => s[i].wanted
  <2>1. s[i] \in Contexts
    OBVIOUS
  <2>2. n[i] = IF s[i].proc = p THEN [s[i] EXCEPT !.wanted = FALSE] ELSE s[i]
    BY DEF NotWanted
  <2>3. CASE s[i].proc = p
    BY <2>1, <2>2, <2>3 DEF Contexts
  <2>4. CASE s[i].proc # p
    BY <2>1, <2>2, <2>4 DEF Contexts
  <2>5. QED
    BY <2>3, <2>4
<1> HIDE DEF n
<1>4. n \in Seq(Contexts) /\ Len(n) = Len(s) /\ DOMAIN n = DOMAIN s
  BY <1>1, <1>2, <1>3
<1>5. QED
  BY <1>3, <1>4 DEF n

(* Asking for a proc touches no profile and no context.                    *)
LEMMA EnableKeeps ==
    ASSUME ProfileInv, NEW p \in Procs, Enable(p)
    PROVE  ProfileInv'
<1>1. UNCHANGED <<profiles, sleeping_profiles, next_profile_id, contextVars, killed, missed>>
  BY DEF Enable
<1>2. ProfileType' /\ ProfilesHaveContexts' /\ AloneMeansAlone' /\ WantedIsProfiled'
      /\ IdleHasNoCall' /\ RunsRecorded'
  BY <1>1 DEF ProfileInv, ProfileType, ProfilesHaveContexts, AloneMeansAlone, AloneIn,
              WantedIsProfiled, IdleHasNoCall, RunsRecorded, contextVars
<1>3. NeverForgotten'
  BY <1>1 DEF ProfileInv, NeverForgotten, Enable
<1>4. QED
  BY <1>2, <1>3 DEF ProfileInv

(* Asking no longer leaves fewer contexts wanted and changes nothing else  *)
(* about them.                                                             *)
LEMMA DisableKeeps ==
    ASSUME ProfileInv, NEW p \in Procs, Disable(p)
    PROVE  ProfileInv'
<1> USE DEF ProfileInv
<1>1. /\ running' = NotWanted(running, p) /\ asleep' = NotWanted(asleep, p)
      /\ procs_to_profile' = procs_to_profile \ {p} /\ enabled' = enabled \ {p}
      /\ UNCHANGED <<profiles, sleeping_profiles, next_profile_id, new_call, killed, missed>>
  BY DEF Disable
<1>2. /\ running' \in Seq(Contexts) /\ DOMAIN running' = DOMAIN running
      /\ running' = <<>> => running = <<>>
      /\ \A i \in DOMAIN running :
           /\ running'[i].proc = running[i].proc
           /\ running'[i].alone => running[i].alone
           /\ running'[i].wanted => running[i].wanted
  BY <1>1, NotWantedElements DEF ProfileType
<1>3. /\ asleep' \in Seq(Contexts) /\ DOMAIN asleep' = DOMAIN asleep
      /\ \A i \in DOMAIN asleep :
           /\ asleep'[i].proc = asleep[i].proc
           /\ asleep'[i].alone => asleep[i].alone
           /\ asleep'[i].wanted => asleep[i].wanted
  BY <1>1, NotWantedElements DEF ProfileType
<1>4. ProfileType' /\ NeverForgotten' /\ RunsRecorded' /\ IdleHasNoCall'
  <2>1. ProfileType'
    BY <1>1, <1>2, <1>3 DEF ProfileType
  <2>2. NeverForgotten'
    BY <1>1 DEF NeverForgotten
  <2>3. RunsRecorded' /\ IdleHasNoCall'
    BY <1>1, <1>2 DEF RunsRecorded, IdleHasNoCall
  <2>4. QED
    BY <2>1, <2>2, <2>3
<1> HIDE DEF ProfileInv
<1>5. ProfilesHaveContexts'
  <2>1. SUFFICES ASSUME NEW q \in Procs
                 PROVE  /\ profiles[q] # 0 => \E i \in DOMAIN running' : running'[i].proc = q
                        /\ sleeping_profiles[q] # 0 =>
                             q \in killed \/ \E i \in DOMAIN asleep' : asleep'[i].proc = q
    BY <1>1 DEF ProfilesHaveContexts
  <2>2. /\ profiles[q] # 0 => \E i \in DOMAIN running : running[i].proc = q
        /\ sleeping_profiles[q] # 0 =>
             q \in killed \/ \E i \in DOMAIN asleep : asleep[i].proc = q
    BY DEF ProfileInv, ProfilesHaveContexts
  <2>3. ASSUME profiles[q] # 0
        PROVE  \E i \in DOMAIN running' : running'[i].proc = q
    <3>1. PICK i \in DOMAIN running : running[i].proc = q
      BY <2>2, <2>3
    <3>2. i \in DOMAIN running' /\ running'[i].proc = q
      BY <1>2, <3>1
    <3>3. QED
      BY <3>2
  <2>4. ASSUME sleeping_profiles[q] # 0, q \notin killed
        PROVE  \E i \in DOMAIN asleep' : asleep'[i].proc = q
    <3>1. PICK i \in DOMAIN asleep : asleep[i].proc = q
      BY <2>2, <2>4
    <3>2. i \in DOMAIN asleep' /\ asleep'[i].proc = q
      BY <1>3, <3>1
    <3>3. QED
      BY <3>2
  <2>5. QED
    BY <2>3, <2>4
<1>6. AloneMeansAlone'
  <2>1. AloneIn(running) /\ AloneIn(asleep)
        /\ \A i \in DOMAIN running, j \in DOMAIN asleep :
             running[i].proc = asleep[j].proc => ~ running[i].alone /\ ~ asleep[j].alone
    <3>1. AloneMeansAlone
      BY DEF ProfileInv
    <3>2. QED
      BY <3>1 DEF AloneMeansAlone
  <2>2. ASSUME NEW i \in DOMAIN running', NEW j \in DOMAIN running',
               running'[i].alone, running'[i].proc = running'[j].proc
        PROVE  i = j
    <3>1. /\ i \in DOMAIN running /\ j \in DOMAIN running
          /\ running[i].alone /\ running[i].proc = running[j].proc
      BY <1>2, <2>2
    <3>2. QED
      BY <2>1, <3>1 DEF AloneIn
  <2>3. ASSUME NEW i \in DOMAIN asleep', NEW j \in DOMAIN asleep',
               asleep'[i].alone, asleep'[i].proc = asleep'[j].proc
        PROVE  i = j
    <3>1. /\ i \in DOMAIN asleep /\ j \in DOMAIN asleep
          /\ asleep[i].alone /\ asleep[i].proc = asleep[j].proc
      BY <1>3, <2>3
    <3>2. QED
      BY <2>1, <3>1 DEF AloneIn
  <2>4. ASSUME NEW i \in DOMAIN running', NEW j \in DOMAIN asleep',
               running'[i].proc = asleep'[j].proc
        PROVE  ~ running'[i].alone /\ ~ asleep'[j].alone
    <3>1. /\ i \in DOMAIN running /\ j \in DOMAIN asleep
          /\ running[i].proc = asleep[j].proc
      BY <1>2, <1>3, <2>4
    <3>2. ~ running[i].alone /\ ~ asleep[j].alone
      BY <2>1, <3>1
    <3>3. QED
      BY <1>2, <1>3, <3>1, <3>2
  <2>5. AloneIn(running') /\ AloneIn(asleep')
    BY <2>2, <2>3 DEF AloneIn
  <2>6. QED
    BY <2>4, <2>5 DEF AloneMeansAlone
<1> USE DEF ProfileInv
<1>7. WantedIsProfiled'
  BY <1>1, <1>2, <1>3 DEF WantedIsProfiled
<1>8. QED
  BY <1>4, <1>5, <1>6, <1>7

(* hCreateContext: only the profiles of its own proc change, and the new   *)
(* context is profiled if the proc had no profile and was asked for, or if *)
(* a sleeping one wakes up.                                                *)
LEMMA CreateContextKeeps ==
    ASSUME ProfileType, NeverForgotten, NEW p \in Procs, NEW caller,
           CreateContext(p, caller), UNCHANGED enabled
    PROVE  /\ profiles' \in [Procs -> Nat] /\ sleeping_profiles' \in [Procs -> Nat]
           /\ next_profile_id' \in Nat \ {0}
           /\ NeverForgotten'
           /\ \A q \in Procs \ {p} : /\ profiles'[q] = profiles[q]
                                     /\ sleeping_profiles'[q] = sleeping_profiles[q]
           /\ sleeping_profiles'[p] # 0 => sleeping_profiles[p] # 0
           /\ profiles[p] # 0 => profiles'[p] # 0
           /\ new_call' # p => sleeping_profiles'[p] = 0
           /\ sleeping_profiles[p] # 0 /\ new_call' # p => profiles'[p] # 0
           /\ sleeping_profiles[p] = 0 /\ p \in enabled => profiles'[p] # 0
<1> USE DEF ProfileType, NeverForgotten
<1>1. CASE Ignored(p) /\ UNCHANGED profileVars
  BY <1>1 DEF Ignored, profileVars
<1>2. CASE /\ ~ Ignored(p) /\ sleeping_profiles[p] # 0
           /\ profiles' = [profiles EXCEPT ![p] = sleeping_profiles[p]]
           /\ sleeping_profiles' = [sleeping_profiles EXCEPT ![p] = 0]
           /\ UNCHANGED <<procs_to_profile, next_profile_id>>
  BY <1>2 DEF Ignored
<1>3. CASE /\ ~ Ignored(p) /\ sleeping_profiles[p] = 0
           /\ profiles' = [profiles EXCEPT ![p] = next_profile_id]
           /\ next_profile_id' = next_profile_id + 1
           /\ procs_to_profile' = procs_to_profile \ {p}
           /\ UNCHANGED sleeping_profiles
  BY <1>3 DEF Ignored
<1>4. CASE /\ ~ Ignored(p) /\ sleeping_profiles[p] = 0 /\ p \notin procs_to_profile
           /\ UNCHANGED profileVars
  BY <1>4 DEF Ignored, profileVars
<1>5. QED
  BY <1>1, <1>2, <1>3, <1>4 DEF CreateContext

(* A call: the new context is profiled if it is alone and asked for.       *)
LEMMA CallKeeps ==
    ASSUME NoProc \notin Procs, ProfileInv, NEW p \in Procs, Call(p)
    PROVE  ProfileInv'
<1> USE DEF ProfileInv
<1> DEFINE both == running \o asleep
           alone == \A i \in DOMAIN both : both[i].proc # p
           new == [proc |-> p, wanted |-> p \in enabled, alone |-> alone]
           old == NotAlone(running, p)
<1>1. /\ new_call' = p /\ CreateContext(p, Caller)
      /\ running' = Append(old, new) /\ asleep' = NotAlone(asleep, p)
      /\ UNCHANGED <<enabled, killed, missed>>
  BY DEF Call
<1>2. /\ profiles' \in [Procs -> Nat] /\ sleeping_profiles' \in [Procs -> Nat]
      /\ next_profile_id' \in Nat \ {0}
      /\ NeverForgotten'
      /\ \A q \in Procs \ {p} : /\ profiles'[q] = profiles[q]
                                /\ sleeping_profiles'[q] = sleeping_profiles[q]
      /\ sleeping_profiles'[p] # 0 => sleeping_profiles[p] # 0
      /\ profiles[p] # 0 => profiles'[p] # 0
      /\ sleeping_profiles[p] = 0 /\ p \in enabled => profiles'[p] # 0
  BY <1>1, CreateContextKeeps
<1>3. running \in Seq(Contexts) /\ asleep \in Seq(Contexts)
  BY DEF ProfileType
<1>4. /\ old \in Seq(Contexts) /\ Len(old) = Len(running) /\ DOMAIN old = DOMAIN running
      /\ \A i \in DOMAIN running : /\ old[i].proc = running[i].proc
                                   /\ old[i].wanted = running[i].wanted
                                   /\ old[i].alone => running[i].alone /\ running[i].proc # p
  BY <1>3, NotAloneElements
<1>5. /\ asleep' \in Seq(Contexts) /\ DOMAIN asleep' = DOMAIN asleep
      /\ \A i \in DOMAIN asleep :
           /\ asleep'[i].proc = asleep[i].proc
           /\ asleep'[i].wanted = asleep[i].wanted
           /\ asleep'[i].alone => asleep[i].alone /\ asleep[i].proc # p
  BY <1>1, <1>3, NotAloneElements
<1>6. alone => /\ \A i \in DOMAIN running : running[i].proc # p
               /\ \A i \in DOMAIN asleep : asleep[i].proc # p
  <2>1. /\ Len(both) = Len(running) + Len(asleep)
        /\ DOMAIN both = 1 .. Len(running) + Len(asleep)
        /\ \A i \in 1 .. Len(running) + Len(asleep) :
             both[i] = IF i <= Len(running) THEN running[i] ELSE asleep[i - Len(running)]
    BY <1>3, ConcatProperties
  <2>2. ASSUME NEW i \in DOMAIN running
        PROVE  i \in DOMAIN both /\ both[i] = running[i]
    BY <1>3, <2>1
  <2>3. ASSUME NEW i \in DOMAIN asleep
        PROVE  Len(running) + i \in DOMAIN both /\ both[Len(running) + i] = asleep[i]
    BY <1>3, <2>1
  <2>4. QED
    BY <2>2, <2>3
<1>7. /\ new \in Contexts /\ new.proc = p /\ (new.wanted <=> p \in enabled)
      /\ new.alone <=> alone
  <2>1. alone \in BOOLEAN /\ (p \in enabled) \in BOOLEAN
    OBVIOUS
  <2> HIDE DEF alone
  <2>2. QED
    BY <2>1 DEF Contexts
<1> HIDE DEF alone, new, old
<1>8. /\ running' \in Seq(Contexts) /\ Len(running') = Len(running) + 1
      /\ DOMAIN running' = DOMAIN running \cup {Len(running')}
      /\ Len(running') \notin DOMAIN running
      /\ running'[Len(running')] = new
      /\ \A i \in DOMAIN running : running'[i] = old[i]
  BY <1>1, <1>3, <1>4, <1>7
<1>9. ProfileType'
  BY <1>2, <1>5, <1>8 DEF ProfileType
<1>10. ProfilesHaveContexts'
  <2>1. ASSUME NEW q \in Procs, profiles'[q] # 0
        PROVE  \E i \in DOMAIN running' : running'[i].proc = q
    <3>1. CASE q = p
      BY <1>7, <1>8, <3>1
    <3>2. CASE q # p
      <4>1. PICK i \in DOMAIN running : running[i].proc = q
        BY <1>2, <2>1, <3>2 DEF ProfilesHaveContexts
      <4>2. QED
        BY <1>4, <1>8, <4>1
    <3>3. QED
      BY <3>1, <3>2
  <2>2. ASSUME NEW q \in Procs, sleeping_profiles'[q] # 0
        PROVE  q \in killed' \/ \E i \in DOMAIN asleep' : asleep'[i].proc = q
    <3>1. sleeping_profiles[q] # 0
      BY <1>2, <2>2
    <3>2. q \in killed \/ \E i \in DOMAIN asleep : asleep[i].proc = q
      BY <3>1 DEF ProfilesHaveContexts
    <3>3. (\E i \in DOMAIN asleep : asleep[i].proc = q) =>
            \E i \in DOMAIN asleep' : asleep'[i].proc = q
      BY <1>5
    <3>4. QED
      BY <1>1, <3>2, <3>3
  <2>3. QED
    BY <2>1, <2>2 DEF ProfilesHaveContexts
<1>11. AloneMeansAlone'
  <2>1. AloneIn(asleep')
    BY <1>5 DEF AloneMeansAlone, AloneIn
  <2>2. AloneIn(running')
    <3>1. ASSUME NEW i \in DOMAIN running, NEW j \in DOMAIN running,
                 old[i].alone, old[i].proc = old[j].proc
          PROVE  i = j
      BY <1>4, <3>1 DEF AloneMeansAlone, AloneIn
    <3>2. ASSUME NEW i \in DOMAIN running
          PROVE  /\ old[i].alone => old[i].proc # p
                 /\ alone => old[i].proc # p
      BY <1>4, <1>6
    <3>3. QED
      BY <1>7, <1>8, <3>1, <3>2 DEF AloneIn
  <2>3. ASSUME NEW i \in DOMAIN running', NEW j \in DOMAIN asleep',
               running'[i].proc = asleep'[j].proc
        PROVE  ~ running'[i].alone /\ ~ asleep'[j].alone
    <3>1. CASE i \in DOMAIN running
      BY <1>4, <1>5, <1>8, <2>3, <3>1 DEF AloneMeansAlone
    <3>2. CASE i = Len(running')
      BY <1>5, <1>6, <1>7, <1>8, <2>3, <3>2
    <3>3. QED
      BY <1>8, <3>1, <3>2
  <2>4. QED
    BY <2>1, <2>2, <2>3 DEF AloneMeansAlone
<1>12. WantedIsProfiled'
  <2>1. ASSUME NEW i \in DOMAIN running', running'[i].wanted, running'[i].alone
        PROVE  running'[i].proc \in killed' \/ profiles'[running'[i].proc] # 0
    <3>1. CASE i \in DOMAIN running
      <4>1. /\ running'[i].proc = running[i].proc /\ running[i].proc # p
            /\ running[i].wanted /\ running[i].alone /\ running[i] \in Contexts
        BY <1>3, <1>4, <1>8, <2>1, <3>1
      <4>2. running[i].proc \in Procs
        BY <4>1 DEF Contexts
      <4>3. running[i].proc \in killed \/ profiles[running[i].proc] # 0
        BY <3>1, <4>1 DEF WantedIsProfiled
      <4>4. QED
        BY <1>1, <1>2, <4>1, <4>2, <4>3
    <3>2. CASE i = Len(running')
      <4>1. running'[i].proc = p /\ p \in enabled /\ alone
        BY <1>7, <1>8, <2>1, <3>2
      <4>2. p \in killed \/ sleeping_profiles[p] = 0
        BY <1>6, <4>1 DEF ProfilesHaveContexts
      <4>3. QED
        BY <1>1, <1>2, <4>1, <4>2
    <3>3. QED
      BY <1>8, <3>1, <3>2
  <2>2. ASSUME NEW i \in DOMAIN asleep', asleep'[i].wanted, asleep'[i].alone
        PROVE  asleep'[i].proc \in killed' \/ sleeping_profiles'[asleep'[i].proc] # 0
    <3>1. /\ asleep'[i].proc = asleep[i].proc /\ asleep[i].proc # p
          /\ asleep[i].wanted /\ asleep[i].alone /\ asleep[i] \in Contexts
      BY <1>3, <1>5, <2>2
    <3>2. asleep[i].proc \in Procs
      BY <3>1 DEF Contexts
    <3>3. QED
      BY <1>1, <1>2, <1>5, <3>1, <3>2 DEF WantedIsProfiled
  <2>3. QED
    BY <2>1, <2>2 DEF WantedIsProfiled
<1>13. IdleHasNoCall' /\ RunsRecorded'
  BY <1>1, <1>8 DEF IdleHasNoCall, RunsRecorded
<1>14. QED
  BY <1>2, <1>9, <1>10, <1>11, <1>12, <1>13

(* A sleeping context goes: what is left was there before, and a context   *)
(* that is alone leaves none of its proc behind.                           *)
LEMMA TakenFromAsleep ==
    ASSUME asleep \in Seq(Contexts), AloneIn(asleep), NEW i \in DOMAIN asleep,
           asleep' = RemoveAt(asleep, i)
    PROVE  /\ asleep' \in Seq(Contexts)
           /\ AloneIn(asleep')
           /\ \A j \in DOMAIN asleep' : \E k \in DOMAIN asleep \ {i} : asleep'[j] = asleep[k]
           /\ \A k \in DOMAIN asleep \ {i} : \E j \in DOMAIN asleep' : asleep'[j] = asleep[k]
<1> DEFINE from(j) == IF j < i THEN j ELSE j + 1
<1>1. /\ asleep' \in Seq(Contexts) /\ Len(asleep') = Len(asleep) - 1
      /\ \A j \in DOMAIN asleep' : asleep'[j] = asleep[from(j)]
  BY RemoveAtElements
<1>2. /\ Len(asleep) \in Nat /\ DOMAIN asleep = 1 .. Len(asleep) /\ i \in 1 .. Len(asleep)
      /\ DOMAIN asleep' = 1 .. Len(asleep) - 1
  BY <1>1
<1>3. \A j \in DOMAIN asleep' : from(j) \in DOMAIN asleep \ {i}
  BY <1>2
<1>4. \A j, k \in DOMAIN asleep' : from(j) = from(k) => j = k
  BY <1>2
<1>5. ASSUME NEW k \in DOMAIN asleep \ {i}
      PROVE  \E j \in DOMAIN asleep' : asleep'[j] = asleep[k]
  <2>1. CASE k < i
    <3>1. k \in DOMAIN asleep' /\ from(k) = k
      BY <1>2, <2>1
    <3>2. QED
      BY <1>1, <3>1
  <2>2. CASE ~ (k < i)
    <3>1. k - 1 \in DOMAIN asleep' /\ from(k - 1) = k
      BY <1>2, <2>2
    <3>2. QED
      BY <1>1, <3>1
  <2>3. QED
    BY <2>1, <2>2
<1> HIDE DEF from
<1>6. AloneIn(asleep')
  BY <1>1, <1>3, <1>4 DEF AloneIn
<1>7. QED
  BY <1>1, <1>3, <1>5, <1>6

(* A context is resumed when none runs: its sleeping profile runs again.   *)
LEMMA ResumeKeeps ==
    ASSUME NoProc \notin Procs, ProfileInv, NEW i \in DOMAIN asleep, Resume(i)
    PROVE  ProfileInv'
<1> USE DEF ProfileInv
<1> DEFINE c == asleep[i]
           p == c.proc
<1>1. /\ running = <<>> /\ running' = <<c>> /\ asleep' = RemoveAt(asleep, i)
      /\ CreateContext(p, NoProc)
      /\ UNCHANGED <<new_call, enabled, killed, missed>>
  BY DEF Resume
<1>2. asleep \in Seq(Contexts) /\ c \in Contexts /\ p \in Procs
  BY ContextElements DEF ProfileType
<1> HIDE DEF c, p
<1>3. new_call' # p
  BY <1>1, <1>2 DEF IdleHasNoCall
<1>4. /\ profiles' \in [Procs -> Nat] /\ sleeping_profiles' \in [Procs -> Nat]
      /\ next_profile_id' \in Nat \ {0}
      /\ NeverForgotten'
      /\ \A q \in Procs \ {p} : /\ profiles'[q] = profiles[q]
                                /\ sleeping_profiles'[q] = sleeping_profiles[q]
      /\ sleeping_profiles'[p] = 0
      /\ sleeping_profiles[p] # 0 => profiles'[p] # 0
  BY <1>1, <1>2, <1>3, CreateContextKeeps
<1>5. /\ asleep' \in Seq(Contexts) /\ AloneIn(asleep')
      /\ \A j \in DOMAIN asleep' : \E k \in DOMAIN asleep \ {i} : asleep'[j] = asleep[k]
      /\ \A k \in DOMAIN asleep \ {i} : \E j \in DOMAIN asleep' : asleep'[j] = asleep[k]
  BY <1>1, <1>2, TakenFromAsleep DEF AloneMeansAlone
<1>6. /\ running' \in Seq(Contexts) /\ DOMAIN running' = {1} /\ running'[1] = c
      /\ running' # <<>>
  BY <1>1, <1>2
<1>7. ProfileType'
  BY <1>4, <1>5, <1>6 DEF ProfileType
<1>8. ProfilesHaveContexts'
  <2>1. ASSUME NEW q \in Procs, profiles'[q] # 0
        PROVE  \E j \in DOMAIN running' : running'[j].proc = q
    <3>1. q = p
      BY <1>1, <1>4, <2>1 DEF ProfilesHaveContexts
    <3>2. QED
      BY <1>6, <3>1 DEF p
  <2>2. ASSUME NEW q \in Procs, sleeping_profiles'[q] # 0, q \notin killed
        PROVE  \E j \in DOMAIN asleep' : asleep'[j].proc = q
    <3>1. q # p /\ sleeping_profiles[q] # 0
      BY <1>4, <2>2
    <3>2. PICK k \in DOMAIN asleep : asleep[k].proc = q
      BY <2>2, <3>1 DEF ProfilesHaveContexts
    <3>3. k # i
      BY <3>1, <3>2 DEF p, c
    <3>4. QED
      BY <1>5, <3>2, <3>3
  <2>3. QED
    BY <1>1, <2>1, <2>2 DEF ProfilesHaveContexts
<1>9. ASSUME NEW j \in DOMAIN asleep', asleep'[j].proc = p
      PROVE  ~ c.alone /\ ~ asleep'[j].alone
  <2>1. PICK k \in DOMAIN asleep \ {i} : asleep'[j] = asleep[k]
    BY <1>5
  <2>2. QED
    BY <1>9, <2>1 DEF AloneMeansAlone, AloneIn, p, c
<1>10. AloneMeansAlone'
  <2>1. AloneIn(running')
    BY <1>6 DEF AloneIn
  <2>2. QED
    BY <1>5, <1>6, <1>9, <2>1 DEF AloneMeansAlone, p
<1>11. WantedIsProfiled'
  <2>1. c.wanted /\ c.alone => p \in killed \/ sleeping_profiles[p] # 0
    BY DEF WantedIsProfiled, p, c
  <2>2. ASSUME NEW j \in DOMAIN asleep', asleep'[j].wanted, asleep'[j].alone
        PROVE  asleep'[j].proc \in killed \/ sleeping_profiles'[asleep'[j].proc] # 0
    <3>1. PICK k \in DOMAIN asleep \ {i} : asleep'[j] = asleep[k]
      BY <1>5
    <3>2. asleep[k].proc # p
      BY <1>9, <2>2, <3>1
    <3>3. asleep[k].proc \in Procs
      BY <1>2, ContextElements
    <3>4. QED
      BY <1>4, <2>2, <3>1, <3>2, <3>3 DEF WantedIsProfiled
  <2>3. QED
    BY <1>1, <1>4, <1>6, <2>1, <2>2 DEF WantedIsProfiled, p
<1>12. IdleHasNoCall' /\ RunsRecorded'
  BY <1>1, <1>6 DEF IdleHasNoCall, RunsRecorded
<1>13. QED
  BY <1>4, <1>7, <1>8, <1>10, <1>11, <1>12

(* The innermost context goes, by its end or to sleep.                     *)
LEMMA TakenFromRunning ==
    ASSUME running \in Seq(Contexts), running # <<>>, running' = Front(running)
    PROVE  /\ running' \in Seq(Contexts) /\ DOMAIN running' \subseteq DOMAIN running
           /\ Len(running) \in DOMAIN running \ DOMAIN running'
           /\ DOMAIN running = DOMAIN running' \cup {Len(running)}
           /\ \A i \in DOMAIN running' : running'[i] = running[i]
           /\ Last(running) = running[Len(running)]
           /\ Last(running) \in Contexts /\ Last(running).proc \in Procs
<1>1. /\ running' \in Seq(Contexts) /\ Len(running') = Len(running) - 1
      /\ \A i \in 1 .. Len(running) - 1 : running'[i] = running[i]
      /\ Last(running) = running[Len(running)] /\ Last(running) \in Contexts
      /\ Len(running) \in DOMAIN running
  BY FrontElements
<1>2. Len(running) \in Nat /\ DOMAIN running = 1 .. Len(running)
      /\ DOMAIN running' = 1 .. Len(running) - 1
  BY <1>1
<1>3. QED
  BY <1>1, <1>2 DEF Contexts

(* hProcCleanup: a run that was asked for and is alone is written.         *)
LEMMA EndKeeps ==
    ASSUME ProfileInv, End
    PROVE  ProfileInv'
<1> USE DEF ProfileInv
<1> DEFINE c == Last(running)
           p == c.proc
           dumped == sleeping_profiles[p] = 0 /\ profiles[p] # 0
<1>1. /\ running # <<>> /\ running' = Front(running) /\ new_call' = NoProc
      /\ profiles' = IF dumped THEN [profiles EXCEPT ![p] = 0] ELSE profiles
      /\ procs_to_profile' = IF dumped THEN procs_to_profile \cup {p} ELSE procs_to_profile
      /\ missed' = IF c.wanted /\ c.alone /\ ~ dumped THEN missed \cup {p} ELSE missed
      /\ UNCHANGED <<sleeping_profiles, next_profile_id, asleep, enabled, killed>>
  BY DEF End, RequestedAgain, Missed
<1>2. /\ running' \in Seq(Contexts) /\ DOMAIN running' \subseteq DOMAIN running
      /\ Len(running) \in DOMAIN running \ DOMAIN running'
      /\ DOMAIN running = DOMAIN running' \cup {Len(running)}
      /\ \A i \in DOMAIN running' : running'[i] = running[i]
      /\ c = running[Len(running)] /\ c \in Contexts /\ p \in Procs
  BY <1>1, TakenFromRunning DEF ProfileType
<1> HIDE DEF c, p
<1>3. profiles'[p] = 0 /\ profiles' \in [Procs -> Nat]
      /\ \A q \in Procs \ {p} : profiles'[q] = profiles[q]
  BY <1>1, <1>2 DEF ProfileType, NeverForgotten
<1>4. ProfileType'
  BY <1>1, <1>2, <1>3 DEF ProfileType
<1>5. NeverForgotten'
  BY <1>1, <1>2, <1>3 DEF NeverForgotten, ProfileType
<1>6. ProfilesHaveContexts'
  <2>1. ASSUME NEW q \in Procs, profiles'[q] # 0
        PROVE  \E i \in DOMAIN running' : running'[i].proc = q
    <3>1. q # p /\ profiles[q] # 0
      BY <1>3, <2>1
    <3>2. PICK i \in DOMAIN running : running[i].proc = q
      BY <3>1 DEF ProfilesHaveContexts
    <3>3. i \in DOMAIN running'
      BY <1>2, <3>1, <3>2 DEF p
    <3>4. QED
      BY <1>2, <3>2, <3>3
  <2>2. QED
    BY <1>1, <2>1 DEF ProfilesHaveContexts
<1>7. AloneMeansAlone'
  <2>1. AloneIn(running')
    BY <1>2 DEF AloneMeansAlone, AloneIn
  <2>2. ASSUME NEW i \in DOMAIN running', NEW j \in DOMAIN asleep,
               running'[i].proc = asleep[j].proc
        PROVE  ~ running'[i].alone /\ ~ asleep[j].alone
    <3>1. i \in DOMAIN running /\ running'[i] = running[i]
      BY <1>2
    <3>2. QED
      BY <2>2, <3>1 DEF AloneMeansAlone
  <2>3. AloneIn(asleep') /\ asleep' = asleep
    BY <1>1 DEF AloneMeansAlone, AloneIn
  <2>4. QED
    BY <2>1, <2>2, <2>3 DEF AloneMeansAlone
<1>8. WantedIsProfiled'
  <2>1. ASSUME NEW i \in DOMAIN running', running'[i].wanted, running'[i].alone
        PROVE  running'[i].proc \in killed \/ profiles'[running'[i].proc] # 0
    <3>1. /\ i \in DOMAIN running /\ running'[i] = running[i] /\ i # Len(running)
      BY <1>2
    <3>2. running[i].proc # p
      BY <1>2, <2>1, <3>1 DEF AloneMeansAlone, AloneIn, p
    <3>3. running[i].proc \in Procs
      BY <3>1, ContextElements DEF ProfileType
    <3>4. QED
      BY <1>3, <2>1, <3>1, <3>2, <3>3 DEF WantedIsProfiled
  <2>2. QED
    BY <1>1, <2>1 DEF WantedIsProfiled
<1>9. RunsRecorded'
  <2>1. c.wanted /\ c.alone => p \in killed \/ profiles[p] # 0
    BY <1>2 DEF WantedIsProfiled, p
  <2>2. profiles[p] # 0 => dumped
    BY <1>2 DEF NeverForgotten
  <2>3. QED
    BY <1>1, <2>1, <2>2 DEF RunsRecorded
<1>10. IdleHasNoCall'
  BY <1>1 DEF IdleHasNoCall
<1>11. QED
  BY <1>4, <1>5, <1>6, <1>7, <1>8, <1>9, <1>10

(* hSuspend: the innermost context sleeps, and its profile with it.        *)
LEMMA SuspendKeeps ==
    ASSUME ProfileInv, Suspend
    PROVE  ProfileInv'
<1> USE DEF ProfileInv
<1> DEFINE c == Last(running)
           p == c.proc
<1>1. /\ running # <<>> /\ running' = Front(running) /\ new_call' = NoProc
      /\ asleep' = Append(asleep, c)
      /\ IF profiles[p] # 0
         THEN /\ sleeping_profiles' = [sleeping_profiles EXCEPT ![p] = profiles[p]]
              /\ profiles' = [profiles EXCEPT ![p] = 0]
         ELSE UNCHANGED <<sleeping_profiles, profiles>>
      /\ missed' = IF c.wanted /\ c.alone /\ ~ (profiles[p] # 0)
                   THEN missed \cup {p} ELSE missed
      /\ UNCHANGED <<procs_to_profile, next_profile_id, enabled, killed>>
  BY DEF Suspend, PutToSleep, Missed
<1>2. /\ running' \in Seq(Contexts) /\ DOMAIN running' \subseteq DOMAIN running
      /\ Len(running) \in DOMAIN running \ DOMAIN running'
      /\ DOMAIN running = DOMAIN running' \cup {Len(running)}
      /\ \A i \in DOMAIN running' : running'[i] = running[i]
      /\ c = running[Len(running)] /\ c \in Contexts /\ p \in Procs
  BY <1>1, TakenFromRunning DEF ProfileType
<1> HIDE DEF c, p
<1>3. /\ asleep' \in Seq(Contexts)
      /\ DOMAIN asleep' = DOMAIN asleep \cup {Len(asleep) + 1}
      /\ asleep'[Len(asleep) + 1] = c
      /\ \A i \in DOMAIN asleep : asleep'[i] = asleep[i]
  <2>1. asleep \in Seq(Contexts) /\ asleep' = Append(asleep, c)
    BY <1>1 DEF ProfileType, c
  <2>2. c \in Contexts
    BY <1>2
  <2>3. Append(asleep, c) \in Seq(Contexts) /\ Len(Append(asleep, c)) = Len(asleep) + 1
        /\ \A i \in 1 .. Len(asleep) : Append(asleep, c)[i] = asleep[i]
        /\ Append(asleep, c)[Len(asleep) + 1] = c
    BY <2>1, <2>2
  <2>4. DOMAIN asleep = 1 .. Len(asleep) /\ Len(asleep) \in Nat
        /\ DOMAIN asleep' = 1 .. Len(asleep) + 1
    BY <2>1, <2>3
  <2>5. QED
    BY <2>1, <2>3, <2>4
<1>4. /\ profiles' \in [Procs -> Nat] /\ sleeping_profiles' \in [Procs -> Nat]
      /\ profiles'[p] = 0
      /\ \A q \in Procs \ {p} : /\ profiles'[q] = profiles[q]
                                /\ sleeping_profiles'[q] = sleeping_profiles[q]
      /\ profiles[p] # 0 => sleeping_profiles'[p] # 0
      /\ sleeping_profiles[p] # 0 => sleeping_profiles'[p] # 0
      /\ UNCHANGED <<procs_to_profile, enabled>>
  <2>1. CASE profiles[p] # 0
    <3>1. /\ sleeping_profiles' = [sleeping_profiles EXCEPT ![p] = profiles[p]]
          /\ profiles' = [profiles EXCEPT ![p] = 0]
          /\ UNCHANGED <<procs_to_profile, enabled>>
      BY <1>1, <2>1 DEF c, p
    <3>2. QED
      BY <1>2, <2>1, <3>1 DEF ProfileType
  <2>2. CASE profiles[p] = 0
    <3>1. UNCHANGED <<profiles, sleeping_profiles, procs_to_profile, enabled>>
      BY <1>1, <2>2 DEF c, p
    <3>2. QED
      BY <1>2, <2>2, <3>1 DEF ProfileType
  <2>3. QED
    BY <2>1, <2>2
<1>5. ProfileType'
  BY <1>1, <1>2, <1>3, <1>4 DEF ProfileType
<1>6. NeverForgotten'
  <2>1. \A q \in Procs \ {p} : /\ profiles'[q] = 0 \/ sleeping_profiles'[q] = 0
                             /\ q \in enabled' => q \in procs_to_profile'
                                  \/ profiles'[q] + sleeping_profiles'[q] # 0
    BY <1>4 DEF NeverForgotten
  <2>2. p \in enabled /\ p \notin procs_to_profile =>
          profiles[p] # 0 \/ sleeping_profiles[p] # 0
    <3>1. p \in Procs
      BY <1>2
    <3>2. p \in enabled => p \in procs_to_profile \/ profiles[p] + sleeping_profiles[p] # 0
      BY <3>1 DEF NeverForgotten
    <3>3. profiles[p] + sleeping_profiles[p] # 0 => profiles[p] # 0 \/ sleeping_profiles[p] # 0
      OBVIOUS
    <3>4. QED
      BY <3>2, <3>3
  <2>3. sleeping_profiles'[p] # 0 => profiles'[p] + sleeping_profiles'[p] # 0
    <3>1. p \in Procs
      BY <1>2
    <3>2. profiles'[p] = 0 /\ sleeping_profiles'[p] \in Nat
      BY <1>4, <3>1
    <3>3. QED
      BY <3>2
  <2>4. QED
    BY <1>2, <1>4, <2>1, <2>2, <2>3 DEF NeverForgotten
<1>7. ProfilesHaveContexts'
  <2>1. ASSUME NEW q \in Procs, profiles'[q] # 0
        PROVE  \E i \in DOMAIN running' : running'[i].proc = q
    <3>1. q # p /\ profiles[q] # 0
      BY <1>4, <2>1
    <3>2. PICK i \in DOMAIN running : running[i].proc = q
      BY <3>1 DEF ProfilesHaveContexts
    <3>3. i \in DOMAIN running'
      BY <1>2, <3>1, <3>2 DEF p
    <3>4. QED
      BY <1>2, <3>2, <3>3
  <2>2. ASSUME NEW q \in Procs, sleeping_profiles'[q] # 0, q \notin killed
        PROVE  \E i \in DOMAIN asleep' : asleep'[i].proc = q
    <3>1. CASE q = p
      BY <1>3, <3>1 DEF p
    <3>2. CASE q # p
      <4>1. PICK i \in DOMAIN asleep : asleep[i].proc = q
        BY <1>4, <2>2, <3>2 DEF ProfilesHaveContexts
      <4>2. QED
        BY <1>3, <4>1
    <3>3. QED
      BY <3>1, <3>2
  <2>3. QED
    BY <1>1, <2>1, <2>2 DEF ProfilesHaveContexts
<1>8. AloneMeansAlone'
  <2>1. AloneIn(running')
    BY <1>2 DEF AloneMeansAlone, AloneIn
  <2>2. ASSUME NEW i \in DOMAIN asleep, asleep[i].proc = p
        PROVE  ~ asleep[i].alone /\ ~ c.alone
    BY <1>2, <2>2 DEF AloneMeansAlone, p
  <2>3. AloneIn(asleep')
    BY <1>3, <2>2 DEF AloneMeansAlone, AloneIn, p
  <2>4. ASSUME NEW i \in DOMAIN running', running'[i].proc = p
        PROVE  ~ running'[i].alone /\ ~ c.alone
    BY <1>2, <2>4 DEF AloneMeansAlone, AloneIn, p
  <2>5. ASSUME NEW i \in DOMAIN running', NEW j \in DOMAIN asleep',
               running'[i].proc = asleep'[j].proc
        PROVE  ~ running'[i].alone /\ ~ asleep'[j].alone
    <3>1. CASE j \in DOMAIN asleep
      <4>1. /\ i \in DOMAIN running /\ running'[i] = running[i]
            /\ asleep'[j] = asleep[j]
        BY <1>2, <1>3, <2>5, <3>1
      <4>2. running[i].proc = asleep[j].proc
        BY <2>5, <4>1
      <4>3. ~ running[i].alone /\ ~ asleep[j].alone
        BY <3>1, <4>1, <4>2 DEF AloneMeansAlone
      <4>4. QED
        BY <4>1, <4>3
    <3>2. CASE j = Len(asleep) + 1
      BY <1>3, <2>4, <2>5, <3>2 DEF p
    <3>3. QED
      BY <1>3, <3>1, <3>2
  <2>6. QED
    BY <2>1, <2>3, <2>5 DEF AloneMeansAlone
<1>9. WantedIsProfiled'
  <2>1. ASSUME NEW i \in DOMAIN running', running'[i].wanted, running'[i].alone
        PROVE  running'[i].proc \in killed \/ profiles'[running'[i].proc] # 0
    <3>1. /\ i \in DOMAIN running /\ running'[i] = running[i] /\ i # Len(running)
      BY <1>2
    <3>2. running[i].proc # p
      BY <1>2, <2>1, <3>1 DEF AloneMeansAlone, AloneIn, p
    <3>3. running[i].proc \in Procs
      BY <3>1, ContextElements DEF ProfileType
    <3>4. QED
      BY <1>4, <2>1, <3>1, <3>2, <3>3 DEF WantedIsProfiled
  <2>2. ASSUME NEW i \in DOMAIN asleep', asleep'[i].wanted, asleep'[i].alone
        PROVE  asleep'[i].proc \in killed \/ sleeping_profiles'[asleep'[i].proc] # 0
    <3>1. CASE i \in DOMAIN asleep
      <4>1. asleep[i].proc \in Procs /\ asleep'[i] = asleep[i]
        BY <1>3, <3>1, ContextElements DEF ProfileType
      <4>2. asleep[i].proc \in killed \/ sleeping_profiles[asleep[i].proc] # 0
        BY <2>2, <3>1, <4>1 DEF WantedIsProfiled
      <4>3. QED
        BY <1>4, <4>1, <4>2
    <3>2. CASE i = Len(asleep) + 1
      <4>1. asleep'[i] = c /\ c.proc = p /\ c.wanted /\ c.alone
        BY <1>3, <2>2, <3>2 DEF p
      <4>2. Len(running) \in DOMAIN running /\ c = running[Len(running)]
        BY <1>2
      <4>3. p \in killed \/ profiles[p] # 0
        BY <4>1, <4>2 DEF WantedIsProfiled
      <4>4. QED
        BY <1>4, <4>1, <4>3
    <3>3. QED
      BY <1>3, <3>1, <3>2
  <2>3. QED
    BY <1>1, <2>1, <2>2 DEF WantedIsProfiled
<1>10. IdleHasNoCall' /\ RunsRecorded'
  <2>1. c.wanted /\ c.alone => p \in killed \/ profiles[p] # 0
    <3>1. Len(running) \in DOMAIN running /\ c = running[Len(running)]
      BY <1>2
    <3>2. QED
      BY <3>1 DEF WantedIsProfiled, p
  <2>2. QED
    BY <1>1, <2>1 DEF IdleHasNoCall, RunsRecorded
<1>11. QED
  BY <1>5, <1>6, <1>7, <1>8, <1>9, <1>10

(* A sleeping run is killed: its proc is no longer promised anything.      *)
LEMMA KillKeeps ==
    ASSUME ProfileInv, NEW i \in DOMAIN asleep, Kill(i)
    PROVE  ProfileInv'
<1> USE DEF ProfileInv
<1>1. /\ killed' = killed \cup {asleep[i].proc} /\ asleep' = RemoveAt(asleep, i)
      /\ UNCHANGED <<procs_to_profile, profiles, sleeping_profiles, next_profile_id,
                     new_call, running, enabled, missed>>
  BY DEF Kill, profileVars
<1>2. asleep \in Seq(Contexts) /\ AloneIn(asleep)
  BY DEF ProfileType, AloneMeansAlone
<1>3. /\ asleep' \in Seq(Contexts) /\ AloneIn(asleep')
      /\ \A j \in DOMAIN asleep' : \E k \in DOMAIN asleep \ {i} : asleep'[j] = asleep[k]
      /\ \A k \in DOMAIN asleep \ {i} : \E j \in DOMAIN asleep' : asleep'[j] = asleep[k]
  BY <1>1, <1>2, TakenFromAsleep
<1>4. ProfileType' /\ NeverForgotten' /\ IdleHasNoCall' /\ RunsRecorded'
  BY <1>1, <1>3 DEF ProfileType, NeverForgotten, IdleHasNoCall, RunsRecorded
<1>5. ProfilesHaveContexts'
  <2>1. ASSUME NEW q \in Procs, sleeping_profiles[q] # 0, q \notin killed'
        PROVE  \E j \in DOMAIN asleep' : asleep'[j].proc = q
    <3>1. PICK k \in DOMAIN asleep : asleep[k].proc = q
      BY <1>1, <2>1 DEF ProfilesHaveContexts
    <3>2. k # i
      BY <1>1, <2>1, <3>1
    <3>3. QED
      BY <1>3, <3>1, <3>2
  <2>2. QED
    BY <1>1, <2>1 DEF ProfilesHaveContexts
<1>6. AloneMeansAlone' /\ WantedIsProfiled'
  <2>1. AloneMeansAlone'
    BY <1>1, <1>3 DEF AloneMeansAlone
  <2>2. WantedIsProfiled'
    BY <1>1, <1>3 DEF WantedIsProfiled
  <2>3. QED
    BY <2>1, <2>2
<1>7. QED
  BY <1>4, <1>5, <1>6

LEMMA Step ==
    ASSUME ProfileInv, [Next]_vars
    PROVE  ProfileInv'
<1>1. CASE UNCHANGED vars
  BY <1>1 DEF vars, profileVars, contextVars, ProfileInv, ProfileType, NeverForgotten,
              ProfilesHaveContexts, AloneMeansAlone, AloneIn, WantedIsProfiled,
              IdleHasNoCall, RunsRecorded
<1>2. QED
  BY <1>1, ProfilingAssumption, EnableKeeps, DisableKeeps, CallKeeps, ResumeKeeps, EndKeeps, SuspendKeeps, KillKeeps DEF Next

LEMMA Invariance == Spec => []ProfileInv
<1>1. ProfileInv /\ [Next]_vars => ProfileInv'
  BY Step
<1>2. QED
  BY <1>1, Initially, PTL DEF Spec

(* hCreateContext, hSuspend and hProcCleanup: a run asked for when it was  *)
(* called, and since then, is written to a file at each sleep and at its   *)
(* end, if no other run of the proc overlapped it and none was killed.     *)
THEOREM EveryRunIsRecorded == Spec => []RunsRecorded
<1>1. ProfileInv => RunsRecorded
  BY DEF ProfileInv
<1>2. QED
  BY <1>1, Invariance, PTL

(* A proc asked for is waiting to be profiled or has one profile, running  *)
(* or sleeping (procs_to_profile, profiles, sleeping_profiles).            *)
THEOREM RequestsAreKept == Spec => []NeverForgotten
<1>1. ProfileInv => NeverForgotten
  BY DEF ProfileInv
<1>2. QED
  BY <1>1, Invariance, PTL

-----------------------------------------------------------------------------
(***************************************************************************)
(* The memory profiler: what is counted, counter by counter, and as whole  *)
(* numbers that differ from the counters by turns of an unsigned int.      *)
(***************************************************************************)
Wrap == 2 ^ Width

Alike(a, b) == Same(Wrap, a, b)

Counter == 0 .. Wrap - 1

\* What makes an entity's or a type's total.
Parts(kind) == Fields(kind) \cup {"base"}

TypeUsage(kind) == [Parts(kind) \cup {"instances"} -> Counter]

Slot(kind) == Entity(kind) \cup {NoEntity}

Taken(table) == [i \in DOMAIN table |-> TakenBy(table[i])]

Filled(table) == [i \in DOMAIN table |-> IF table[i] # NoEntity THEN 1 ELSE 0]

ByType(kind, entries) == [t \in DOMAIN entries |-> SumAll(entries[t], Parts(kind))]

Instances(entries) == [t \in DOMAIN entries |-> entries[t].instances]

KeepsEntries(kind, entries) ==
    /\ IsFiniteSet(DOMAIN entries)
    /\ entries \in [DOMAIN entries -> TypeUsage(kind)]

\* f accounts for the first n slots of a table of that kind.
Counts(kind, f, table, n) ==
    /\ DOMAIN f = {"entries", "total_instances", "table", "total"}
    /\ f.total \in Counter /\ f.total_instances \in Counter /\ f.table \in Counter
    /\ KeepsEntries(kind, f.entries)
    /\ Alike(f.total, f.table + SumAll(Taken(table), 1 .. n))
    /\ Alike(f.total_instances, SumAll(Filled(table), 1 .. n))
    /\ Alike(f.total, f.table + SumAll(ByType(kind, f.entries), DOMAIN f.entries))
    /\ Alike(f.total_instances, SumAll(Instances(f.entries), DOMAIN f.entries))

LEMMA CountersWrap == Wraps(Wrap) /\ 0 \in Counter
  BY MemoryAssumption DEF Wrap, Wraps, Counter

LEMMA UnsignedIsAlike ==
    ASSUME NEW a \in Int
    PROVE  Unsigned(a) \in Counter /\ Unsigned(a) \in Nat /\ Alike(Unsigned(a), a)
<1>1. a % Wrap \in 0 .. Wrap - 1 /\ Same(Wrap, a % Wrap, a)
  BY CountersWrap, SameRemainder
<1>2. 0 .. Wrap - 1 \subseteq Nat
  BY CountersWrap DEF Wraps
<1>3. QED
  BY <1>1, <1>2 DEF Unsigned, Alike, Counter, Wrap

LEMMA AlikeIsEqual ==
    ASSUME NEW a \in Int, NEW b \in Int, Alike(a, b)
    PROVE  Unsigned(a) = Unsigned(b)
BY CountersWrap, SameModulo DEF Unsigned, Alike, Wrap

LEMMA AlikeCounter ==
    ASSUME NEW a \in Counter, NEW b \in Int, Alike(a, b)
    PROVE  a = Unsigned(b)
<1>1. a \in Int /\ Unsigned(b) \in Counter /\ Unsigned(b) \in Int /\ Alike(Unsigned(b), b)
  BY CountersWrap, UnsignedIsAlike DEF Counter, Wraps
<1>2. Alike(a, Unsigned(b))
  BY <1>1, CountersWrap, SameThrough, SameSwapped DEF Alike
<1>3. QED
  BY <1>1, <1>2, CountersWrap, SameRest DEF Alike, Counter

LEMMA CountersAreNumbers == Counter \subseteq Nat /\ Counter \subseteq Int
  BY CountersWrap DEF Counter, Wraps

LEMMA KindsOfParts ==
    ASSUME NEW kind \in Kinds
    PROVE  /\ IsFiniteSet(Fields(kind)) /\ IsFiniteSet(Parts(kind))
           /\ IsFiniteSet(Parts(kind) \cup {"instances"})
           /\ "base" \notin Fields(kind) /\ "instances" \notin Parts(kind)
           /\ "total" \notin Parts(kind) \cup {"instances"}
           /\ \A p \in Fields(kind) : SizeOf(p) \in Nat
           /\ SizeOf("base") = 3 /\ SizeOf("pointer") = 1
<1> DEFINE FieldNames == {"modified_vars"} \cup {"vis_contents"} \cup {"vis_locs"}
                       \cup {"simple_linked_list"} \cup {"complex_linked_list"}
                       \cup {"unknown_linked_list_1"} \cup {"unknown_linked_list_2"}
                       \cup {"unknown_linked_list_3"} \cup {"unknown_table_1"}
                       \cup {"unknown_table_2"}
<1>1. IsFiniteSet(Fields(kind)) /\ "base" \notin Fields(kind)
      /\ "instances" \notin Fields(kind) /\ "total" \notin Fields(kind)
  <2>1. IsFiniteSet(FieldNames)
    BY FS_Singleton, FS_Union
  <2>2. kind = "obj" \/ kind = "datum" \/ kind = "mob"
    BY DEF Kinds
  <2>3. Fields(kind) \subseteq FieldNames
    BY <2>2 DEF Fields
  <2>4. IsFiniteSet(Fields(kind))
    <3> HIDE DEF FieldNames
    <3> QED
      BY <2>1, <2>3, FS_Subset
  <2>5. "base" \notin FieldNames /\ "instances" \notin FieldNames /\ "total" \notin FieldNames
    OBVIOUS
  <2>6. QED
    BY <2>3, <2>4, <2>5
<1>2. \A p : SizeOf(p) \in Nat
  BY DEF SizeOf
<1>3. SizeOf("base") = 3 /\ SizeOf("pointer") = 1
  BY DEF SizeOf
<1>4. IsFiniteSet(Parts(kind))
  BY <1>1, FS_AddElement DEF Parts
<1>5. IsFiniteSet(Parts(kind) \cup {"instances"})
  BY <1>4, FS_AddElement
<1>6. QED
  BY <1>1, <1>2, <1>3, <1>4, <1>5 DEF Parts
(* What an entity adds to its type, and to the table.                      *)
LEMMA UsageOfEntity ==
    ASSUME NEW kind \in Kinds, NEW e \in Entity(kind)
    PROVE  /\ Usage(kind, e) \in [Parts(kind) -> Nat]
           /\ Usage(kind, e).base # 0
           /\ TakenBy(e) \in Int
           /\ Alike(SumAll(Usage(kind, e), Parts(kind)), TakenBy(e))
           /\ Total(Usage(kind, e)) = Unsigned(SumAll(Usage(kind, e), Parts(kind)))
<1> DEFINE F == Fields(kind)
           u == Usage(kind, e)
           true == [p \in F |-> e.parts[p] * SizeOf(p)]
<1>1. e # NoEntity /\ e.parts \in [F -> Nat]
  BY MemoryAssumption DEF Entity
<1>2. /\ IsFiniteSet(F) /\ IsFiniteSet(Parts(kind)) /\ "base" \notin F
      /\ \A p \in F : SizeOf(p) \in Nat
      /\ SizeOf("base") = 3
  BY KindsOfParts
<1>3. u = [p \in Parts(kind) |->
             IF p = "base" THEN 3 ELSE Unsigned(e.parts[p] * SizeOf(p))]
  BY <1>1, <1>2 DEF Usage, Parts
<1>4. \A p \in F : e.parts[p] * SizeOf(p) \in Int
  BY <1>1, <1>2
<1>5. Integral(true, F)
  BY <1>4 DEF Integral
<1>6. TakenBy(e) = 3 + SumAll(true, F)
  <2>1. DOMAIN true = F /\ true = [p \in DOMAIN e.parts |-> e.parts[p] * SizeOf(p)]
    BY <1>1
  <2> HIDE DEF true
  <2>2. TakenBy(e) = SizeOf("base") + Sum(true)
    BY ONLY <1>1, <2>1 DEF TakenBy
  <2>3. Sum(true) = SumAll(true, F)
    BY <2>1 DEF Sum, SumAll
  <2>4. QED
    BY <1>2, <2>2, <2>3
<1>7. SumAll(true, F) \in Int
  BY <1>2, <1>5, SumType
<1>8. \A p \in F : u[p] \in Nat /\ Alike(u[p], true[p])
  BY <1>2, <1>3, <1>4, UnsignedIsAlike DEF Parts
<1>9. u \in [Parts(kind) -> Nat] /\ u.base = 3
  BY <1>3, <1>8 DEF Parts
<1> HIDE DEF u, true, F
<1>10. Integral(u, F) /\ Integral(u, F \cup {"base"})
  BY <1>9 DEF Integral, Parts, F
<1>11. SumAll(u, F \cup {"base"}) = 3 + SumAll(u, F)
  BY <1>2, <1>9, <1>10, SumMore
<1>12. Same(Wrap, SumAll(u, F), SumAll(true, F))
  BY <1>2, <1>5, <1>8, <1>10, CountersWrap, SameSums DEF Alike
<1>13. SumAll(u, F) \in Int
  BY <1>2, <1>10, SumType
<1>14. Same(Wrap, 3 + SumAll(u, F), 3 + SumAll(true, F))
  <2>1. Same(Wrap, 3, 3)
    BY CountersWrap, SameItself
  <2>2. QED
    BY <1>7, <1>12, <1>13, <2>1, CountersWrap, SameSum
<1>15. Parts(kind) = F \cup {"base"}
  BY DEF Parts, F
<1>16. Total(u) = Unsigned(SumAll(u, Parts(kind)))
  BY <1>9 DEF Total, Sum, SumAll
<1>17. QED
  BY <1>6, <1>7, <1>9, <1>11, <1>14, <1>15, <1>16 DEF u, Alike

(* A sum over what there was and one element that is new or has changed.   *)
RaisedAt(x, D, f, g, a) ==
    /\ Integral(f, D) /\ Integral(g, D \cup {x}) /\ a \in Int
    /\ x \in D => f[x] = a
    /\ x \notin D => a = 0
    /\ \A y \in D \ {x} : g[y] = f[y]

LEMMA SumRaised ==
    ASSUME NEW D, IsFiniteSet(D), NEW x, NEW f, NEW g, NEW a, RaisedAt(x, D, f, g, a)
    PROVE  /\ SumAll(g, D \cup {x}) = SumAll(f, D) + (g[x] - a)
           /\ SumAll(f, D) \in Int /\ g[x] \in Int
<1> USE DEF RaisedAt
<1>1. g[x] \in Int /\ SumAll(f, D) \in Int
  BY SumType DEF Integral
<1>2. CASE x \in D
  <2>1. D \cup {x} = D
    BY <1>2
  <2>2. SumAll(g, D) = SumAll(f, D) + g[x] - f[x]
    BY <1>2, <2>1, SumChange
  <2>3. QED
    BY <1>1, <1>2, <2>1, <2>2
<1>3. CASE x \notin D
  <2>1. SumAll(g, D \cup {x}) = g[x] + SumAll(g, D)
    BY <1>3, SumMore
  <2>2. \A y \in D : f[y] = g[y]
    BY <1>3
  <2>3. SumAll(f, D) = SumAll(g, D)
    BY <2>2, SumSame
  <2>4. QED
    BY <1>1, <1>3, <2>1, <2>3
<1>4. QED
  BY <1>2, <1>3

(* A counter that is counted up by what a sum grows by keeps up with it.   *)
LEMMA CounterKeepsUp ==
    ASSUME NEW c \in Int, NEW s \in Int, NEW b \in Int, NEW d \in Int,
           NEW e \in Int, NEW h \in Int,
           Alike(c, b + s), Alike(d, e), Alike(h, s + e)
    PROVE  Alike(c + d, b + h)
<1>1. Alike(c + d, (b + s) + e)
  BY CountersWrap, SameSum DEF Alike
<1>2. Alike(b + (s + e), b + h)
  <2>1. Same(Wrap, b, b) /\ Same(Wrap, s + e, h)
    BY CountersWrap, SameItself, SameSwapped DEF Alike
  <2>2. QED
    BY <2>1, CountersWrap, SameSum DEF Alike
<1>3. (b + s) + e = b + (s + e)
  OBVIOUS
<1>4. QED
  BY <1>1, <1>2, <1>3, CountersWrap, SameThrough DEF Alike
LEMMA SumOfUsage ==
    ASSUME NEW kind \in Kinds, NEW u, Integral(u, Parts(kind))
    PROVE  SumAll(u, Parts(kind)) \in Int
BY KindsOfParts, SumType

(* One entity more of a type.                                              *)
LEMMA AddedKeeps ==
    ASSUME NEW kind \in Kinds, NEW u \in TypeUsage(kind), NEW usage \in [Parts(kind) -> Nat]
    PROVE  /\ Added(u, usage) \in TypeUsage(kind)
           /\ SumAll(u, Parts(kind)) \in Int /\ SumAll(usage, Parts(kind)) \in Int
           /\ SumAll(Added(u, usage), Parts(kind)) \in Int
           /\ Alike(SumAll(Added(u, usage), Parts(kind)),
                    SumAll(u, Parts(kind)) + SumAll(usage, Parts(kind)))
           /\ Alike(Added(u, usage).instances, u.instances + 1)
<1> DEFINE P == Parts(kind)
           v == Added(u, usage)
           w == [p \in P |-> u[p] + usage[p]]
<1>1. IsFiniteSet(P) /\ "instances" \notin P
  BY KindsOfParts
<1>2. DOMAIN u = P \cup {"instances"} /\ \A p \in P \cup {"instances"} : u[p] \in Nat
  BY CountersAreNumbers DEF TypeUsage
<1>3. v = [p \in P \cup {"instances"} |->
             Unsigned(u[p] + IF p = "instances" THEN 1 ELSE usage[p])]
  BY <1>2 DEF Added
<1>4. \A p \in P : /\ v[p] \in Counter /\ v[p] \in Int /\ Alike(v[p], w[p])
                  /\ u[p] \in Int /\ usage[p] \in Int /\ w[p] \in Int
  <2> SUFFICES ASSUME NEW p \in P
               PROVE  /\ v[p] \in Counter /\ v[p] \in Int /\ Alike(v[p], w[p])
                      /\ u[p] \in Int /\ usage[p] \in Int /\ w[p] \in Int
    OBVIOUS
  <2>1. v[p] = Unsigned(u[p] + usage[p])
    BY <1>1, <1>3
  <2>2. u[p] \in Int /\ usage[p] \in Int /\ u[p] + usage[p] \in Int
    BY <1>2
  <2>3. QED
    BY <2>1, <2>2, UnsignedIsAlike
<1>5. v.instances = Unsigned(u.instances + 1) /\ u.instances + 1 \in Int
  BY <1>2, <1>3
<1>6. v.instances \in Counter /\ Alike(v.instances, u.instances + 1)
  BY <1>5, UnsignedIsAlike
<1>7. v \in TypeUsage(kind)
  BY <1>3, <1>4, <1>6 DEF TypeUsage
<1>8. Integral(u, P) /\ Integral(usage, P) /\ Integral(v, P) /\ Integral(w, P)
  BY <1>4 DEF Integral
<1>9. \A p \in P : w[p] = u[p] + usage[p]
  OBVIOUS
<1> HIDE DEF w, v
<1>10. SumAll(w, P) = SumAll(u, P) + SumAll(usage, P)
  BY <1>1, <1>8, <1>9, SumPlus
<1>11. Alike(SumAll(v, P), SumAll(w, P))
  BY <1>1, <1>4, <1>8, CountersWrap, SameSums DEF Alike
<1>12. QED
  BY <1>6, <1>7, <1>8, <1>10, <1>11, SumOfUsage DEF v

LEMMA NothingUsed ==
    ASSUME NEW kind \in Kinds
    PROVE  /\ NoUsage(kind) \in TypeUsage(kind)
           /\ SumAll(NoUsage(kind), Parts(kind)) = 0
           /\ NoUsage(kind).instances = 0
<1>1. NoUsage(kind) = [p \in Parts(kind) \cup {"instances"} |-> 0]
  BY DEF NoUsage, Parts
<1>2. NoUsage(kind) \in TypeUsage(kind)
  BY <1>1, CountersWrap DEF TypeUsage
<1>3. SumAll(NoUsage(kind), Parts(kind)) = 0
  BY <1>1, KindsOfParts, SumZero
<1>4. QED
  BY <1>1, <1>2, <1>3

LEMMA EntriesHaveSums ==
    ASSUME NEW kind \in Kinds, NEW entries, KeepsEntries(kind, entries)
    PROVE  /\ IsFiniteSet(DOMAIN entries)
           /\ Integral(ByType(kind, entries), DOMAIN entries)
           /\ Integral(Instances(entries), DOMAIN entries)
           /\ SumAll(ByType(kind, entries), DOMAIN entries) \in Int
           /\ SumAll(Instances(entries), DOMAIN entries) \in Int
<1>1. \A w \in TypeUsage(kind) : SumAll(w, Parts(kind)) \in Int /\ w.instances \in Int
  <2>1. ASSUME NEW w \in TypeUsage(kind)
        PROVE  Integral(w, Parts(kind)) /\ w.instances \in Int
    BY CountersAreNumbers DEF TypeUsage, Integral
  <2>2. QED
    BY <2>1, SumOfUsage
<1>2. /\ IsFiniteSet(DOMAIN entries)
      /\ Integral(ByType(kind, entries), DOMAIN entries)
      /\ Integral(Instances(entries), DOMAIN entries)
  BY <1>1 DEF KeepsEntries, ByType, Instances, Integral
<1>3. QED
  BY <1>2, SumType

Old(kind, entries, t) == IF t \in DOMAIN entries THEN entries[t] ELSE NoUsage(kind)

Grown(kind, entries, t, usage) ==
    [s \in DOMAIN entries \cup {t} |->
       IF s = t THEN Added(Old(kind, entries, t), usage) ELSE entries[s]]

(* The entries of all types grow by what the entity takes, and by one.     *)
LEMMA EntriesGrow ==
    ASSUME NEW kind \in Kinds, NEW entries, KeepsEntries(kind, entries),
           NEW t, NEW usage \in [Parts(kind) -> Nat],
           NEW c \in Int, NEW b \in Int, NEW d \in Int, NEW n \in Int, NEW k \in Int,
           Alike(c, b + SumAll(ByType(kind, entries), DOMAIN entries)),
           Alike(d, SumAll(usage, Parts(kind))),
           Alike(n, SumAll(Instances(entries), DOMAIN entries)),
           Alike(k, 1),
           NEW new, new = Grown(kind, entries, t, usage)
    PROVE  /\ KeepsEntries(kind, new)
           /\ Alike(c + d, b + SumAll(ByType(kind, new), DOMAIN new))
           /\ Alike(n + k, SumAll(Instances(new), DOMAIN new))
<1> DEFINE D == DOMAIN entries
           u == Old(kind, entries, t)
           v == Added(u, usage)
           f == ByType(kind, entries)
           g == ByType(kind, new)
           i == Instances(entries)
           j == Instances(new)
           us == SumAll(usage, Parts(kind))
           a == SumAll(u, Parts(kind))
           z == SumAll(v, Parts(kind))
<1>1. IsFiniteSet(D) /\ \A s \in D : entries[s] \in TypeUsage(kind)
  BY DEF KeepsEntries
<1>2. u \in TypeUsage(kind)
  BY <1>1, NothingUsed DEF Old
<1>3. /\ v \in TypeUsage(kind) /\ a \in Int /\ z \in Int /\ us \in Int
      /\ Alike(z, a + us) /\ Alike(v.instances, u.instances + 1)
  BY <1>2, AddedKeeps
<1>4. DOMAIN new = D \cup {t} /\ new[t] = v /\ \A s \in D \ {t} : new[s] = entries[s]
  BY DEF Grown
<1>5. IsFiniteSet(D \cup {t}) /\ \A s \in D \cup {t} : new[s] \in TypeUsage(kind)
  BY <1>1, <1>3, <1>4, FS_AddElement
<1>6. KeepsEntries(kind, new)
  <2>1. new = [s \in DOMAIN new |-> new[s]]
    BY DEF Grown
  <2>2. QED
    BY <1>4, <1>5, <2>1 DEF KeepsEntries
<1>7. \A w \in TypeUsage(kind) : SumAll(w, Parts(kind)) \in Int /\ w.instances \in Int
  <2>1. ASSUME NEW w \in TypeUsage(kind)
        PROVE  Integral(w, Parts(kind)) /\ w.instances \in Int
    BY CountersAreNumbers DEF TypeUsage, Integral
  <2>2. QED
    BY <2>1, SumOfUsage
<1>8. /\ Integral(f, D) /\ Integral(g, D \cup {t})
      /\ Integral(i, D) /\ Integral(j, D \cup {t})
  BY <1>1, <1>4, <1>5, <1>7 DEF Integral, ByType, Instances
<1>9. /\ t \in D => f[t] = a /\ i[t] = u.instances
      /\ t \notin D => a = 0 /\ u.instances = 0
      /\ u.instances \in Int /\ v.instances \in Int
      /\ g[t] = z /\ j[t] = v.instances
      /\ \A s \in D \ {t} : g[s] = f[s] /\ j[s] = i[s]
  BY <1>2, <1>3, <1>4, <1>7, NothingUsed DEF Old, ByType, Instances
<1>10. RaisedAt(t, D, f, g, a) /\ RaisedAt(t, D, i, j, u.instances)
  BY <1>3, <1>8, <1>9 DEF RaisedAt
<1> HIDE DEF D, u, v, f, g, i, j, us, a, z
<1>11. /\ SumAll(g, D \cup {t}) = SumAll(f, D) + (z - a)
       /\ SumAll(f, D) \in Int
  <2>1. /\ SumAll(g, D \cup {t}) = SumAll(f, D) + (g[t] - a)
        /\ SumAll(f, D) \in Int
    BY ONLY <1>1, <1>10, SumRaised
  <2>2. QED
    BY <1>9, <2>1
<1>12. /\ SumAll(j, D \cup {t}) = SumAll(i, D) + (v.instances - u.instances)
       /\ SumAll(i, D) \in Int
  <2>1. /\ SumAll(j, D \cup {t}) = SumAll(i, D) + (j[t] - u.instances)
        /\ SumAll(i, D) \in Int
    BY ONLY <1>1, <1>10, SumRaised
  <2>2. QED
    BY <1>9, <2>1
<1>13. Alike(SumAll(g, D \cup {t}), SumAll(f, D) + us)
  <2>1. Alike(SumAll(f, D) - a, SumAll(f, D) - a)
    BY <1>3, <1>11, CountersWrap, SameItself DEF Alike
  <2>2. Alike((SumAll(f, D) - a) + z, (SumAll(f, D) - a) + (a + us))
    BY <1>3, <1>11, <2>1, CountersWrap, SameSum DEF Alike
  <2>3. /\ (SumAll(f, D) - a) + z = SumAll(g, D \cup {t})
        /\ (SumAll(f, D) - a) + (a + us) = SumAll(f, D) + us
    BY <1>3, <1>11
  <2>4. QED
    BY <2>2, <2>3
<1>14. Alike(SumAll(j, D \cup {t}), SumAll(i, D) + 1)
  <2> DEFINE m == u.instances
             o == v.instances
  <2>1. m \in Int /\ o \in Int /\ Alike(o, m + 1)
    BY <1>3, <1>9
  <2> HIDE DEF m, o
  <2>2. Alike(SumAll(i, D) - m, SumAll(i, D) - m)
    BY <1>12, <2>1, CountersWrap, SameItself DEF Alike
  <2>3. Alike((SumAll(i, D) - m) + o, (SumAll(i, D) - m) + (m + 1))
    BY <1>12, <2>1, <2>2, CountersWrap, SameSum DEF Alike
  <2>4. /\ (SumAll(i, D) - m) + o = SumAll(j, D \cup {t})
        /\ (SumAll(i, D) - m) + (m + 1) = SumAll(i, D) + 1
    BY <1>12, <2>1 DEF m, o
  <2>5. QED
    BY <2>3, <2>4
<1>15. Alike(c + d, b + SumAll(g, D \cup {t}))
  <2>1. Alike(c, b + SumAll(f, D)) /\ Alike(d, us) /\ SumAll(g, D \cup {t}) \in Int
    BY <1>3, <1>11 DEF f, D, us
  <2>2. QED
    BY <1>3, <1>11, <1>13, <2>1, CounterKeepsUp
<1>16. Alike(n + k, SumAll(j, D \cup {t}))
  <2> DEFINE I == SumAll(i, D)
             J == SumAll(j, D \cup {t})
  <2>1. Alike(n, I) /\ I \in Int /\ J \in Int /\ Alike(J, I + 1)
    BY <1>9, <1>12, <1>14 DEF i, D
  <2> HIDE DEF I, J
  <2>2. Alike(n + k, I + 1)
    BY <2>1, CountersWrap, SameSum DEF Alike
  <2>3. Alike(I + 1, J)
    BY <2>1, CountersWrap, SameSwapped DEF Alike
  <2>4. Alike(n + k, J)
    BY <2>1, <2>2, <2>3, CountersWrap, SameThrough DEF Alike
  <2>5. QED
    BY <2>4 DEF J
<1>17. QED
  BY <1>4, <1>6, <1>15, <1>16 DEF g, j, D
-----------------------------------------------------------------------------
(* The functions of slots that the sums are over.                          *)
LEMMA SlotsAreCounted ==
    ASSUME NEW kind \in Kinds, NEW table \in Seq(Slot(kind))
    PROVE  /\ Len(table) \in Nat /\ DOMAIN table = 1 .. Len(table)
           /\ \A n \in 0 .. Len(table) :
                /\ IsFiniteSet(1 .. n)
                /\ Integral(Taken(table), 1 .. n) /\ Integral(Filled(table), 1 .. n)
                /\ SumAll(Taken(table), 1 .. n) \in Int
                /\ SumAll(Filled(table), 1 .. n) \in Int
<1>1. Len(table) \in Nat /\ DOMAIN table = 1 .. Len(table)
  OBVIOUS
<1>2. \A i \in 1 .. Len(table) : table[i] \in Entity(kind) \/ table[i] = NoEntity
  BY DEF Slot
<1>3. \A i \in 1 .. Len(table) : TakenBy(table[i]) \in Int
  <2>1. TakenBy(NoEntity) = 0
    BY DEF TakenBy
  <2>2. QED
    BY <1>2, <2>1, UsageOfEntity
<1>4. \A i \in 1 .. Len(table) : Taken(table)[i] \in Int /\ Filled(table)[i] \in Int
  BY <1>1, <1>3 DEF Taken, Filled
<1>5. ASSUME NEW n \in 0 .. Len(table)
      PROVE  /\ IsFiniteSet(1 .. n)
             /\ Integral(Taken(table), 1 .. n) /\ Integral(Filled(table), 1 .. n)
  <2>1. IsFiniteSet(1 .. n)
    BY FS_Interval
  <2>2. QED
    BY <1>1, <1>4, <2>1 DEF Integral
<1>6. QED
  BY <1>1, <1>5, SumType

LEMMA SlotAfterSlot ==
    ASSUME NEW kind \in Kinds, NEW table \in Seq(Slot(kind)),
           NEW n \in 0 .. Len(table) - 1
    PROVE  /\ SumAll(Taken(table), 1 .. n + 1)
                = TakenBy(table[n + 1]) + SumAll(Taken(table), 1 .. n)
           /\ SumAll(Filled(table), 1 .. n + 1)
                = (IF table[n + 1] # NoEntity THEN 1 ELSE 0) + SumAll(Filled(table), 1 .. n)
<1>1. n \in 0 .. Len(table) /\ n + 1 \in 0 .. Len(table) /\ n + 1 \in DOMAIN table
  BY SlotsAreCounted
<1>2. 1 .. n + 1 = (1 .. n) \cup {n + 1} /\ n + 1 \notin 1 .. n
  BY <1>1
<1> DEFINE f == Taken(table)
           g == Filled(table)
<1>3. IsFiniteSet(1 .. n) /\ Integral(f, (1 .. n) \cup {n + 1}) /\ Integral(g, (1 .. n) \cup {n + 1})
  BY <1>1, <1>2, SlotsAreCounted
<1>4. /\ f[n + 1] = TakenBy(table[n + 1])
      /\ g[n + 1] = IF table[n + 1] # NoEntity THEN 1 ELSE 0
  BY <1>1 DEF Taken, Filled
<1> HIDE DEF f, g
<1>5. /\ SumAll(f, (1 .. n) \cup {n + 1}) = f[n + 1] + SumAll(f, 1 .. n)
      /\ SumAll(g, (1 .. n) \cup {n + 1}) = g[n + 1] + SumAll(g, 1 .. n)
  BY <1>2, <1>3, SumMore
<1>6. QED
  BY <1>2, <1>4, <1>5 DEF f, g

(* An empty slot is passed by.                                             *)
LEMMA EmptySlotCounts ==
    ASSUME NEW kind \in Kinds, NEW table \in Seq(Slot(kind)),
           NEW n \in 0 .. Len(table) - 1, NEW f, Counts(kind, f, table, n),
           table[n + 1] = NoEntity
    PROVE  Counts(kind, f, table, n + 1)
<1>1. TakenBy(table[n + 1]) = 0
  BY DEF TakenBy
<1>2. n \in 0 .. Len(table)
  OBVIOUS
<1>3. /\ SumAll(Taken(table), 1 .. n + 1) = SumAll(Taken(table), 1 .. n)
      /\ SumAll(Filled(table), 1 .. n + 1) = SumAll(Filled(table), 1 .. n)
  BY <1>1, <1>2, SlotAfterSlot, SlotsAreCounted
<1>4. QED
  BY <1>3 DEF Counts

LEMMA EntitySlotCounts ==
    ASSUME NEW kind \in Kinds, NEW table \in Seq(Slot(kind)),
           NEW n \in 0 .. Len(table) - 1, NEW f, Counts(kind, f, table, n),
           table[n + 1] # NoEntity
    PROVE  Counts(kind, Measured(kind, f, table[n + 1]), table, n + 1)
<1> DEFINE e == table[n + 1]
           usage == Usage(kind, e)
           us == SumAll(usage, Parts(kind))
           new == Grown(kind, f.entries, e.type, usage)
           g == Measured(kind, f, e)
<1>1. e \in Entity(kind)
  BY SlotsAreCounted DEF Slot
<1>2. /\ usage \in [Parts(kind) -> Nat] /\ us \in Int
      /\ TakenBy(e) \in Int /\ Alike(us, TakenBy(e)) /\ Total(usage) = Unsigned(us)
  <2>1. Integral(usage, Parts(kind))
    BY <1>1, UsageOfEntity DEF Integral
  <2>2. us \in Int
    BY <2>1, SumOfUsage
  <2>3. QED
    BY <1>1, <2>2, UsageOfEntity
<1>3. /\ DOMAIN f = {"entries", "total_instances", "table", "total"}
      /\ f.total \in Counter /\ f.total_instances \in Counter /\ f.table \in Counter
      /\ KeepsEntries(kind, f.entries)
      /\ Alike(f.total, f.table + SumAll(Taken(table), 1 .. n))
      /\ Alike(f.total_instances, SumAll(Filled(table), 1 .. n))
      /\ Alike(f.total, f.table + SumAll(ByType(kind, f.entries), DOMAIN f.entries))
      /\ Alike(f.total_instances, SumAll(Instances(f.entries), DOMAIN f.entries))
  BY DEF Counts
<1>4. f.total \in Int /\ f.total_instances \in Int /\ f.table \in Int
  BY <1>3, CountersAreNumbers
<1>5. /\ DOMAIN g = {"entries", "total_instances", "table", "total"}
      /\ g.total = Unsigned(f.total + Total(usage))
      /\ g.total_instances = Unsigned(f.total_instances + 1)
      /\ g.table = f.table /\ g.entries = new
  BY <1>3 DEF Measured, Grown, Old
<1>6. Total(usage) \in Int /\ Alike(Total(usage), us)
  BY <1>2, UnsignedIsAlike, CountersAreNumbers
<1> DEFINE T == f.total + Total(usage)
           I == f.total_instances + 1
<1>7. /\ T \in Int /\ I \in Int
      /\ g.total \in Counter /\ g.total \in Int /\ Alike(g.total, T)
      /\ g.total_instances \in Counter /\ g.total_instances \in Int
      /\ Alike(g.total_instances, I)
  <2>1. T \in Int /\ I \in Int /\ g.total = Unsigned(T) /\ g.total_instances = Unsigned(I)
    BY <1>4, <1>5, <1>6
  <2> HIDE DEF T, I, g
  <2>2. QED
    BY <2>1, UnsignedIsAlike, CountersAreNumbers
<1>8. Alike(1, 1)
  BY CountersWrap, SameItself DEF Alike
<1> HIDE DEF e, usage, us, g, new
<1>9. /\ KeepsEntries(kind, new)
      /\ Alike(T, f.table + SumAll(ByType(kind, new), DOMAIN new))
      /\ Alike(I, SumAll(Instances(new), DOMAIN new))
  BY <1>2, <1>3, <1>4, <1>6, <1>8, EntriesGrow DEF new, us
<1>10. /\ SumAll(ByType(kind, new), DOMAIN new) \in Int
       /\ SumAll(Instances(new), DOMAIN new) \in Int
  BY <1>9, EntriesHaveSums
<1> DEFINE A == SumAll(Taken(table), 1 .. n)
           B == SumAll(Filled(table), 1 .. n)
           A1 == SumAll(Taken(table), 1 .. n + 1)
           B1 == SumAll(Filled(table), 1 .. n + 1)
<1>11. /\ A \in Int /\ B \in Int /\ A1 = TakenBy(e) + A /\ B1 = 1 + B
  <2>1. n \in 0 .. Len(table)
    OBVIOUS
  <2>2. QED
    BY <2>1, SlotsAreCounted, SlotAfterSlot DEF e
<1>12. Alike(T, f.table + A1) /\ f.table + A1 \in Int
  <2> HIDE DEF A, A1, T
  <2>1. Alike(Total(usage), TakenBy(e))
    BY <1>2, <1>6, CountersWrap, SameThrough DEF Alike
  <2>2. Alike(f.total + Total(usage), (f.table + A) + TakenBy(e))
    BY <1>2, <1>3, <1>4, <1>6, <1>11, <2>1, CountersWrap, SameSum DEF Alike, A
  <2>3. (f.table + A) + TakenBy(e) = f.table + A1
    BY <1>2, <1>4, <1>11
  <2>4. QED
    BY <1>2, <1>4, <1>11, <2>2, <2>3 DEF T
<1>13. Alike(I, B1) /\ B1 \in Int
  <2> HIDE DEF B, B1, I
  <2>1. Alike(f.total_instances + 1, B + 1)
    BY <1>3, <1>4, <1>8, <1>11, CountersWrap, SameSum DEF Alike, B
  <2>2. QED
    BY <1>11, <2>1 DEF I
<1> HIDE DEF T, I
<1>14. /\ Alike(g.total, f.table + A1) /\ Alike(g.total_instances, B1)
       /\ Alike(g.total, f.table + SumAll(ByType(kind, new), DOMAIN new))
       /\ Alike(g.total_instances, SumAll(Instances(new), DOMAIN new))
  <2>1. f.table + SumAll(ByType(kind, new), DOMAIN new) \in Int
    BY <1>4, <1>10
  <2>2. QED
    BY <1>7, <1>9, <1>10, <1>12, <1>13, <2>1, CountersWrap, SameThrough DEF Alike
<1>15. Counts(kind, g, table, n + 1)
  BY <1>3, <1>5, <1>7, <1>9, <1>14 DEF Counts
<1>16. QED
  BY <1>15 DEF g, e
LEMMA NothingCounted ==
    ASSUME NEW kind \in Kinds, NEW table \in Seq(Slot(kind))
    PROVE  Counts(kind, NothingYet, table, 0) /\ NothingYet.table = 0
<1> DEFINE none == [t \in {} |-> NoUsage("obj")]
<1>1. KeepsEntries(kind, none)
  <2>1. DOMAIN none = {} /\ none \in [{} -> TypeUsage(kind)]
    OBVIOUS
  <2>2. QED
    BY <2>1, FS_EmptySet DEF KeepsEntries
<1>2. 1 .. 0 = {} /\ DOMAIN none = {}
  OBVIOUS
<1>3. /\ SumAll(Taken(table), 1 .. 0) = 0 /\ SumAll(Filled(table), 1 .. 0) = 0
      /\ SumAll(ByType(kind, none), DOMAIN none) = 0
      /\ SumAll(Instances(none), DOMAIN none) = 0
  BY <1>2, SumEmpty
<1>4. Alike(0, 0) /\ Alike(0, 0 + 0)
  BY CountersWrap, SameItself DEF Alike
<1>5. NothingYet = [entries |-> none, total_instances |-> 0, table |-> 0, total |-> 0]
  BY DEF NothingYet
<1> HIDE DEF none
<1>6. QED
  BY <1>1, <1>3, <1>4, <1>5, CountersWrap DEF Counts

(* The table itself is added to what its entities took.                    *)
TableAdded(f, table) ==
    [f EXCEPT !.table = Unsigned(Len(table) * SizeOf("pointer")),
              !.total = Unsigned(f.total + Unsigned(Len(table) * SizeOf("pointer")))]

LEMMA TableCounts ==
    ASSUME NEW kind \in Kinds, NEW table \in Seq(Slot(kind)),
           NEW f, Counts(kind, f, table, Len(table)), f.table = 0
    PROVE  /\ Counts(kind, TableAdded(f, table), table, Len(table))
           /\ Alike(TableAdded(f, table).table, Len(table))
<1> DEFINE g == TableAdded(f, table)
           n == Len(table)
           own == Unsigned(n)
           A == SumAll(Taken(table), 1 .. n)
           E == SumAll(ByType(kind, f.entries), DOMAIN f.entries)
<1>1. n \in Int /\ A \in Int
  BY SlotsAreCounted
<1>2. /\ DOMAIN f = {"entries", "total_instances", "table", "total"}
      /\ f.total \in Counter /\ f.total \in Int
      /\ KeepsEntries(kind, f.entries)
      /\ Alike(f.total, 0 + A) /\ Alike(f.total, 0 + E)
  BY CountersAreNumbers DEF Counts
<1>3. E \in Int
  BY <1>2, EntriesHaveSums
<1>4. own \in Counter /\ own \in Int /\ Alike(own, n)
  BY <1>1, UnsignedIsAlike, CountersAreNumbers
<1>5. /\ DOMAIN g = {"entries", "total_instances", "table", "total"}
      /\ g.table = own /\ g.total = Unsigned(f.total + own)
      /\ g.entries = f.entries /\ g.total_instances = f.total_instances
  <2>1. n * SizeOf("pointer") = n
    <3>1. SizeOf("pointer") = 1
      BY KindsOfParts
    <3>2. QED
      BY <1>1, <3>1
  <2>2. QED
    BY <1>2, <2>1 DEF TableAdded
<1> HIDE DEF own, g, A, E, n
<1>6. /\ f.total + own \in Int
      /\ g.total \in Counter /\ g.total \in Int /\ Alike(g.total, f.total + own)
  <2> DEFINE T == f.total + own
  <2>1. T \in Int /\ g.total = Unsigned(T)
    BY <1>2, <1>4, <1>5
  <2> HIDE DEF T
  <2>2. T \in Int /\ g.total \in Counter /\ g.total \in Int /\ Alike(g.total, T)
    BY <2>1, UnsignedIsAlike, CountersAreNumbers
  <2>3. QED
    BY <2>2 DEF T
<1>7. Alike(f.total, A) /\ Alike(f.total, E)
  BY <1>1, <1>2, <1>3
<1>8. ASSUME NEW s \in Int, Alike(f.total, s)
      PROVE  Alike(g.total, own + s)
  <2>1. Alike(own, own)
    BY <1>4, CountersWrap, SameItself DEF Alike
  <2>2. Alike(f.total + own, s + own) /\ s + own \in Int
    BY <1>2, <1>4, <1>8, <2>1, CountersWrap, SameSum DEF Alike
  <2>3. s + own = own + s
    BY <1>4
  <2>4. QED
    BY <1>6, <2>2, <2>3, CountersWrap, SameThrough DEF Alike
<1>9. Alike(g.total, own + A) /\ Alike(g.total, own + E)
  BY <1>1, <1>3, <1>7, <1>8
<1>10. Counts(kind, g, table, n)
  BY <1>2, <1>4, <1>5, <1>6, <1>9 DEF Counts, A, E, n
<1>11. QED
  BY <1>4, <1>5, <1>10 DEF g, n

-----------------------------------------------------------------------------
(* What may be left to measure, and the kinds behind the first of it.      *)
Turns == {<<"obj", "datum", "mob">>, <<"datum", "mob">>, <<"mob">>, <<>>}

Behind(turn) == {turn[i] : i \in 2 .. Len(turn)}

Ahead == Behind(rest)

IsDone(kind) ==
    /\ Counts(kind, full[kind], tables[kind], Len(tables[kind]))
    /\ Alike(full[kind].table, Len(tables[kind]))

IsDoneTo(kind, n) ==
    /\ Counts(kind, full[kind], tables[kind], n)
    /\ full[kind].table = 0

Progress ==
    \A kind \in Kinds :
      IF kind \in Ahead THEN IsDoneTo(kind, 0)
      ELSE IF rest # <<>> /\ kind = Head(rest) THEN IsDoneTo(kind, slot)
      ELSE IsDone(kind)

MemoryInv ==
    /\ tables \in Tables
    /\ rest \in Turns
    /\ slot \in Nat
    /\ rest # <<>> => slot <= Len(tables[Head(rest)])
    /\ DOMAIN full = Kinds
    /\ Progress
    /\ everything = <<>> \/ (rest = <<>> /\ everything = Report)

LEMMA TablesAreSequences ==
    ASSUME tables \in Tables, NEW kind \in Kinds
    PROVE  tables[kind] \in Seq(Slot(kind)) /\ Len(tables[kind]) \in Nat
<1>1. tables[kind] \in Seq(Slot(kind))
  BY MemoryAssumption DEF Slot
<1>2. QED
  BY <1>1, SlotsAreCounted

LEMMA KindsInTurn ==
    ASSUME NEW turn \in Turns, turn # <<>>
    PROVE  /\ Behind(turn) \subseteq Kinds
           /\ Head(turn) \in Kinds /\ Head(turn) \notin Behind(turn)
           /\ Tail(turn) \in Turns
           /\ Tail(turn) = <<>> => Behind(turn) = {}
           /\ Tail(turn) # <<>> => Behind(turn) = {Head(Tail(turn))} \cup Behind(Tail(turn))
           /\ Behind(Tail(turn)) \subseteq Behind(turn)
<1>1. Behind(<<"obj", "datum", "mob">>) = {"datum", "mob"}
  <2>1. Behind(<<"obj", "datum", "mob">>) = {<<"obj", "datum", "mob">>[i] : i \in {2, 3}}
    BY DEF Behind
  <2>2. QED
    BY <2>1
<1>2. Behind(<<"datum", "mob">>) = {"mob"}
  <2>1. Behind(<<"datum", "mob">>) = {<<"datum", "mob">>[i] : i \in {2}}
    BY DEF Behind
  <2>2. QED
    BY <2>1
<1>3. Behind(<<"mob">>) = {} /\ Behind(<<>>) = {}
  <2>1. 2 .. 1 = {} /\ 2 .. 0 = {}
    OBVIOUS
  <2>2. Len(<<"mob">>) = 1 /\ Len(<<>>) = 0
    OBVIOUS
  <2>3. QED
    BY <2>1, <2>2 DEF Behind
<1>4. CASE turn = <<"obj", "datum", "mob">>
  <2>1. Head(turn) = "obj" /\ Tail(turn) = <<"datum", "mob">> /\ Head(Tail(turn)) = "datum"
    BY <1>4
  <2>2. QED
    BY <1>1, <1>2, <1>4, <2>1 DEF Kinds, Turns
<1>5. CASE turn = <<"datum", "mob">>
  <2>1. Head(turn) = "datum" /\ Tail(turn) = <<"mob">> /\ Head(Tail(turn)) = "mob"
    BY <1>5
  <2>2. QED
    BY <1>2, <1>3, <1>5, <2>1 DEF Kinds, Turns
<1>6. CASE turn = <<"mob">>
  <2>1. Head(turn) = "mob" /\ Tail(turn) = <<>>
    BY <1>6
  <2>2. QED
    BY <1>3, <1>6, <2>1 DEF Kinds, Turns
<1>7. QED
  BY <1>4, <1>5, <1>6 DEF Turns

LEMMA MemoryStarts ==
    ASSUME MemoryInit
    PROVE  MemoryInv
<1>1. /\ tables \in Tables /\ rest = <<"obj", "datum", "mob">> /\ slot = 0
      /\ full = [kind \in Kinds |-> NothingYet] /\ everything = <<>>
  BY DEF MemoryInit
<1>2. \A kind \in Kinds : IsDoneTo(kind, 0)
  <2>1. \A kind \in Kinds : full[kind] = NothingYet
    BY <1>1
  <2>2. QED
    BY <1>1, <2>1, NothingCounted, TablesAreSequences DEF IsDoneTo
<1>3. \A kind \in Kinds : kind \in Ahead \/ kind = Head(rest)
  <2>1. {<<"obj", "datum", "mob">>[i] : i \in {2, 3}} = {"datum", "mob"}
    OBVIOUS
  <2>2. Ahead = {<<"obj", "datum", "mob">>[i] : i \in {2, 3}}
    BY <1>1 DEF Ahead, Behind
  <2>3. Head(rest) = "obj"
    BY <1>1
  <2>4. QED
    BY <2>1, <2>2, <2>3 DEF Kinds
<1>4. Progress
  BY <1>1, <1>2, <1>3 DEF Progress
<1>5. Head(rest) \in Kinds
  BY <1>1 DEF Kinds
<1>6. QED
  BY <1>1, <1>4, <1>5, TablesAreSequences DEF MemoryInv, Turns

LEMMA MeasureKeeps ==
    ASSUME MemoryInv, Measure
    PROVE  MemoryInv'
<1> DEFINE kind == Head(rest)
           table == tables[kind]
           e == table[slot + 1]
<1>1. /\ rest # <<>> /\ slot < Len(table) /\ slot \in Nat
      /\ full' = IF Usage(kind, e).base = 0 THEN full
                 ELSE [full EXCEPT ![kind] = Measured(kind, full[kind], e)]
      /\ slot' = slot + 1
      /\ tables' = tables /\ rest' = rest /\ everything' = everything
  BY DEF Measure, MemoryInv
<1>2. /\ tables \in Tables /\ DOMAIN full = Kinds /\ Progress
      /\ kind \in Kinds /\ kind \notin Ahead
      /\ everything = <<>> /\ rest \in Turns
  <2>1. /\ tables \in Tables /\ DOMAIN full = Kinds /\ Progress
        /\ everything = <<>> /\ rest \in Turns
    BY <1>1 DEF MemoryInv
  <2>2. QED
    BY <1>1, <2>1, KindsInTurn DEF Ahead
<1>3. table \in Seq(Slot(kind)) /\ Len(table) \in Nat
  BY <1>2, TablesAreSequences
<1>4. slot \in 0 .. Len(table) - 1 /\ e \in Slot(kind)
  <2>1. slot + 1 \in 1 .. Len(table)
    BY <1>1, <1>3
  <2>2. QED
    BY <1>1, <1>3, <2>1, SlotsAreCounted
<1>5. Counts(kind, full[kind], table, slot) /\ full[kind].table = 0
  BY <1>1, <1>2 DEF Progress, IsDoneTo
<1>6. /\ Counts(kind, full'[kind], table, slot + 1) /\ full'[kind].table = 0
      /\ DOMAIN full' = Kinds
      /\ \A k \in Kinds \ {kind} : full'[k] = full[k]
  <2>1. CASE e = NoEntity
    <3>1. Usage(kind, e).base = 0
      BY <2>1 DEF Usage
    <3>2. full' = full
      BY <1>1, <3>1
    <3>3. QED
      BY <1>2, <1>3, <1>4, <1>5, <2>1, <3>2, EmptySlotCounts
  <2>2. CASE e # NoEntity
    <3>1. Usage(kind, e).base # 0
      BY <1>2, <1>4, <2>2, UsageOfEntity DEF Slot
    <3>2. full' = [full EXCEPT ![kind] = Measured(kind, full[kind], e)]
      BY <1>1, <3>1
    <3>3. full'[kind] = Measured(kind, full[kind], e)
      BY <1>2, <3>2
    <3>4. Counts(kind, Measured(kind, full[kind], e), table, slot + 1)
      BY <1>2, <1>3, <1>4, <1>5, <2>2, EntitySlotCounts
    <3>5. Measured(kind, full[kind], e).table = full[kind].table
      BY <1>5 DEF Measured, Counts
    <3>6. QED
      BY <1>2, <1>5, <3>2, <3>3, <3>4, <3>5
  <2>3. QED
    BY <2>1, <2>2
<1> HIDE DEF kind, table, e
<1>7. Ahead' = Ahead /\ kind = Head(rest') /\ table = tables'[kind]
  BY <1>1 DEF Ahead, Behind, kind, table
<1>8. Progress'
  <2> SUFFICES ASSUME NEW k \in Kinds
               PROVE  IF k \in Ahead' THEN IsDoneTo(k, 0)'
                      ELSE IF rest' # <<>> /\ k = Head(rest') THEN IsDoneTo(k, slot)'
                      ELSE IsDone(k)'
    BY DEF Progress
  <2>1. CASE k = kind
    BY <1>1, <1>2, <1>6, <1>7, <2>1 DEF IsDoneTo
  <2>2. CASE k # kind
    <3>1. full'[k] = full[k] /\ tables'[k] = tables[k]
      BY <1>1, <1>6, <2>2
    <3>2. IF k \in Ahead THEN IsDoneTo(k, 0) ELSE IsDone(k)
      BY <1>2, <2>2 DEF Progress, kind
    <3>3. QED
      BY <1>7, <2>2, <3>1, <3>2 DEF IsDoneTo, IsDone
  <2>3. QED
    BY <2>1, <2>2
<1>9. slot' \in Nat /\ slot' <= Len(tables'[Head(rest')])
  BY <1>1, <1>3, <1>7
<1>10. QED
  BY <1>1, <1>2, <1>6, <1>8, <1>9 DEF MemoryInv

LEMMA AddTableKeeps ==
    ASSUME MemoryInv, AddTable
    PROVE  MemoryInv'
<1> DEFINE kind == Head(rest)
           table == tables[kind]
           own == Unsigned(slot * SizeOf("pointer"))
<1>1. /\ rest # <<>> /\ slot = Len(table)
      /\ full' = [full EXCEPT ![kind].table = own, ![kind].total = Unsigned(@ + own)]
      /\ slot' = 0 /\ rest' = Tail(rest)
      /\ tables' = tables /\ everything' = everything
  BY DEF AddTable
<1>2. /\ tables \in Tables /\ DOMAIN full = Kinds /\ Progress
      /\ kind \in Kinds /\ kind \notin Ahead
      /\ everything = <<>> /\ rest \in Turns
  <2>1. /\ tables \in Tables /\ DOMAIN full = Kinds /\ Progress
        /\ everything = <<>> /\ rest \in Turns
    BY <1>1 DEF MemoryInv
  <2>2. QED
    BY <1>1, <2>1, KindsInTurn DEF Ahead
<1>3. table \in Seq(Slot(kind)) /\ Len(table) \in Nat
  BY <1>2, TablesAreSequences
<1>4. Counts(kind, full[kind], table, Len(table)) /\ full[kind].table = 0
  BY <1>1, <1>2 DEF Progress, IsDoneTo
<1>5. /\ full'[kind] = TableAdded(full[kind], table)
      /\ DOMAIN full' = Kinds
      /\ \A k \in Kinds \ {kind} : full'[k] = full[k]
  <2>1. DOMAIN full[kind] = {"entries", "total_instances", "table", "total"}
    BY <1>4 DEF Counts
  <2>2. own = Unsigned(Len(table) * SizeOf("pointer"))
    BY <1>1
  <2> HIDE DEF own, kind, table
  <2>3. QED
    BY <1>1, <1>2, <2>1, <2>2 DEF TableAdded
<1>6. /\ Counts(kind, full'[kind], table, Len(table))
      /\ Alike(full'[kind].table, Len(table))
  <2>1. /\ Counts(kind, TableAdded(full[kind], table), table, Len(table))
        /\ Alike(TableAdded(full[kind], table).table, Len(table))
    BY <1>2, <1>3, <1>4, TableCounts
  <2>2. QED
    BY <1>5, <2>1
<1>7. /\ rest' \in Turns
      /\ rest' = <<>> => Ahead = {}
      /\ rest' # <<>> => /\ Head(rest') \in Ahead /\ Ahead \subseteq Kinds
                        /\ \A k \in Ahead : k # Head(rest') => k \in Ahead'
      /\ Ahead' \subseteq Ahead
  <2>1. Ahead' = Behind(rest') /\ rest' = Tail(rest)
    BY <1>1 DEF Ahead, Behind
  <2>2. /\ Ahead \subseteq Kinds /\ Tail(rest) \in Turns
        /\ Tail(rest) = <<>> => Ahead = {}
        /\ Tail(rest) # <<>> => Ahead = {Head(Tail(rest))} \cup Behind(Tail(rest))
        /\ Behind(Tail(rest)) \subseteq Ahead
    BY <1>1, <1>2, KindsInTurn DEF Ahead
  <2>3. QED
    BY ONLY <2>1, <2>2
<1> HIDE DEF kind, table, own
<1>8. Progress'
  <2> SUFFICES ASSUME NEW k \in Kinds
               PROVE  IF k \in Ahead' THEN IsDoneTo(k, 0)'
                      ELSE IF rest' # <<>> /\ k = Head(rest') THEN IsDoneTo(k, slot)'
                      ELSE IsDone(k)'
    BY DEF Progress
  <2>1. CASE k = kind
    <3>1. k \notin Ahead' /\ (rest' # <<>> => k # Head(rest'))
      BY <1>2, <1>7, <2>1
    <3>2. IsDone(k)'
      BY <1>1, <1>6, <2>1 DEF IsDone, table
    <3>3. QED
      BY <3>1, <3>2
  <2>2. CASE k \in Ahead
    <3>1. IsDoneTo(k, 0)
      BY <1>2, <2>2 DEF Progress
    <3>2. k # kind
      BY <1>2, <2>2
    <3>3. IsDoneTo(k, 0)' /\ IsDoneTo(k, slot)'
      BY <1>1, <1>5, <3>1, <3>2 DEF IsDoneTo
    <3>4. k \in Ahead' \/ (rest' # <<>> /\ k = Head(rest'))
      BY <1>7, <2>2
    <3>5. QED
      BY <3>3, <3>4
  <2>3. CASE k # kind /\ k \notin Ahead
    <3>1. IsDone(k)
      BY <1>2, <2>3 DEF Progress, kind
    <3>2. IsDone(k)'
      BY <1>1, <1>5, <2>3, <3>1 DEF IsDone
    <3>3. k \notin Ahead' /\ (rest' # <<>> => k # Head(rest'))
      BY <1>7, <2>3
    <3>4. QED
      BY <3>2, <3>3
  <2>4. QED
    BY <2>1, <2>2, <2>3
<1>9. rest' # <<>> => slot' <= Len(tables'[Head(rest')])
  <2> SUFFICES ASSUME rest' # <<>>
               PROVE  0 <= Len(tables[Head(rest')])
    BY <1>1
  <2>1. Head(rest') \in Kinds
    BY <1>7
  <2>2. QED
    BY <1>2, <2>1, TablesAreSequences
<1>10. QED
  BY <1>1, <1>2, <1>5, <1>7, <1>8, <1>9 DEF MemoryInv

LEMMA DumpKeeps ==
    ASSUME MemoryInv, Dump
    PROVE  MemoryInv'
<1>1. /\ rest = <<>> /\ everything' = Report
      /\ tables' = tables /\ rest' = rest /\ slot' = slot /\ full' = full
  BY DEF Dump
<1>2. Ahead' = Ahead /\ Report' = Report
  BY <1>1 DEF Ahead, Behind, Report
<1>3. Progress'
  BY <1>1, <1>2 DEF MemoryInv, Progress, IsDone, IsDoneTo
<1>4. QED
  BY <1>1, <1>2, <1>3 DEF MemoryInv
-----------------------------------------------------------------------------
(* What the report says of a kind whose entries add up.                    *)
LEMMA KindAddsUp ==
    ASSUME NEW kind \in Kinds, NEW f, NEW table, NEW n, Counts(kind, f, table, n),
           NEW k, k = Reported(f)
    PROVE  /\ k.total = Unsigned(k.table
                          + Sum([t \in DOMAIN k.entries |-> k.entries[t].total]))
           /\ k.total_instances =
                Unsigned(Sum([t \in DOMAIN k.entries |-> k.entries[t].instances]))
<1> DEFINE D == DOMAIN f.entries
           E == f.entries
           shown == [t \in D |-> to_json(E[t])]
           totals == [t \in D |-> Unsigned(SumAll(E[t], Parts(kind)))]
           by == ByType(kind, E)
           of == Instances(E)
<1>1. /\ DOMAIN f = {"entries", "total_instances", "table", "total"}
      /\ f.total \in Counter /\ f.total_instances \in Counter /\ f.table \in Int
      /\ KeepsEntries(kind, E)
      /\ Alike(f.total, f.table + SumAll(by, D))
      /\ Alike(f.total_instances, SumAll(of, D))
  BY CountersAreNumbers DEF Counts
<1>2. /\ k.total = f.total /\ k.table = f.table
      /\ k.total_instances = f.total_instances /\ k.entries = shown
  BY <1>1 DEF Reported
<1>3. ASSUME NEW t \in D
      PROVE  /\ shown[t].total = totals[t] /\ shown[t].instances = of[t]
             /\ totals[t] \in Int /\ Alike(totals[t], by[t])
  <2> DEFINE u == E[t]
             P == Parts(kind)
             z == SumAll(u, P)
  <2>1. u \in TypeUsage(kind)
    BY <1>1 DEF KeepsEntries
  <2>2. DOMAIN u = P \cup {"instances"} /\ \A p \in P \cup {"instances"} : u[p] \in Int
    BY <2>1, CountersAreNumbers DEF TypeUsage
  <2>3. /\ IsFiniteSet(P) /\ "instances" \notin P /\ "total" \notin P \cup {"instances"}
    BY KindsOfParts
  <2>4. Integral(u, P) /\ Integral(u, P \cup {"instances"})
    BY <2>2 DEF Integral
  <2>5. to_json(u).total = Unsigned(Sum(u) - u.instances) /\ to_json(u).instances = u.instances
    BY <2>2, <2>3 DEF to_json
  <2> HIDE DEF u, P
  <2>6. z \in Int
    BY <2>3, <2>4, SumType
  <2>7. SumAll(u, P \cup {"instances"}) = u["instances"] + z
    BY <2>3, <2>4, SumMore
  <2>8. Sum(u) = SumAll(u, P \cup {"instances"})
    BY <2>2 DEF Sum, SumAll
  <2>9. u["instances"] \in Int
    BY <2>2
  <2> HIDE DEF z
  <2>10. Sum(u) - u.instances = z
    BY <2>6, <2>7, <2>8, <2>9
  <2>11. Unsigned(z) \in Int /\ Alike(Unsigned(z), z)
    BY <2>6, UnsignedIsAlike, CountersAreNumbers
  <2>12. by[t] = z /\ totals[t] = Unsigned(z) /\ shown[t] = to_json(u) /\ of[t] = u.instances
    BY DEF ByType, Instances, u, z, P
  <2>13. QED
    BY <2>5, <2>10, <2>11, <2>12
<1>4. IsFiniteSet(D) /\ Integral(by, D) /\ Integral(of, D) /\ SumAll(by, D) \in Int /\ SumAll(of, D) \in Int
  BY <1>1, EntriesHaveSums
<1>5. /\ Sum([t \in DOMAIN k.entries |-> k.entries[t].total]) = SumAll(totals, D)
      /\ Sum([t \in DOMAIN k.entries |-> k.entries[t].instances]) = SumAll(of, D)
  <2>1. /\ [t \in DOMAIN k.entries |-> k.entries[t].total] = totals
        /\ [t \in DOMAIN k.entries |-> k.entries[t].instances] = of
        /\ DOMAIN totals = D /\ DOMAIN of = D
    <3>1. DOMAIN k.entries = D /\ \A t \in D : k.entries[t] = shown[t]
      BY <1>2
    <3>2. of = [t \in D |-> of[t]]
      BY DEF Instances
    <3> HIDE DEF of, shown, D
    <3>3. QED
      BY <1>3, <3>1, <3>2
  <2> HIDE DEF totals, of
  <2>2. Sum(totals) = SumAll(totals, D) /\ Sum(of) = SumAll(of, D)
    BY <2>1 DEF Sum, SumAll
  <2>3. QED
    BY <2>1, <2>2
<1>6. Integral(totals, D)
  BY <1>3 DEF Integral
<1> HIDE DEF totals, by, of, shown, D, E
<1>7. Alike(SumAll(totals, D), SumAll(by, D)) /\ SumAll(totals, D) \in Int
  BY <1>3, <1>4, <1>6, CountersWrap, SameSums, SumType DEF Alike
<1>8. Alike(f.total, f.table + SumAll(totals, D))
  <2> DEFINE T == f.total
             B == f.table
             X == SumAll(by, D)
             Y == SumAll(totals, D)
  <2>1. T \in Int /\ B \in Int /\ X \in Int /\ Y \in Int /\ Alike(T, B + X) /\ Alike(Y, X)
    BY <1>1, <1>4, <1>7, CountersAreNumbers
  <2> HIDE DEF T, B, X, Y
  <2>2. Alike(B, B) /\ Alike(X, Y)
    BY <2>1, CountersWrap, SameItself, SameSwapped DEF Alike
  <2>3. Alike(B + X, B + Y)
    BY <2>1, <2>2, CountersWrap, SameSum DEF Alike
  <2>4. Alike(T, B + Y)
    BY <2>1, <2>3, CountersWrap, SameThrough DEF Alike
  <2>5. QED
    BY <2>4 DEF T, B, Y
<1>9. f.total = Unsigned(f.table + SumAll(totals, D))
  <2>1. f.table + SumAll(totals, D) \in Int
    BY <1>1, <1>7
  <2>2. QED
    BY <1>1, <1>8, <2>1, AlikeCounter
<1>10. f.total_instances = Unsigned(SumAll(of, D))
  BY <1>1, <1>4, AlikeCounter
<1>11. QED
  BY <1>2, <1>5, <1>9, <1>10

(* What a kind that is done adds to the report.                            *)
LEMMA DoneKindTakes ==
    ASSUME NEW kind \in Kinds, NEW table \in Seq(Slot(kind)),
           NEW f, Counts(kind, f, table, Len(table)), Alike(f.table, Len(table))
    PROVE  /\ f.total \in Int /\ f.total_instances \in Int
           /\ Sum([i \in DOMAIN table |-> TakenBy(table[i]) + SizeOf("pointer")]) \in Int
           /\ Alike(f.total,
                 Sum([i \in DOMAIN table |-> TakenBy(table[i]) + SizeOf("pointer")]))
           /\ Cardinality({i \in DOMAIN table : table[i] # NoEntity}) \in Int
           /\ Alike(f.total_instances, Cardinality({i \in DOMAIN table : table[i] # NoEntity}))
<1> DEFINE n == Len(table)
           S == 1 .. n
           taken == Taken(table)
           one == [i \in S |-> 1]
           both == [i \in DOMAIN table |-> TakenBy(table[i]) + SizeOf("pointer")]
           there == {i \in DOMAIN table : table[i] # NoEntity}
<1>1. /\ n \in Nat /\ DOMAIN table = S /\ IsFiniteSet(S)
      /\ Integral(taken, S) /\ SumAll(taken, S) \in Int
  BY SlotsAreCounted
<1>2. /\ f.total \in Int /\ f.total_instances \in Int /\ f.table \in Int
      /\ Alike(f.total, f.table + SumAll(taken, S))
      /\ Alike(f.total_instances, SumAll(Filled(table), S))
  BY CountersAreNumbers DEF Counts
<1>3. SumAll(one, S) = n
  <2>1. \A i \in S : one[i] = IF i \in S THEN 1 ELSE 0
    OBVIOUS
  <2>2. S \cap S = S /\ Cardinality(S) = n
    <3>1. n \in Nat
      BY <1>1
    <3> HIDE DEF n
    <3>2. Cardinality(1 .. n) = n
      BY <3>1, FS_Interval
    <3>3. QED
      BY <3>2
  <2> HIDE DEF S, one
  <2>3. SumAll(one, S) = Cardinality(S \cap S)
    BY <1>1, <2>1, CountIsSum
  <2>4. QED
    BY <2>2, <2>3
<1>4. SumAll(both, S) = SumAll(taken, S) + n
  <2>1. SizeOf("pointer") = 1
    BY KindsOfParts
  <2>2. \A i \in S : both[i] = taken[i] + one[i]
    BY <1>1, <2>1 DEF Taken
  <2>3. Integral(one, S)
    BY DEF Integral
  <2> HIDE DEF S, one, both, taken
  <2>4. SumAll(both, S) = SumAll(taken, S) + SumAll(one, S)
    BY ONLY <1>1, <2>2, <2>3, SumPlus
  <2>5. QED
    BY <1>3, <2>4
<1>5. Sum(both) = SumAll(both, S)
  <2>1. DOMAIN both = S
    BY <1>1
  <2> HIDE DEF both, S
  <2>2. QED
    BY <2>1 DEF Sum, SumAll
<1>6. SumAll(Filled(table), S) = Cardinality(there) /\ Cardinality(there) \in Nat
  <2>1. \A i \in S : Filled(table)[i] = IF i \in there THEN 1 ELSE 0
    BY <1>1 DEF Filled
  <2>2. there = S \cap there /\ there \subseteq S
    BY <1>1
  <2> HIDE DEF there, S
  <2>3. SumAll(Filled(table), S) = Cardinality(S \cap there)
    BY <1>1, <2>1, CountIsSum
  <2>4. QED
    BY <1>1, <2>2, <2>3, FS_Subset, FS_CardinalityType
<1>7. Alike(f.total, SumAll(taken, S) + n)
  <2> DEFINE T == f.total
             B == f.table
             A == SumAll(taken, S)
  <2>1. T \in Int /\ B \in Int /\ A \in Int /\ n \in Int /\ Alike(T, B + A) /\ Alike(B, n)
    BY <1>1, <1>2
  <2> HIDE DEF T, B, A, n, S
  <2>2. Alike(A, A)
    BY <2>1, CountersWrap, SameItself DEF Alike
  <2>3. Alike(B + A, n + A)
    BY <2>1, <2>2, CountersWrap, SameSum DEF Alike
  <2>4. Alike(T, n + A)
    BY <2>1, <2>3, CountersWrap, SameThrough DEF Alike
  <2>5. n + A = A + n
    BY <2>1
  <2>6. QED
    BY <2>4, <2>5 DEF T, A
<1> HIDE DEF both, there, S, taken, n
<1>8. QED
  BY <1>1, <1>2, <1>4, <1>5, <1>6, <1>7 DEF both, there

LEMMA InvAddsUp ==
    ASSUME MemoryInv
    PROVE  ReportAddsUp
<1> SUFFICES ASSUME everything # <<>>
             PROVE  ReportAddsUp
  BY DEF ReportAddsUp
<1>1. rest = <<>> /\ everything = Report /\ tables \in Tables /\ Progress
  BY DEF MemoryInv
<1>2. Ahead = {}
  <2>1. 2 .. 0 = {} /\ Len(<<>>) = 0
    OBVIOUS
  <2>2. QED
    BY <1>1, <2>1 DEF Ahead, Behind
<1>3. \A kind \in Kinds : IsDone(kind)
  BY <1>1, <1>2 DEF Progress
<1> DEFINE totals == [kind \in Kinds |-> full[kind].total]
           counts == [kind \in Kinds |-> full[kind].total_instances]
           took == [kind \in Kinds |->
                      Sum([i \in DOMAIN tables[kind] |->
                             TakenBy(tables[kind][i]) + SizeOf("pointer")])]
           were == [kind \in Kinds |->
                      Cardinality({i \in DOMAIN tables[kind] : tables[kind][i] # NoEntity})]
<1>4. \A kind \in Kinds :
        /\ totals[kind] \in Int /\ counts[kind] \in Int
        /\ took[kind] \in Int /\ were[kind] \in Int
        /\ Alike(totals[kind], took[kind]) /\ Alike(counts[kind], were[kind])
  BY <1>1, <1>3, TablesAreSequences, DoneKindTakes DEF IsDone
<1>5. /\ everything.kinds = [kind \in Kinds |-> Reported(full[kind])]
      /\ everything.total = Unsigned(Sum(totals))
      /\ everything.total_instances = Unsigned(Sum(counts))
  BY <1>1 DEF Report
<1>6. \A kind \in Kinds :
        LET k == everything.kinds[kind]
        IN  /\ k.total = Unsigned(k.table
                  + Sum([t \in DOMAIN k.entries |-> k.entries[t].total]))
            /\ k.total_instances =
                 Unsigned(Sum([t \in DOMAIN k.entries |-> k.entries[t].instances]))
  <2> TAKE kind \in Kinds
  <2>1. everything.kinds[kind] = Reported(full[kind])
    BY <1>5
  <2>2. Counts(kind, full[kind], tables[kind], Len(tables[kind]))
    BY <1>3 DEF IsDone
  <2>3. QED
    BY <2>1, <2>2, KindAddsUp
<1>7. IsFiniteSet(Kinds)
  <2>1. Kinds = {"obj"} \cup {"datum"} \cup {"mob"}
    BY DEF Kinds
  <2>2. IsFiniteSet({"obj"} \cup {"datum"} \cup {"mob"})
    BY FS_Singleton, FS_Union
  <2>3. QED
    BY <2>1, <2>2
<1>8. /\ DOMAIN totals = Kinds /\ DOMAIN counts = Kinds
      /\ DOMAIN took = Kinds /\ DOMAIN were = Kinds
      /\ Integral(totals, Kinds) /\ Integral(counts, Kinds)
      /\ Integral(took, Kinds) /\ Integral(were, Kinds)
  BY <1>4 DEF Integral
<1>9. everything.total = Unsigned(Sum(took)) /\ everything.total_instances = Unsigned(Sum(were))
  <2> HIDE DEF totals, counts, took, were
  <2>1. /\ Sum(totals) = SumAll(totals, Kinds) /\ Sum(counts) = SumAll(counts, Kinds)
        /\ Sum(took) = SumAll(took, Kinds) /\ Sum(were) = SumAll(were, Kinds)
    BY <1>8 DEF Sum, SumAll
  <2>2. /\ Alike(Sum(totals), Sum(took)) /\ Alike(Sum(counts), Sum(were))
        /\ Sum(totals) \in Int /\ Sum(took) \in Int
        /\ Sum(counts) \in Int /\ Sum(were) \in Int
    BY <1>4, <1>7, <1>8, <2>1, CountersWrap, SameSums, SumType DEF Alike
  <2>3. QED
    BY <1>5, <2>2, AlikeIsEqual
<1> HIDE DEF totals, counts
<1>10. QED
  BY <1>6, <1>9 DEF ReportAddsUp

(* A report counts every entity and every table once, for any tables and   *)
(* any width of the counters, however many of the sums have wrapped.       *)
THEOREM ReportsAddUp == MemorySpec => []ReportAddsUp
<1>1. MemoryInit => MemoryInv
  BY MemoryStarts
<1>2. MemoryInv /\ [MemoryNext]_memoryVars => MemoryInv'
  <2> SUFFICES ASSUME MemoryInv, [MemoryNext]_memoryVars
               PROVE  MemoryInv'
    OBVIOUS
  <2>1. CASE Measure
    BY <2>1, MeasureKeeps
  <2>2. CASE AddTable
    BY <2>2, AddTableKeeps
  <2>3. CASE Dump
    BY <2>3, DumpKeeps
  <2>4. CASE UNCHANGED memoryVars
    <3>1. /\ tables' = tables /\ rest' = rest /\ slot' = slot
          /\ full' = full /\ everything' = everything
      BY <2>4 DEF memoryVars
    <3>2. Ahead' = Ahead /\ Report' = Report
      BY <3>1 DEF Ahead, Behind, Report
    <3>3. Progress'
      BY <3>1, <3>2 DEF MemoryInv, Progress, IsDone, IsDoneTo
    <3>4. QED
      BY <3>1, <3>2, <3>3 DEF MemoryInv
  <2>5. QED
    BY <2>1, <2>2, <2>3, <2>4 DEF MemoryNext
<1>3. MemoryInv => ReportAddsUp
  BY InvAddsUp
<1>4. QED
  BY <1>1, <1>2, <1>3, PTL DEF MemorySpec
=============================================================================
