------------------------------ MODULE RefTracking ------------------------------
(***************************************************************************)
(* The reference tracker: hooks on every function of BYOND that stores a   *)
(* reference keep, for each datum and list, who holds it and what it       *)
(* holds.  A tracked reference is a triple: holder, variable and value     *)
(* (the variable of a list's references is In); the two maps count theirs. *)
(* BYOND changes the heap behind the hooks as well: it nulls what refers   *)
(* to a datum that is deleted, and cuts and overwrites lists.              *)
(***************************************************************************)
EXTENDS Naturals, FiniteSets, SequencesExt

CONSTANTS
  Datums, Lists,
  Names,      (* variables of a datum.                                       *)
  In, Null,
  MaxLength,  (* bound: elements of a list.                                  *)
  MaxCount    (* bound: how often a value is tracked; what ends behind the   *)
              (* hooks and is set again adds one every time.               *)

Things == Datums \cup Lists

ASSUME ReferenceAssumption ==
  /\ Datums \cap Lists = {}
  /\ Null \notin Things
  /\ IsFiniteSet(Things)

References == (Datums \X Names \X Things) \cup (Lists \X {In} \X Things)

VARIABLES
  field,               (* datum -> name -> what the variable holds.          *)
  elements,            (* list -> its elements, Null where one was deleted.  *)
  assoc,               (* list -> key -> associated value, or Null.          *)
  live,                (* the things that exist.                             *)
  back_references,     (* reference -> how often the value's map has it.     *)
  forward_references,  (* reference -> how often the holder's map has it.    *)
  written,             (* history: the variables set since tracking started. *)
  unseen               (* history: references that ended behind the hooks.   *)

heap == <<field, elements, assoc, live>>
tracking == <<back_references, forward_references>>
referenceVars == <<heap, tracking, written, unseen>>

ReferencesInit ==
  /\ live \in {Datums} \cup {Datums \cup {l} : l \in Lists}
  /\ field \in [Datums -> [Names -> Datums \cup {Null}]]
  /\ elements = [l \in Lists |-> <<>>]
  /\ assoc = [l \in Lists |-> [k \in Things |-> Null]]
  /\ back_references = [r \in References |-> 0]
  /\ forward_references = back_references
  /\ written = {} /\ unseen = {}

\* The variable, the list or one of its associations does hold the value.
Holds(r) ==
  \/ r[1] \in Datums /\ field[r[1]][r[2]] = r[3]
  \/ r[1] \in Lists /\ (\/ Contains(elements[r[1]], r[3])
                        \/ \E k \in Things : assoc[r[1]][k] = r[3])

\* The entries of both maps: those in gone are erased, those in new added.
Track(gone, new) ==
  LET change(m) == [r \in References |-> (IF r \in gone THEN 0 ELSE m[r])
                                         + (IF r \in new THEN 1 ELSE 0)]
  IN  /\ back_references' = change(back_references)
      /\ forward_references' = change(forward_references)

\* Of the tracked references, those in ended end now behind the hooks; those
\* in seen are erased or added by one.
Note(ended, seen) ==
  unseen' = (unseen \cup {r \in ended : back_references[r] > 0}) \ seen

Ended == {r \in References : Holds(r) /\ ~ Holds(r)'}

MayHold(v) ==
  MapThenSumSet(LAMBDA r : back_references[r], {r \in References : r[3] = v}) < MaxCount

Held(h, v) == {r \in References : r[1] = h /\ r[3] = v}

Before(d, n) == {r \in References : r = <<d, n, field[d][n]>>}

\* hSetVariable
SetVariable(d, n, v) ==
  /\ d \in live /\ v \in live \cup {Null}
  /\ v # Null => MayHold(v)
  /\ Track(Before(d, n), {r \in References : r = <<d, n, v>>})
  /\ Note({}, {r \in References : r[1] = d /\ r[2] = n /\ r[3] \in {field[d][n], v}})
  /\ field' = [field EXCEPT ![d][n] = v]
  /\ written' = written \cup {<<d, n>>}
  /\ UNCHANGED <<elements, assoc, live>>

\* hAppendToContainer; a value is tracked once per element.
Append_(l, v) ==
  /\ {l, v} \subseteq live /\ Len(elements[l]) < MaxLength /\ MayHold(v)
  /\ Track({}, {<<l, In, v>>}) /\ Note({}, {<<l, In, v>>})
  /\ elements' = [elements EXCEPT ![l] = Append(@, v)]
  /\ UNCHANGED <<field, assoc, live, written>>

LastOf(l, v) == SelectLastInSeq(elements[l], LAMBDA e : e = v)

Forget(l, v) == Track(Held(l, v), {})

\* hRemoveFromContainer: one element goes, with what was associated with it
\* if it was the last of its kind, and every entry for the value.
RemoveFromContainer(l, v) ==
  /\ {l, v} \subseteq live
  /\ Forget(l, v)
  /\ UNCHANGED <<field, live, written>>
  /\ IF LastOf(l, v) = 0
     THEN UNCHANGED <<elements, assoc>> /\ Note({}, Held(l, v))
     ELSE LET rest == RemoveAt(elements[l], LastOf(l, v))
          IN  /\ elements' = [elements EXCEPT ![l] = rest]
              /\ IF Contains(rest, v) \/ assoc[l][v] = Null
                 THEN UNCHANGED assoc /\ Note({}, Held(l, v))
                 ELSE assoc' = [assoc EXCEPT ![l][v] = Null] /\ Note(Ended, Held(l, v))

\* hSetAssocElement; BYOND adds the key to the list if it is not there, which
\* nobody tracks.
SetAssocElement(l, k, v) ==
  /\ {l, k} \subseteq live /\ v \in live \cup {Null}
  /\ Contains(elements[l], k) \/ Len(elements[l]) < MaxLength
  /\ v # Null => MayHold(v)
  /\ Track(Held(l, assoc[l][k]), {r \in References : r = <<l, In, v>>})
  /\ Note({}, Held(l, assoc[l][k]) \cup Held(l, v))
  /\ assoc' = [assoc EXCEPT ![l][k] = v]
  /\ elements' = IF Contains(elements[l], k) THEN elements
                 ELSE [elements EXCEPT ![l] = Append(@, k)]
  /\ UNCHANGED <<field, live, written>>

\* l.len = i, l.Cut(i + 1) and l[i] = v: BYOND changes the list by functions
\* that have no hook (and hSetVariable passes the len of a list by).  A key
\* that goes takes its value with it.
Rewritten(l) ==
  {SubSeq(elements[l], 1, i) : i \in 0 .. Len(elements[l]) - 1}
    \cup {ReplaceAt(elements[l], i, v) : i \in DOMAIN elements[l], v \in live \cup {Null}}

ChangeUnhooked(l) ==
  /\ l \in live
  /\ \E s \in Rewritten(l) :
       /\ elements' = [elements EXCEPT ![l] = s]
       /\ assoc' = [assoc EXCEPT ![l] =
                      [k \in Things |-> IF Contains(s, k) THEN assoc[l][k] ELSE Null]]
  /\ UNCHANGED <<field, live, tracking, written>>
  /\ Note(Ended, {})

\* hInitializeListFromContext: list(...) makes a list and tracks its elements.
InitializeList(l, s) ==
  /\ l \notin live /\ ToSet(s) \subseteq {v \in live : MayHold(v)}
  /\ LET count(v) == Cardinality({i \in DOMAIN s : s[i] = v})
         more(m) == [r \in References |-> m[r] + IF r[1] = l THEN count(r[3]) ELSE 0]
     IN  /\ back_references' = more(back_references)
         /\ forward_references' = more(forward_references)
  /\ elements' = [elements EXCEPT ![l] = s]
  /\ live' = live \cup {l}
  /\ UNCHANGED <<field, assoc, written, unseen>>

Exported(l, holders) == UNCHANGED tracking

\* get_backrefs: the holders of a thing become the keys of a new list, while
\* exporting_refs keeps the hooks from tracking it.
GetBackReferences(l, v) ==
  LET holders == {h \in Things : \E r \in References :
                    r[1] = h /\ r[3] = v /\ back_references[r] > 0}
  IN  /\ l \notin live /\ v \in live
      /\ Cardinality(holders) <= MaxLength
      /\ Exported(l, holders)
      /\ \E s \in SetToSeqs(holders) : elements' = [elements EXCEPT ![l] = s]
      /\ live' = live \cup {l}
      /\ UNCHANGED <<field, assoc, written, unseen>>

\* BYOND destroys what nothing holds any more; del destroys a datum that is
\* held.
Unheld(x) ==
  /\ \A d \in live \cap Datums, n \in Names : field[d][n] # x
  /\ \A l \in live \cap Lists : ~ Contains(elements[l], x) /\ \A k \in Things : assoc[l][k] # x

\* Mutant: the values keep the destroyed holder in their maps.
ForwardOnly(x) ==
  /\ forward_references' = [r \in References |-> IF r[1] = x THEN 0 ELSE forward_references[r]]
  /\ UNCHANGED back_references

ForgetHolder(x) ==
  LET known == {r \in References : r[1] = x /\ forward_references[r] > 0}
  IN  /\ back_references' = [r \in References |->
           IF \E q \in known : r \in Held(x, q[3]) THEN 0 ELSE back_references[r]]
      /\ forward_references' = [r \in References |-> IF r[1] = x THEN 0 ELSE forward_references[r]]

\* hDestroyList and hDestroyDatum; the number is used again by the next one.
\* What referred to a datum becomes null, and nothing erases its own entry of
\* back_references.
Destroy(x) ==
  /\ x \in live /\ (x \in Lists => Unheld(x))
  /\ ForgetHolder(x)
  /\ field' = [d \in Datums |-> [n \in Names |->
                 IF x \in {d, field[d][n]} THEN Null ELSE field[d][n]]]
  /\ elements' = [l \in Lists |-> IF l = x THEN <<>> ELSE
                    [i \in DOMAIN elements[l] |->
                       IF elements[l][i] = x THEN Null ELSE elements[l][i]]]
  /\ assoc' = [l \in Lists |-> [k \in Things |->
                 IF x \in {l, k, assoc[l][k]} THEN Null ELSE assoc[l][k]]]
  /\ live' = live \ {x}
  /\ Note(Ended, {r \in References : r[1] = x})
  /\ UNCHANGED written

New(d) ==
  /\ d \in Datums \ live
  /\ live' = live \cup {d}
  /\ UNCHANGED <<field, elements, assoc, tracking, written, unseen>>

ReferencesNext ==
  \/ \E d \in Datums : New(d) \/ \E n \in Names, v \in Things \cup {Null} : SetVariable(d, n, v)
  \/ \E l \in Lists, v \in Things :
       \/ Append_(l, v) \/ RemoveFromContainer(l, v) \/ GetBackReferences(l, v)
       \/ \E w \in Things \cup {Null} : SetAssocElement(l, v, w)
  \/ \E l \in Lists : ChangeUnhooked(l)
  \/ \E l \in Lists : \E s \in UNION {[1 .. n -> Things] : n \in 0 .. MaxLength} : InitializeList(l, s)
  \/ \E x \in Things : Destroy(x)

ReferencesSpec == ReferencesInit /\ [][ReferencesNext]_referenceVars
--------------------------------------------------------------------------------
\* The two maps tell the same story: whatever one entry says a holder holds,
\* another says of the value that it is held, as often.
MapsMirror == back_references = forward_references

\* What get_back_references reports is true, also after numbers of destroyed
\* things are used again: the variable does hold the value, the list does
\* contain it or associate it.  It may be false only of a reference that ended
\* behind the hooks (the value was deleted while it was held, was cut or
\* overwritten, or went with its key) and that no hook has erased since.  And
\* of the variables set since tracking began nothing is missing.  A holder's
\* own entries, which its destruction follows, say the same.
TrackedIsReal ==
  /\ MapsMirror
  /\ \A r \in References : back_references[r] > 0 => Holds(r) \/ r \in unseen
  /\ \A w \in written : w[1] \in live /\ field[w[1]][w[2]] # Null =>
       back_references[<<w[1], w[2], field[w[1]][w[2]]>>] >= 1
================================================================================
