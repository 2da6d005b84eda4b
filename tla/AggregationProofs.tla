------------------------- MODULE AggregationProofs -------------------------
(* Proofs about Aggregation, for any configuration, overriders and metric.  *)
(* What a level exports are distinct series that pass its filters: both     *)
(* rest on one fact, that the labels a series is rendered with are those    *)
(* that its samples were filtered by (RenderedIsMapped), which needs that   *)
(* no overrider changes the level, which is rendered from the mask.  The    *)
(* statistics of a level agree with each other, its histograms account for  *)
(* every value, and levels of the same operation after each other give what *)
(* the last of them gives directly: these rest on lemmas about sums, orders *)
(* and lists, proved by induction over a set of numbers or of subsets.      *)
EXTENDS Aggregation, FiniteSetTheorems, TLAPS

\* Mapped, for given names.
MappedIn(nm, mask, k) ==
    LET labels    == maskLabels(mask, k, nm)
        values    == getLabelValues(mask, labels, nm)
        overrides == overrideValues(values)
    IN  [key    |-> overrideLabels(labels, overrides, nm),
         values |-> [n \in DOMAIN values |-> IF n \in DOMAIN overrides
                                             THEN overrides[n] ELSE values[n]]]

NamesFit(nm) ==
    /\ \A i, j \in LabelId : nm[i] = nm[j] /\ nm[i] # "" => i = j
    /\ \A i \in LabelId, f \in BuiltInField : nm[i] # BuiltInName[f]

\* Each label of the mask but the level is rendered, under a name of its own.
Shown(nm, mask, l) ==
    /\ \A f \in mask.BuiltIn \ {"Level"} :
          getLabelValues(mask, l, nm)[BuiltInName[f]] = l.BuiltIn[f]
    /\ \A id \in initInternalLabelsMask(mask, nm) :
          getLabelValues(mask, l, nm)[nm[id]] = l.Extension[id]

\* A key has nothing but the labels of the mask, and no level.
Masked(nm, mask, key) ==
    /\ key = [BuiltIn   |-> [f \in BuiltInField |-> key.BuiltIn[f]],
              Extension |-> [id \in LabelId |-> key.Extension[id]]]
    /\ \A f \in BuiltInField : f \notin mask.BuiltIn \/ f = "Level" => key.BuiltIn[f] = ""
    /\ \A id \in LabelId \ initInternalLabelsMask(mask, nm) : key.Extension[id] = ""

LevelKept == \A values : "level" \notin DOMAIN OverrideLabels(values)

LEMMA BuiltInNamesDistinct ==
    \A f1, f2 \in BuiltInField : BuiltInName[f1] = BuiltInName[f2] => f1 = f2
BY DEF BuiltInField, BuiltInName

LEMMA LevelName == "Level" \in BuiltInField /\ BuiltInName["Level"] = "level"
BY DEF BuiltInField, BuiltInName

\* The overriders are heard on the labels of the mask only, and not on the
\* level.
LEMMA OverridesOfMask ==
    ASSUME LevelKept, NEW values
    PROVE  /\ DOMAIN overrideValues(values) \subseteq DOMAIN values
           /\ "level" \notin DOMAIN overrideValues(values)
BY DEF LevelKept, overrideValues

\* collectMetric renders a key as aggregateMetric saw its samples.
LEMMA RenderedIsMapped ==
    ASSUME LevelKept, NEW nm, NEW mask, MaskFits(mask), NEW k
    PROVE  getLabelValues(mask, MappedIn(nm, mask, k).key, nm) = MappedIn(nm, mask, k).values
<1> DEFINE labels    == maskLabels(mask, k, nm)
           values    == getLabelValues(mask, labels, nm)
           overrides == overrideValues(values)
           key       == overrideLabels(labels, overrides, nm)
           seen      == [n \in DOMAIN values |-> IF n \in DOMAIN overrides
                                                 THEN overrides[n] ELSE values[n]]
           IsField(n) == \E f \in mask.BuiltIn : BuiltInName[f] = n
           field(n)  == CHOOSE f \in mask.BuiltIn : BuiltInName[f] = n
           id(n)     == CHOOSE i \in LabelId : nm[i] = n
           rendered(l) == [n \in getLabelNames(mask, nm) |->
                              IF n = "level" THEN mask.Level
                              ELSE IF IsField(n) THEN l.BuiltIn[field(n)]
                                   ELSE l.Extension[id(n)]]
<1>1. MappedIn(nm, mask, k) = [key |-> key, values |-> seen]
  BY DEF MappedIn
<1>2. values = rendered(labels) /\ getLabelValues(mask, key, nm) = rendered(key)
  BY DEF getLabelValues, getBuiltInLabelNames, getBuiltInLabelValues,
      getExtensionLabelValues
<1>3. ASSUME NEW n \in getLabelNames(mask, nm)
      PROVE  rendered(key)[n] = seen[n]
  <2>1. n \in DOMAIN values /\ DOMAIN values = getLabelNames(mask, nm)
    BY <1>2
  <2>2. CASE n = "level"
    <3>1. n \notin DOMAIN overrides
      BY <2>2, OverridesOfMask
    <3> QED  BY <2>1, <2>2, <3>1, <1>2
  <2>3. CASE n # "level" /\ IsField(n)
    <3>1. field(n) \in BuiltInField /\ BuiltInName[field(n)] = n
      BY <2>3 DEF MaskFits
    <3>2. key.BuiltIn[field(n)] = IF n \in DOMAIN overrides THEN overrides[n]
                                  ELSE labels.BuiltIn[field(n)]
      BY <3>1 DEF overrideLabels, getOverrideBuiltInLabelValues, getOverrideExtensionLabelValues
    <3> QED  BY <2>1, <2>3, <3>2, <1>2
  <2>4. CASE n # "level" /\ ~IsField(n)
    <3>1. \E i \in LabelId : nm[i] = n
      BY <2>4
        DEF getLabelNames, getBuiltInLabelNames, getExtensionLabelNames, initInternalLabelsMask
    <3>2. id(n) \in LabelId /\ nm[id(n)] = n
      BY <3>1
    <3>3. key.Extension[id(n)] = IF n \in DOMAIN overrides THEN overrides[n]
                                 ELSE labels.Extension[id(n)]
      BY <3>2 DEF overrideLabels, getOverrideBuiltInLabelValues, getOverrideExtensionLabelValues
    <3>4. rendered(key)[n] = key.Extension[id(n)] /\ rendered(labels)[n] = labels.Extension[id(n)]
      BY <2>4
    <3>5. seen[n] = IF n \in DOMAIN overrides THEN overrides[n] ELSE values[n]
      BY <2>1
    <3> HIDE DEF rendered, seen, overrides, key, labels, id
    <3> QED  BY <3>3, <3>4, <3>5, <1>2
  <2> QED  BY <2>2, <2>3, <2>4
<1>4. rendered(key) = seen
  <2> DEFINE D == getLabelNames(mask, nm)
  <2>1. rendered(key) = [n \in D |-> rendered(key)[n]]
    OBVIOUS
  <2>2. seen = [n \in D |-> seen[n]]
    <3>1. DOMAIN values = D
      BY <1>2
    <3> HIDE DEF values, overrides, D
    <3> QED  BY <3>1
  <2> HIDE DEF D, rendered, seen, key
  <2>3. \A n \in D : rendered(key)[n] = seen[n]
    BY <1>3 DEF D
  <2> QED  BY <2>1, <2>2, <2>3
<1>5. MappedIn(nm, mask, k).key = key /\ MappedIn(nm, mask, k).values = seen
  BY <1>1
<1> HIDE DEF key, seen, rendered
<1> QED  BY <1>2, <1>4, <1>5

LEMMA RenderedLabels ==
    ASSUME NEW nm, NamesFit(nm), NEW mask, MaskFits(mask), NEW l
    PROVE  Shown(nm, mask, l)
<1>1. ASSUME NEW f \in mask.BuiltIn \ {"Level"}
      PROVE  getLabelValues(mask, l, nm)[BuiltInName[f]] = l.BuiltIn[f]
  <2> DEFINE n == BuiltInName[f]
             g == CHOOSE h \in mask.BuiltIn : BuiltInName[h] = n
  <2>1. n \in getLabelNames(mask, nm)
    BY DEF getLabelNames, getBuiltInLabelNames, getExtensionLabelNames
  <2>2. n # "level"
    BY BuiltInNamesDistinct, LevelName DEF MaskFits
  <2>3. g \in mask.BuiltIn /\ BuiltInName[g] = n
    OBVIOUS
  <2>4. g = f
    BY <2>3, BuiltInNamesDistinct DEF MaskFits
  <2>5. getLabelValues(mask, l, nm)[n] = l.BuiltIn[g]
    BY <2>1, <2>2 DEF getLabelValues, getBuiltInLabelNames, getBuiltInLabelValues,
      getExtensionLabelValues
  <2> QED  BY <2>4, <2>5
<1>2. ASSUME NEW id \in initInternalLabelsMask(mask, nm)
      PROVE  getLabelValues(mask, l, nm)[nm[id]] = l.Extension[id]
  <2> DEFINE n == nm[id]
             j == CHOOSE i \in LabelId : nm[i] = n
  <2>1. id \in LabelId /\ n \in mask.Extensions /\ n \in getLabelNames(mask, nm)
    BY DEF getLabelNames, getBuiltInLabelNames, getExtensionLabelNames, initInternalLabelsMask
  <2>2. n # "" /\ n # "level" /\ ~\E f \in mask.BuiltIn : BuiltInName[f] = n
    BY <2>1, LevelName DEF MaskFits, NamesFit
  <2>3. j \in LabelId /\ nm[j] = n
    BY <2>1
  <2>4. j = id
    BY <2>1, <2>2, <2>3 DEF NamesFit
  <2>5. getLabelValues(mask, l, nm)[n] = l.Extension[j]
    BY <2>1, <2>2 DEF getLabelValues, getBuiltInLabelNames, getBuiltInLabelValues,
      getExtensionLabelValues
  <2> QED  BY <2>4, <2>5
<1> QED  BY <1>1, <1>2 DEF Shown

LEMMA NameOutsideMask ==
    ASSUME NEW nm, NamesFit(nm), NEW mask, MaskFits(mask)
    PROVE  /\ \A f \in BuiltInField \ mask.BuiltIn : BuiltInName[f] \notin getLabelNames(mask, nm)
           /\ \A id \in LabelId \ initInternalLabelsMask(mask, nm) :
                 nm[id] \notin getLabelNames(mask, nm)
<1>1. ASSUME NEW f \in BuiltInField \ mask.BuiltIn, BuiltInName[f] \in getLabelNames(mask, nm)
      PROVE  FALSE
  <2>1. CASE \E h \in mask.BuiltIn : BuiltInName[f] = BuiltInName[h]
    BY <2>1, BuiltInNamesDistinct DEF MaskFits
  <2>2. CASE \E id \in LabelId : BuiltInName[f] = nm[id]
    BY <2>2 DEF NamesFit
  <2> QED  BY <1>1, <2>1, <2>2
    DEF getLabelNames, getBuiltInLabelNames, getExtensionLabelNames, initInternalLabelsMask
<1>2. ASSUME NEW id \in LabelId \ initInternalLabelsMask(mask, nm),
             nm[id] \in getLabelNames(mask, nm)
      PROVE  FALSE
  <2>1. CASE \E h \in mask.BuiltIn : nm[id] = BuiltInName[h]
    BY <2>1 DEF NamesFit, MaskFits
  <2>2. CASE \E j \in LabelId : nm[j] \in mask.Extensions /\ nm[id] = nm[j]
    BY <2>2 DEF initInternalLabelsMask
  <2> QED  BY <1>2, <2>1, <2>2
    DEF getLabelNames, getBuiltInLabelNames, getExtensionLabelNames, initInternalLabelsMask
<1> QED  BY <1>1, <1>2

LEMMA KeyOfMask ==
    ASSUME LevelKept, NEW nm, NamesFit(nm), NEW mask, MaskFits(mask), NEW k,
           k.BuiltIn["Level"] = ""
    PROVE  Masked(nm, mask, MappedIn(nm, mask, k).key)
<1> DEFINE labels    == maskLabels(mask, k, nm)
           values    == getLabelValues(mask, labels, nm)
           overrides == overrideValues(values)
           key       == MappedIn(nm, mask, k).key
<1>1. key = overrideLabels(labels, overrides, nm)
  BY DEF MappedIn
<1>2. DOMAIN overrides \subseteq getLabelNames(mask, nm) /\ "level" \notin DOMAIN overrides
  <2>1. DOMAIN values = getLabelNames(mask, nm)
    BY DEF getLabelValues, getBuiltInLabelNames, getBuiltInLabelValues,
      getExtensionLabelValues
  <2> HIDE DEF values
  <2> QED  BY <2>1, OverridesOfMask
<1> HIDE DEF overrides, key
<1>3. key = [BuiltIn   |-> [f \in BuiltInField |-> key.BuiltIn[f]],
             Extension |-> [id \in LabelId |-> key.Extension[id]]]
  BY <1>1 DEF overrideLabels, getOverrideBuiltInLabelValues, getOverrideExtensionLabelValues
<1>4. ASSUME NEW f \in BuiltInField, f \notin mask.BuiltIn \/ f = "Level"
      PROVE  key.BuiltIn[f] = ""
  <2>1. BuiltInName[f] \notin DOMAIN overrides
    BY <1>4, <1>2, LevelName, NameOutsideMask
  <2>2. labels.BuiltIn[f] = ""
    BY <1>4 DEF maskLabels, builtInMask, extensionMask
  <2> HIDE DEF labels
  <2>3. key.BuiltIn[f] = IF BuiltInName[f] \in DOMAIN overrides THEN overrides[BuiltInName[f]]
                         ELSE labels.BuiltIn[f]
    BY <1>1 DEF overrideLabels, getOverrideBuiltInLabelValues, getOverrideExtensionLabelValues
  <2> QED  BY <2>1, <2>2, <2>3
<1>5. ASSUME NEW id \in LabelId \ initInternalLabelsMask(mask, nm)
      PROVE  key.Extension[id] = ""
  <2>1. nm[id] \notin DOMAIN overrides
    BY <1>2, NameOutsideMask
  <2>2. labels.Extension[id] = ""
    BY DEF maskLabels, builtInMask, extensionMask
  <2> HIDE DEF labels
  <2>3. key.Extension[id] = IF nm[id] \in DOMAIN overrides THEN overrides[nm[id]]
                            ELSE labels.Extension[id]
    BY <1>1 DEF overrideLabels, getOverrideBuiltInLabelValues, getOverrideExtensionLabelValues
  <2> QED  BY <2>1, <2>2, <2>3
<1>6. Masked(nm, mask, key)
  BY <1>3, <1>4, <1>5 DEF Masked
<1> QED  BY <1>6 DEF key

\* Keys that are rendered alike are the same.
LEMMA KeysDistinct ==
    ASSUME NEW nm, NEW mask, NEW g1, NEW g2,
           Masked(nm, mask, g1), Masked(nm, mask, g2), Shown(nm, mask, g1), Shown(nm, mask, g2),
           getLabelValues(mask, g1, nm) = getLabelValues(mask, g2, nm)
    PROVE  g1 = g2
<1>1. \A f \in BuiltInField : g1.BuiltIn[f] = g2.BuiltIn[f]
  <2> TAKE f \in BuiltInField
  <2>1. CASE f \notin mask.BuiltIn \/ f = "Level"
    <3>1. g1.BuiltIn[f] = "" /\ g2.BuiltIn[f] = ""
      BY <2>1 DEF Masked
    <3> QED  BY <3>1
  <2>2. CASE f \in mask.BuiltIn \ {"Level"}
    <3>1. /\ getLabelValues(mask, g1, nm)[BuiltInName[f]] = g1.BuiltIn[f]
          /\ getLabelValues(mask, g2, nm)[BuiltInName[f]] = g2.BuiltIn[f]
      BY <2>2 DEF Shown
    <3> QED  BY <3>1
  <2> QED  BY <2>1, <2>2
<1>2. \A id \in LabelId : g1.Extension[id] = g2.Extension[id]
  <2> TAKE id \in LabelId
  <2>1. CASE id \notin initInternalLabelsMask(mask, nm)
    <3>1. g1.Extension[id] = "" /\ g2.Extension[id] = ""
      BY <2>1 DEF Masked
    <3> QED  BY <3>1
  <2>2. CASE id \in initInternalLabelsMask(mask, nm)
    <3>1. /\ getLabelValues(mask, g1, nm)[nm[id]] = g1.Extension[id]
          /\ getLabelValues(mask, g2, nm)[nm[id]] = g2.Extension[id]
      BY <2>2 DEF Shown
    <3> QED  BY <3>1
  <2> QED  BY <2>1, <2>2
<1>3. /\ [f \in BuiltInField |-> g1.BuiltIn[f]] = [f \in BuiltInField |-> g2.BuiltIn[f]]
      /\ [id \in LabelId |-> g1.Extension[id]] = [id \in LabelId |-> g2.Extension[id]]
  BY <1>1, <1>2
<1> QED  BY <1>3, Zenon DEF Masked
----------------------------------------------------------------------------
(* The invariant: the keys of the metric at hand have no level, and every   *)
(* key exported comes from a sample that passed the filters.                *)

Exported(nm, m) ==
    /\ MaskFits(m.Mask)
    /\ \A g \in DOMAIN m.Values :
          \E k : /\ k.BuiltIn["Level"] = ""
                /\ g = MappedIn(nm, m.Mask, k).key
                /\ Passes(m.Mask.Filters, MappedIn(nm, m.Mask, k).values)

Phases ==
    /\ phase \in {"loading", "rejected", "idle", "levels", "panicked"}
    /\ phase = "loading" => spec \in Configs
    /\ phase \in {"loading", "rejected"} => agg = None
    /\ phase \in {"idle", "levels", "panicked"} => WellFormed(spec)
    /\ phase = "levels" => agg # None
    /\ agg = None => level = 1 /\ sent = {}
    /\ agg # None => /\ \E i \in DOMAIN spec.Aggregations : agg = spec.Aggregations[i]
                     /\ level \in 1 .. Len(agg.Levels) + 1

IInv ==
    /\ Phases
    /\ \A k \in DOMAIN metric : k.BuiltIn["Level"] = ""
    /\ \A m \in sent : Exported(names, m)

LEMMA InitPhases == Init => Phases
BY DEF Init, Phases

\* The aggregation at work is one of the configuration's, and so is a level.
LEMMA LevelsOfAgg ==
    ASSUME Phases, phase = "levels"
    PROVE  /\ NamesFit(names) /\ level \in Nat \ {0} /\ Len(agg.Levels) \in Nat
           /\ level <= Len(agg.Levels) => LevelFits(CurrentLevel)
<1>1. PICK i \in DOMAIN spec.Aggregations : agg = spec.Aggregations[i]
  BY DEF Phases
<1>2. /\ Len(agg.Levels) \in Nat /\ DOMAIN agg.Levels = 1 .. Len(agg.Levels)
      /\ \A j \in DOMAIN agg.Levels : LevelFits(agg.Levels[j])
  BY <1>1 DEF Phases, WellFormed
<1>3. level \in 1 .. Len(agg.Levels) + 1
  BY DEF Phases
<1>4. level \in Nat \ {0} /\ (level <= Len(agg.Levels) => level \in DOMAIN agg.Levels)
  BY <1>2, <1>3
<1>5. NamesFit(names)
  BY DEF Phases, WellFormed, names, NamesFit
<1> QED  BY <1>2, <1>4, <1>5 DEF CurrentLevel

LEMMA NextPhases == Phases /\ [Next]_vars => Phases'
<1> SUFFICES ASSUME Phases, [Next]_vars PROVE Phases'
  OBVIOUS
<1>1. CASE Load
  BY <1>1, ConfigsAssumption DEF Load, Phases
<1>2. ASSUME NEW i \in DOMAIN spec.Aggregations, NEW m \in RawMetric, Collect(i, m)
      PROVE  Phases'
  <2>1. WellFormed(spec) /\ spec' = spec /\ agg' = spec.Aggregations[i] /\ phase' = "levels"
        /\ level' = 1
    BY <1>2 DEF Collect, Phases
  <2>2. agg' # None /\ Len(agg'.Levels) \in Nat
    BY <2>1 DEF WellFormed
  <2>3. level' \in 1 .. Len(agg'.Levels) + 1
    BY <2>1, <2>2
  <2> QED  BY <2>1, <2>2, <2>3 DEF Phases
<1>3. CASE SkipLevel \/ AggregateLevel
  <2>1. /\ phase = "levels" /\ level <= Len(agg.Levels) /\ level' = level + 1
        /\ UNCHANGED <<spec, phase, agg>>
    <3>1. CASE SkipLevel
      <4>1. level < Len(agg.Levels) /\ phase = "levels"
        BY <3>1 DEF SkipLevel
      <4> QED  BY <3>1, <4>1, LevelsOfAgg DEF SkipLevel
    <3>2. CASE AggregateLevel
      BY <3>2 DEF AggregateLevel
    <3> QED  BY <1>3, <3>1, <3>2
  <2>2. level' \in 1 .. Len(agg'.Levels) + 1
    BY <2>1, LevelsOfAgg
  <2> QED  BY <2>1, <2>2 DEF Phases
<1>4. CASE PanicLevel \/ Finish
  BY <1>4 DEF PanicLevel, Finish, Phases
<1>5. CASE UNCHANGED vars
  BY <1>5 DEF vars, Phases
<1> QED  BY <1>1, <1>2, <1>3, <1>4, <1>5 DEF Next

LEMMA InitIInv == Init => IInv
BY InitPhases DEF Init, IInv, EmptyMetric

LEMMA ResultKeys ==
    ASSUME NEW l, NEW m, NEW op \in Operations(l), NEW g \in DOMAIN aggregateMetric(l, m)[op]
    PROVE  \E k \in DOMAIN m :
              /\ g = MappedIn(names, l.Mask, k).key
              /\ Passes(l.Mask.Filters, MappedIn(names, l.Mask, k).values)
<1> DEFINE kept == {k \in DOMAIN m : Passes(l.Mask.Filters, Mapped(l.Mask, k).values)}
<1>1. g \in DOMAIN Indexed(l.Mask, m)
  BY DEF aggregateMetric
<1>2. DOMAIN Indexed(l.Mask, m) = {Mapped(l.Mask, k).key : k \in kept}
  BY DEF Indexed
<1>3. \A k : Mapped(l.Mask, k) = MappedIn(names, l.Mask, k)
  BY DEF Mapped, MappedIn
<1> QED  BY <1>1, <1>2, <1>3

LEMMA AggregateLevelIInv ==
    ASSUME LevelKept, IInv, AggregateLevel
    PROVE  IInv'
<1> DEFINE l       == CurrentLevel
           results == aggregateMetric(l, metric)
<1>1. UNCHANGED <<spec, phase, agg>> /\ phase = "levels" /\ level <= Len(agg.Levels)
  BY DEF AggregateLevel
<1>2. MaskFits(l.Mask) /\ NamesFit(names)
  BY <1>1, LevelsOfAgg DEF IInv, LevelFits
<1>3. DOMAIN results = Operations(l)
  BY DEF aggregateMetric
<1>4. ASSUME NEW op \in DOMAIN results, NEW g \in DOMAIN results[op]
      PROVE  /\ g.BuiltIn["Level"] = ""
             /\ \E k : /\ k.BuiltIn["Level"] = ""
                      /\ g = MappedIn(names, l.Mask, k).key
                      /\ Passes(l.Mask.Filters, MappedIn(names, l.Mask, k).values)
  <2>1. PICK k \in DOMAIN metric :
           /\ g = MappedIn(names, l.Mask, k).key
           /\ Passes(l.Mask.Filters, MappedIn(names, l.Mask, k).values)
    BY <1>3, ResultKeys
  <2>2. k.BuiltIn["Level"] = ""
    BY DEF IInv
  <2>3. Masked(names, l.Mask, g)
    BY <1>2, <2>1, <2>2, KeyOfMask
  <2> QED  BY <2>1, <2>2, <2>3, LevelName DEF Masked
<1>5. \A k \in DOMAIN metric' : k.BuiltIn["Level"] = ""
  BY <1>4 DEF AggregateLevel
<1>6. \A m \in sent' : Exported(names, m)
  <2>1. ASSUME NEW op \in DOMAIN results
        PROVE  Exported(names, [Index |-> level, Level |-> l.Mask.Level, Operation |-> op,
                                Mask |-> l.Mask, Values |-> results[op]])
    BY <1>2, <1>4 DEF Exported
  <2> QED  BY <2>1 DEF AggregateLevel, IInv
<1>7. names' = names
  BY <1>1 DEF names
<1>8. Phases'
  BY NextPhases DEF Next, IInv
<1> QED  BY <1>5, <1>6, <1>7, <1>8 DEF IInv

\* Steps that export nothing.
LEMMA OtherIInv ==
    ASSUME IInv,
           \/ Load \/ SkipLevel \/ PanicLevel \/ Finish \/ UNCHANGED vars
           \/ \E i \in DOMAIN spec.Aggregations, m \in RawMetric : Collect(i, m)
    PROVE  IInv'
<1>0. Phases'
  BY NextPhases DEF Next, IInv
<1>1. CASE Load
  <2>1. sent' = {} /\ metric' = metric
    BY <1>1 DEF Load, IInv, Phases
  <2> QED  BY <1>0, <2>1 DEF IInv
<1>2. CASE SkipLevel \/ PanicLevel \/ Finish \/ UNCHANGED vars
  <2>1. UNCHANGED <<spec, metric, sent>>
    BY <1>2 DEF SkipLevel, PanicLevel, Finish, vars
  <2> QED  BY <1>0, <2>1 DEF IInv, names
<1>3. ASSUME NEW i \in DOMAIN spec.Aggregations, NEW m \in RawMetric, Collect(i, m)
      PROVE  IInv'
  <2>1. \A k \in DOMAIN metric' : k.BuiltIn["Level"] = ""
    BY <1>3, RawMetricAssumption DEF Collect
  <2> QED  BY <1>0, <1>3, <2>1 DEF Collect, IInv
<1> QED  BY <1>1, <1>2, <1>3

LEMMA ExportedSeries ==
    ASSUME LevelKept, IInv, NEW m \in sent, NEW g \in DOMAIN m.Values
    PROVE  /\ Passes(m.Mask.Filters, Series(m)[g])
           /\ Masked(names, m.Mask, g) /\ Shown(names, m.Mask, g)
<1>1. PICK k : /\ k.BuiltIn["Level"] = ""
               /\ g = MappedIn(names, m.Mask, k).key
               /\ Passes(m.Mask.Filters, MappedIn(names, m.Mask, k).values)
  BY DEF IInv, Exported
<1>2. MaskFits(m.Mask) /\ NamesFit(names)
  <2>1. WellFormed(spec)
    BY DEF IInv, Phases
  <2> QED  BY <2>1 DEF IInv, Exported, WellFormed, names, NamesFit
<1>3. Series(m)[g] = MappedIn(names, m.Mask, k).values
  BY <1>1, <1>2, RenderedIsMapped DEF Series
<1> QED  BY <1>1, <1>2, <1>3, KeyOfMask, RenderedLabels

LEMMA InductiveInvariant ==
    ASSUME LevelKept
    PROVE  Spec => []IInv
<1>1. IInv /\ [Next]_vars => IInv'
  BY AggregateLevelIInv, OtherIInv DEF Next
<1> QED  BY InitIInv, <1>1, PTL DEF Spec

\* Whatever the masks, the filters and the overriders, provided that no
\* overrider changes the level, a level never exports a series twice.
THEOREM NoSeriesTwice ==
    ASSUME LevelKept
    PROVE  Spec => []SeriesDistinct
<1>1. IInv => SeriesDistinct
  <2> SUFFICES ASSUME IInv, NEW m \in sent, NEW g1 \in DOMAIN m.Values,
                      NEW g2 \in DOMAIN m.Values, Series(m)[g1] = Series(m)[g2]
               PROVE  g1 = g2
    BY DEF SeriesDistinct
  <2>1. getLabelValues(m.Mask, g1, names) = getLabelValues(m.Mask, g2, names)
    BY DEF Series
  <2> QED  BY <2>1, ExportedSeries, KeysDistinct
<1> QED  BY <1>1, InductiveInvariant, PTL

\* And what it exports passes its filters as it is rendered.
THEOREM SeriesPass ==
    ASSUME LevelKept
    PROVE  Spec => []ExportedPassFilters
<1>1. IInv => ExportedPassFilters
  BY ExportedSeries DEF ExportedPassFilters
<1> QED  BY <1>1, InductiveInvariant, PTL
----------------------------------------------------------------------------
(* Numbers: induction, extremes and sums.                                   *)

\* Induction: a set of numbers that is not empty has a least element.
LEMMA LeastNumber ==
    ASSUME NEW S \in SUBSET Nat, S # {}
    PROVE  \E n \in S : \A m \in S : n <= m
<1> DEFINE R == OpToRel(<, Nat)
<1>1. IsWellFoundedOn(R, Nat)
  BY NatLessThanWellFounded
<1>2. \A x, y \in Nat : x < y => <<x, y>> \in R
  BY DEF OpToRel
<1> HIDE DEF R
<1>3. PICK n \in S : \A m \in S : ~(<<m, n>> \in R)
  BY <1>1, WFMin
<1>4. \A m \in S : m \in Nat /\ n \in Nat /\ ~(m < n)
  BY <1>2, <1>3
<1>5. \A m \in S : n <= m
  BY <1>4
<1> QED  BY <1>5


\* A finite set of numbers has a least and a greatest.
LEMMA Extremes ==
    ASSUME NEW S \in SUBSET Int, IsFiniteSet(S), S # {}
    PROVE  /\ Min(S) \in S /\ \A x \in S : Min(S) <= x
           /\ Max(S) \in S /\ \A x \in S : x <= Max(S)
<1> DEFINE Ok(s) == /\ \E a \in s : \A x \in s : a <= x
                    /\ \E b \in s : \A x \in s : x <= b
<1> DEFINE Bad == {n \in Nat : \E s \in SUBSET S : s # {} /\ Cardinality(s) = n /\ ~Ok(s)}
<1>1. Bad = {}
  <2> SUFFICES ASSUME Bad # {} PROVE FALSE
    OBVIOUS
  <2>1. PICK n \in Bad : \A m \in Bad : n <= m
    <3>1. Bad \in SUBSET Nat
      OBVIOUS
    <3> HIDE DEF Bad
    <3> QED  BY <3>1, LeastNumber
  <2>2. PICK s \in SUBSET S : s # {} /\ Cardinality(s) = n /\ ~Ok(s)
    BY <2>1
  <2>3. PICK x \in s : TRUE
    BY <2>2
  <2> DEFINE t == s \ {x}
  <2>4. IsFiniteSet(s)
    BY FS_Subset
  <2>5. Cardinality(t) = n - 1 /\ n \in Nat
    BY <2>2, <2>3, <2>4, FS_RemoveElement
  <2>6. t # {}
    <3> SUFFICES ASSUME t = {} PROVE FALSE
      OBVIOUS
    <3>1. s = {x} /\ x \in Int
      BY <2>3
    <3>2. Ok(s)
      BY <3>1
    <3> QED  BY <3>2, <2>2
  <2>7. n - 1 \in Nat
    <3>1. IsFiniteSet(t) 
      BY <2>4, FS_Subset
    <3> QED  BY <3>1, <2>5, FS_CardinalityType
  <2>8. Ok(t)
    <3> SUFFICES ASSUME ~Ok(t) PROVE FALSE
      OBVIOUS
    <3>1. n - 1 \in Bad
      BY <2>5, <2>6, <2>7
    <3> HIDE DEF Bad
    <3> QED  BY <3>1, <2>1, <2>5
  <2>9. PICK a \in t, b \in t : \A y \in t : a <= y /\ y <= b
    BY <2>8
  <2>10. \A y \in s : y \in Int /\ (y = x \/ y \in t)
    OBVIOUS
  <2>11. \E c \in s : \A y \in s : c <= y
    <3> DEFINE c == IF x <= a THEN x ELSE a
    <3>1. c \in s /\ \A y \in s : c <= y
      BY <2>3, <2>9, <2>10
    <3> QED  BY <3>1
  <2>12. \E c \in s : \A y \in s : y <= c
    <3> DEFINE c == IF b <= x THEN x ELSE b
    <3>1. c \in s /\ \A y \in s : y <= c
      BY <2>3, <2>9, <2>10
    <3> QED  BY <3>1
  <2> QED  BY <2>2, <2>11, <2>12
<1>2. Cardinality(S) \in Nat
  BY FS_CardinalityType
<1>3. Ok(S)
  BY <1>1, <1>2
<1>4. Min(S) \in S /\ \A x \in S : Min(S) <= x
  BY <1>3 DEF Min
<1>5. Max(S) \in S /\ \A x \in S : Max(S) >= x
  <2>1. \E b \in S : \A x \in S : b >= x
    BY <1>3
  <2> QED  BY <2>1 DEF Max
<1>6. \A x \in S : x <= Max(S)
  BY <1>5
<1> QED  BY <1>4, <1>5, <1>6

\* The function that MapThenSumSet defines by recursion over subsets.
IsSum(g, f, D) ==
    g = [s \in D |-> IF s = {} THEN 0
                     ELSE LET x == CHOOSE x \in s : TRUE IN f[x] + g[s \ {x}]]

LEMMA ChosenElement ==
    ASSUME NEW S, IsFiniteSet(S), NEW s \in SUBSET S, s # {}
    PROVE  LET x == CHOOSE x \in s : TRUE
           IN  /\ x \in s /\ x \in S
               /\ s \ {x} \in SUBSET S
               /\ Cardinality(s) \in Nat /\ Cardinality(s \ {x}) = Cardinality(s) - 1
               /\ Cardinality(s) > 0
<1> DEFINE x == CHOOSE x \in s : TRUE
<1>1. x \in s
  OBVIOUS
<1>2. IsFiniteSet(s)
  BY FS_Subset
<1> HIDE DEF x
<1>3. Cardinality(s \ {x}) = Cardinality(s) - 1
  BY <1>1, <1>2, FS_RemoveElement
<1>4. Cardinality(s) \in Nat /\ Cardinality(s) # 0
  BY <1>2, FS_CardinalityType, FS_EmptySet
<1> QED  BY <1>1, <1>3, <1>4 DEF x

\* It exists, by induction on the size of the subsets: the sums over subsets
\* of n elements give those over subsets of n + 1.
LEMMA SumExists ==
    ASSUME NEW S, IsFiniteSet(S), NEW f
    PROVE  \E g : IsSum(g, f, SUBSET S)
<1> DEFINE D(n) == {s \in SUBSET S : Cardinality(s) <= n}
<1> DEFINE Bad == {n \in Nat : ~ \E g : IsSum(g, f, D(n))}
<1>1. Bad = {}
  <2> SUFFICES ASSUME Bad # {} PROVE FALSE
    OBVIOUS
  <2>1. PICK n \in Bad : \A m \in Bad : n <= m
    <3>1. Bad \in SUBSET Nat
      OBVIOUS
    <3> HIDE DEF Bad
    <3> QED  BY <3>1, LeastNumber
  <2>2. \A s \in D(0) : s = {}
    <3> TAKE s \in D(0)
    <3>1. s # {} => Cardinality(s) \in Nat /\ Cardinality(s) > 0
      BY ChosenElement
    <3> QED  BY <3>1
  <2>3. n # 0
    <3>1. IsSum([s \in D(0) |-> 0], f, D(0))
      BY <2>2 DEF IsSum
    <3> QED  BY <3>1
  <2>4. n - 1 \in Nat /\ n - 1 \notin Bad
    <3>1. n \in Nat
      BY <2>1
    <3> HIDE DEF Bad
    <3> QED  BY <3>1, <2>1, <2>3
  <2>5. PICK h : IsSum(h, f, D(n - 1))
    BY <2>4
  <2> DEFINE g == [s \in D(n) |-> IF s = {} THEN 0
                        ELSE LET x == CHOOSE x \in s : TRUE IN f[x] + h[s \ {x}]]
  <2>6. ASSUME NEW s \in D(n), s # {}
        PROVE  LET x == CHOOSE x \in s : TRUE
               IN  s \ {x} \in D(n - 1) /\ s \ {x} \in D(n)
    BY <2>4, <2>6, ChosenElement
  <2>7. \A s \in D(n - 1) : s \in D(n) => g[s] = h[s]
    BY <2>5 DEF IsSum
  <2>8. ASSUME NEW s \in D(n), s # {}
        PROVE  LET x == CHOOSE x \in s : TRUE IN g[s] = f[x] + g[s \ {x}]
    BY <2>6, <2>7, <2>8
  <2>9. IsSum(g, f, D(n))
    <3>1. g = [s \in D(n) |-> g[s]]
      OBVIOUS
    <3>2. \A s \in D(n) : s = {} => g[s] = 0
      OBVIOUS
    <3> HIDE DEF g, D
    <3>3. \A s \in D(n) : g[s] = IF s = {} THEN 0
                     ELSE LET x == CHOOSE x \in s : TRUE IN f[x] + g[s \ {x}]
      BY <3>2, <2>8
    <3> QED  BY <3>1, <3>3 DEF IsSum
  <2> QED  BY <2>1, <2>9
<1>2. Cardinality(S) \in Nat /\ D(Cardinality(S)) = SUBSET S
  <2>1. Cardinality(S) \in Nat
    BY FS_CardinalityType
  <2>2. \A s \in SUBSET S : Cardinality(s) <= Cardinality(S)
    BY FS_Subset
  <2> QED  BY <2>1, <2>2
<1>3. \E g : IsSum(g, f, D(Cardinality(S)))
  <2> HIDE DEF D
  <2> QED  BY <1>1, <1>2
<1> HIDE DEF D
<1> QED  BY <1>2, <1>3


\* A sum is at most as many times the greatest summand.
LEMMA SumAtMost ==
    ASSUME NEW S, IsFiniteSet(S), NEW f, NEW hi \in Int,
           \A x \in S : f[x] \in Int /\ f[x] <= hi,
           NEW g, IsSum(g, f, SUBSET S)
    PROVE  g[S] \in Int /\ g[S] <= hi * Cardinality(S)
<1> DEFINE Ok(s) == g[s] \in Int /\ g[s] <= hi * Cardinality(s)
<1> DEFINE Bad == {n \in Nat : \E s \in SUBSET S : Cardinality(s) = n /\ ~Ok(s)}
<1>1. Bad = {}
  <2> SUFFICES ASSUME Bad # {} PROVE FALSE
    OBVIOUS
  <2>1. PICK n \in Bad : \A m \in Bad : n <= m
    <3>1. Bad \in SUBSET Nat
      OBVIOUS
    <3> HIDE DEF Bad
    <3> QED  BY <3>1, LeastNumber
  <2>2. PICK s \in SUBSET S : Cardinality(s) = n /\ ~Ok(s)
    BY <2>1
  <2>3. s # {}
    <3>1. g[{}] = 0
      BY DEF IsSum
    <3>2. Ok({})
      BY <3>1, FS_EmptySet
    <3> QED  BY <3>2, <2>2
  <2> DEFINE x == CHOOSE x \in s : TRUE
  <2> DEFINE t == s \ {x}
  <2>4. x \in S /\ t \in SUBSET S /\ n \in Nat /\ n > 0 /\ Cardinality(t) = n - 1
    BY <2>2, <2>3, ChosenElement
  <2>5. g[s] = f[x] + g[t]
    BY <2>3 DEF IsSum
  <2> HIDE DEF x, t
  <2>6. Ok(t)
    <3> SUFFICES ASSUME ~Ok(t) PROVE FALSE
      OBVIOUS
    <3>1. n - 1 \in Bad
      BY <2>4
    <3> HIDE DEF Bad
    <3> QED  BY <3>1, <2>1, <2>4
  <2>7. f[x] \in Int /\ f[x] <= hi
    BY <2>4
  <2>8. hi * (n - 1) + hi = hi * n
    BY <2>4
  <2>9. Ok(s)
    <3> DEFINE h == hi * (n - 1)
    <3>1. g[t] <= h /\ g[t] \in Int /\ h \in Int
      BY <2>4, <2>6
    <3>2. hi * Cardinality(s) = h + hi
      BY <2>2, <2>8
    <3> HIDE DEF h
    <3> QED  BY <3>1, <3>2, <2>5, <2>7
  <2> QED  BY <2>2, <2>9
<1>2. Cardinality(S) \in Nat
  BY FS_CardinalityType
<1> QED  BY <1>1, <1>2

\* How many elements of J have their h in s.
Count(J, h, s) == Cardinality({j \in J : h[j] \in s})

\* Counting by value: each element of J is counted under one value.
LEMMA SumOfCounts ==
    ASSUME NEW S, IsFiniteSet(S), NEW J, IsFiniteSet(J), NEW h, NEW f,
           \A i \in S : f[i] = Count(J, h, {i}),
           NEW g, IsSum(g, f, SUBSET S)
    PROVE  g[S] = Count(J, h, S)
<1> DEFINE Of(s) == {j \in J : h[j] \in s}
<1> DEFINE Ok(s) == g[s] = Cardinality(Of(s))
<1> DEFINE Bad == {n \in Nat : \E s \in SUBSET S : Cardinality(s) = n /\ ~Ok(s)}
<1>1. Bad = {}
  <2> SUFFICES ASSUME Bad # {} PROVE FALSE
    OBVIOUS
  <2>1. PICK n \in Bad : \A m \in Bad : n <= m
    <3>1. Bad \in SUBSET Nat
      OBVIOUS
    <3> HIDE DEF Bad
    <3> QED  BY <3>1, LeastNumber
  <2>2. PICK s \in SUBSET S : Cardinality(s) = n /\ ~Ok(s)
    BY <2>1
  <2>3. s # {}
    <3>1. g[{}] = 0
      BY DEF IsSum
    <3>2. Of({}) = {}
      OBVIOUS
    <3>3. Ok({})
      BY <3>1, <3>2, FS_EmptySet
    <3> QED  BY <3>3, <2>2
  <2> DEFINE x == CHOOSE x \in s : TRUE
  <2> DEFINE t == s \ {x}
  <2>4. x \in s /\ x \in S /\ t \in SUBSET S /\ n \in Nat /\ n > 0 /\ Cardinality(t) = n - 1
    BY <2>2, <2>3, ChosenElement
  <2>5. g[s] = f[x] + g[t]
    BY <2>3 DEF IsSum
  <2>6. Ok(t)
    <3> HIDE DEF x, t, Ok
    <3> SUFFICES ASSUME ~Ok(t) PROVE FALSE
      OBVIOUS
    <3>1. n - 1 \in Bad
      BY <2>4
    <3> HIDE DEF Bad
    <3> QED  BY <3>1, <2>1, <2>4
  <2> DEFINE X == {j \in J : h[j] = x}
  <2>7. Of(s) = X \cup Of(t) /\ X \cap Of(t) = {}
    <3> HIDE DEF x
    <3> QED  BY <2>4
  <2> HIDE DEF x, t
  <2>8. IsFiniteSet(X) /\ IsFiniteSet(Of(t)) /\ f[x] = Cardinality(X)
    <3>1. X = {j \in J : h[j] \in {x}}
      OBVIOUS
    <3>2. f[x] = Count(J, h, {x})
      BY <2>4
    <3>3. f[x] = Cardinality(X)
      BY <3>1, <3>2 DEF Count
    <3> QED  BY <3>3, FS_Subset
  <2> HIDE DEF X, Of
  <2>9. Cardinality(X \cup Of(t)) = Cardinality(X) + Cardinality(Of(t))
    <3>1. /\ Cardinality(X \cup Of(t)) =
                Cardinality(X) + Cardinality(Of(t)) - Cardinality(X \cap Of(t))
          /\ Cardinality(X) \in Nat /\ Cardinality(Of(t)) \in Nat
      BY <2>8, FS_Union, FS_CardinalityType
    <3>2. Cardinality(X \cap Of(t)) = 0
      BY <2>7, FS_EmptySet
    <3> QED  BY <3>1, <3>2
  <2> QED  BY <2>2, <2>5, <2>6, <2>7, <2>8, <2>9
<1>2. Cardinality(S) \in Nat
  BY FS_CardinalityType
<1> QED  BY <1>1, <1>2 DEF Count

LEMMA FunctionSum ==
    ASSUME NEW f, IsFiniteSet(DOMAIN f)
    PROVE  \E g : IsSum(g, f, SUBSET DOMAIN f) /\ SumFunction(f) = g[DOMAIN f]
                  /\ FoldSeq(+, 0, f) = g[DOMAIN f]
<1> DEFINE P(g) == g = [s \in SUBSET DOMAIN f |-> IF s = {} THEN 0
                        ELSE LET x == CHOOSE x \in s : TRUE IN f[x] + g[s \ {x}]]
           sum  == CHOOSE g : P(g)
<1>1. SumFunction(f) = sum[DOMAIN f]
  BY DEF SumFunction, SumFunctionOnSet, FoldFunctionOnSet, MapThenFoldSet
<1>2. FoldSeq(+, 0, f) = sum[DOMAIN f]
  BY DEF FoldSeq, FoldFunction, FoldFunctionOnSet, MapThenFoldSet
<1>3. \A g : P(g) <=> IsSum(g, f, SUBSET DOMAIN f)
  BY DEF IsSum
<1>4. \E g : IsSum(g, f, SUBSET DOMAIN f)
  BY SumExists
<1> HIDE DEF P
<1>5. IsSum(sum, f, SUBSET DOMAIN f)
  BY <1>3, <1>4
<1> HIDE DEF sum
<1> QED  BY <1>1, <1>2, <1>5

LEMMA IndexSet ==
    ASSUME NEW values \in Seq(Int)
    PROVE  /\ DOMAIN values = 1 .. Len(values) /\ Len(values) \in Nat
           /\ IsFiniteSet(DOMAIN values) /\ Cardinality(DOMAIN values) = Len(values)
           /\ \A i \in DOMAIN values : values[i] \in Int
<1>1. DOMAIN values = 1 .. Len(values) /\ Len(values) \in Nat
  OBVIOUS
<1>2. IsFiniteSet(1 .. Len(values)) /\ Cardinality(1 .. Len(values)) = Len(values)
  <2> DEFINE n == Len(values)
  <2>1. n \in Nat
    BY <1>1
  <2> HIDE DEF n
  <2>2. IsFiniteSet(1 .. n) /\ Cardinality(1 .. n) = n
    <3>1. 1 \in Int /\ n \in Int
      BY <2>1
    <3>2. /\ IsFiniteSet(1 .. n)
          /\ Cardinality(1 .. n) = IF 1 > n THEN 0 ELSE n - 1 + 1
      BY <3>1, FS_Interval
    <3> QED  BY <2>1, <3>2
  <2> QED  BY <2>2 DEF n
<1> QED  BY <1>1, <1>2

LEMMA FiniteImage ==
    ASSUME NEW S, IsFiniteSet(S), NEW f
    PROVE  IsFiniteSet({f[x] : x \in S})
<1> DEFINE T == {f[x] : x \in S}
           g == [x \in S |-> f[x]]
<1>1. g \in Surjection(S, T)
  BY DEF Surjection
<1> HIDE DEF T, g
<1>2. IsFiniteSet(T)
  BY <1>1, FS_Surjection
<1> QED  BY <1>2 DEF T

LEMMA ValueSet ==
    ASSUME NEW values \in Seq(Int)
    PROVE  /\ ToSet(values) \in SUBSET Int /\ IsFiniteSet(ToSet(values))
           /\ ToSet(values) = {values[i] : i \in DOMAIN values}
           /\ values # <<>> => /\ ToSet(values) # {}
                              /\ Max(ToSet(values)) \in ToSet(values)
                              /\ \A i \in DOMAIN values : values[i] <= Max(ToSet(values))
<1>1. ToSet(values) = {values[i] : i \in DOMAIN values}
  BY DEF ToSet
<1>2. ToSet(values) \in SUBSET Int
  BY <1>1, IndexSet
<1>3. IsFiniteSet(ToSet(values))
  BY <1>1, IndexSet, FiniteImage
<1>4. ASSUME values # <<>>
      PROVE  ToSet(values) # {}
  BY <1>1, <1>4
<1> QED  BY <1>1, <1>2, <1>3, <1>4, Extremes

LEMMA TotalAtMost ==
    ASSUME NEW values \in Seq(Int), NEW hi \in Int, \A i \in DOMAIN values : values[i] <= hi
    PROVE  Total(values) \in Int /\ Total(values) <= hi * Len(values)
<1> DEFINE D == DOMAIN values
<1>1. IsFiniteSet(D) /\ Cardinality(D) = Len(values) /\ \A i \in D : values[i] \in Int /\ values[i] <= hi
  BY IndexSet
<1>2. PICK g : IsSum(g, values, SUBSET D) /\ Total(values) = g[D]
  BY <1>1, FunctionSum DEF Total
<1> HIDE DEF D
<1>3. g[D] \in Int /\ g[D] <= hi * Cardinality(D)
  BY <1>1, <1>2, SumAtMost
<1> QED  BY <1>1, <1>2, <1>3

LEMMA TotalType ==
    ASSUME NEW values \in Seq(Int), values # <<>>
    PROVE  Total(values) \in Int
<1> DEFINE m == Max(ToSet(values))
<1>1. m \in Int /\ \A i \in DOMAIN values : values[i] <= m
  BY ValueSet
<1> HIDE DEF m
<1> QED  BY <1>1, TotalAtMost

\* The order statistics: Sort has the values given, in ascending order.
LEMMA SortFacts ==
    ASSUME NEW values \in Seq(Int)
    PROVE  /\ Sort(values) \in Seq(Int) /\ Len(Sort(values)) = Len(values)
           /\ DOMAIN Sort(values) = DOMAIN values
           /\ \A i \in DOMAIN values : Sort(values)[i] \in ToSet(values)
           /\ \A i, j \in DOMAIN values : i <= j => Sort(values)[i] <= Sort(values)[j]
           /\ values # <<>> => Sort(values)[Len(values)] = Max(ToSet(values))
<1> DEFINE UpTo(x) == Cardinality({j \in DOMAIN values : values[j] <= x})
           C(i) == {x \in ToSet(values) : UpTo(x) >= i}
           s == Sort(values)
           n == Len(values)
           m == Max(ToSet(values))
<1>1. s = [i \in 1 .. n |-> Min(C(i))] /\ DOMAIN values = 1 .. n /\ n \in Nat
  BY IndexSet DEF Sort
<1>2. \A i \in 1 .. n : C(i) \in SUBSET Int /\ IsFiniteSet(C(i)) /\ C(i) \subseteq ToSet(values)
  BY ValueSet, FS_Subset
<1>3. ASSUME NEW i \in 1 .. n
      PROVE  m \in C(i) /\ values # <<>>
  <2>1. values # <<>>
    BY <1>1
  <2>2. m \in ToSet(values) /\ {j \in DOMAIN values : values[j] <= m} = DOMAIN values
    BY <2>1, ValueSet
  <2>3. UpTo(m) = n
    BY <2>2, IndexSet
  <2>4. n >= i
    BY <1>1
  <2> QED  BY <2>1, <2>2, <2>3, <2>4
<1>4. ASSUME NEW i \in 1 .. n
      PROVE  s[i] \in C(i) /\ s[i] \in Int /\ \A x \in C(i) : s[i] <= x
  <2> HIDE DEF C, s, m
  <2>1. s[i] = Min(C(i)) /\ C(i) # {}
    BY <1>1, <1>3
  <2> QED  BY <1>2, <2>1, Extremes
<1>5. s \in [1 .. n -> Int]
  <2> HIDE DEF C, s
  <2> QED  BY <1>1, <1>4
<1>6. s \in Seq(Int) /\ Len(s) = n /\ DOMAIN s = DOMAIN values
  <2>1. n \in Nat
    BY <1>1
  <2> HIDE DEF s, n
  <2>2. s \in Seq(Int)
    BY <1>5, <2>1
  <2>3. DOMAIN s = 1 .. n
    BY <1>5
  <2>4. Len(s) = n
    BY <2>1, <2>2, <2>3
  <2> QED  BY <1>1, <2>2, <2>3, <2>4 DEF n
<1>7. ASSUME NEW i \in 1 .. n, NEW j \in 1 .. n, i <= j
      PROVE  s[i] <= s[j]
  <2>1. \A x \in C(j) : UpTo(x) \in Nat
    BY IndexSet, FS_Subset, FS_CardinalityType
  <2>2. C(j) \subseteq C(i)
    <3> HIDE DEF UpTo
    <3> QED  BY <2>1, <1>7
  <2> HIDE DEF C, s
  <2> QED  BY <2>2, <1>4
<1>8. ASSUME values # <<>>
      PROVE  s[n] = m
  <2>1. n \in 1 .. n
    BY <1>8, <1>1
  <2>2. s[n] \in ToSet(values) /\ s[n] \in Int /\ UpTo(s[n]) >= n
    BY <2>1, <1>4
  <2> DEFINE J == {j \in DOMAIN values : values[j] <= s[n]}
  <2>3. J = DOMAIN values
    <3>1. J \subseteq DOMAIN values /\ Cardinality(J) >= n
      BY <2>2
    <3> HIDE DEF J
    <3>2. /\ IsFiniteSet(DOMAIN values) /\ Cardinality(DOMAIN values) = n
          /\ Cardinality(J) <= n /\ Cardinality(J) \in Nat
          /\ Cardinality(J) = n => J = DOMAIN values
      BY <3>1, IndexSet, FS_Subset, FS_CardinalityType
    <3> QED  BY <3>1, <3>2, <1>1
  <2>4. m \in ToSet(values) /\ m \in Int
    BY <1>8, ValueSet
  <2>5. m <= s[n]
    BY <2>3, <2>4, ValueSet
  <2>6. s[n] <= m
    BY <2>2, <1>8, ValueSet
  <2> HIDE DEF s, m
  <2> QED  BY <2>2, <2>4, <2>5, <2>6
<1> HIDE DEF s, n
<1>9. \A i \in DOMAIN values : s[i] \in ToSet(values)
  BY <1>1, <1>2, <1>4
<1> QED  BY <1>1, <1>6, <1>7, <1>8, <1>9 DEF s, n

\* The function that FlattenSeq defines by recursion.
IsFlat(f, ss, n) == f = [i \in 1 .. n |-> IF i = 1 THEN ss[i] ELSE f[i - 1] \o ss[i]]

LEMMA FlatExists ==
    ASSUME NEW ss, NEW n \in Nat
    PROVE  \E f : IsFlat(f, ss, n)
<1> DEFINE Bad == {k \in Nat : ~ \E f : IsFlat(f, ss, k)}
<1>1. Bad = {}
  <2> SUFFICES ASSUME Bad # {} PROVE FALSE
    OBVIOUS
  <2>1. PICK k \in Bad : \A j \in Bad : k <= j
    <3>1. Bad \in SUBSET Nat
      OBVIOUS
    <3> HIDE DEF Bad
    <3> QED  BY <3>1, LeastNumber
  <2>2. k # 0
    <3>1. IsFlat([i \in 1 .. 0 |-> <<>>], ss, 0)
      BY DEF IsFlat
    <3> QED  BY <3>1
  <2>3. k \in Nat /\ k - 1 \in Nat /\ k - 1 \notin Bad
    <3>1. k \in Nat
      BY <2>1
    <3> HIDE DEF Bad
    <3> QED  BY <3>1, <2>1, <2>2
  <2>4. PICK h : IsFlat(h, ss, k - 1)
    BY <2>3
  <2> DEFINE f == [i \in 1 .. k |-> IF i = 1 THEN ss[i] ELSE h[i - 1] \o ss[i]]
  <2>5. \A i \in 1 .. k - 1 : f[i] = h[i]
    <3> TAKE i \in 1 .. k - 1
    <3>1. h[i] = IF i = 1 THEN ss[i] ELSE h[i - 1] \o ss[i]
      BY <2>4, Zenon DEF IsFlat
    <3>2. i \in 1 .. k
      BY <2>3
    <3>3. f[i] = IF i = 1 THEN ss[i] ELSE h[i - 1] \o ss[i]
      BY <3>2, Zenon
    <3> QED  BY <3>1, <3>3, Zenon
  <2>6. \A i \in 1 .. k : i # 1 => i - 1 \in 1 .. k - 1
    BY <2>3
  <2>7. \A i \in 1 .. k : f[i] = IF i = 1 THEN ss[i] ELSE f[i - 1] \o ss[i]
    <3> TAKE i \in 1 .. k
    <3>1. f[i] = IF i = 1 THEN ss[i] ELSE h[i - 1] \o ss[i]
      OBVIOUS
    <3>2. i # 1 => f[i - 1] = h[i - 1]
      BY <2>5, <2>6
    <3> HIDE DEF f
    <3> QED  BY <3>1, <3>2
  <2>8. IsFlat(f, ss, k)
    <3>1. f = [i \in 1 .. k |-> f[i]]
      OBVIOUS
    <3> HIDE DEF f
    <3> QED  BY <2>7, <3>1 DEF IsFlat
  <2> QED  BY <2>1, <2>8
<1> QED  BY <1>1

LEMMA FlattenType ==
    ASSUME NEW n \in Nat, NEW ss \in [1 .. n -> Seq(Int)]
    PROVE  FlattenSeq(ss) \in Seq(Int)
<1>1. ss \in Seq(Seq(Int)) /\ Len(ss) = n
  OBVIOUS
<1>2. CASE n = 0
  <2>1. FlattenSeq(ss) = ss
    BY <1>1, <1>2 DEF FlattenSeq
  <2>2. ss = <<>>
    BY <1>1, <1>2
  <2> QED  BY <2>1, <2>2
<1>3. CASE n # 0
  <2> DEFINE P(f) == f = [i \in 1 .. n |-> IF i = 1 THEN ss[i] ELSE f[i - 1] \o ss[i]]
             flat == CHOOSE f : P(f)
  <2>1. FlattenSeq(ss) = flat[n]
    BY <1>1, <1>3 DEF FlattenSeq
  <2>2. IsFlat(flat, ss, n)
    <3>1. \A f : P(f) <=> IsFlat(f, ss, n)
      BY DEF IsFlat
    <3>2. \E f : IsFlat(f, ss, n)
      BY FlatExists
    <3> HIDE DEF P
    <3> QED  BY <3>1, <3>2
  <2> HIDE DEF flat
  <2>3. \A i \in 1 .. n : flat[i] = IF i = 1 THEN ss[i] ELSE flat[i - 1] \o ss[i]
    BY <2>2 DEF IsFlat
  <2> DEFINE Bad == {i \in 1 .. n : flat[i] \notin Seq(Int)}
  <2>4. Bad = {}
    <3> SUFFICES ASSUME Bad # {} PROVE FALSE
      OBVIOUS
    <3>1. PICK k \in Bad : \A j \in Bad : k <= j
      <4>1. Bad \in SUBSET Nat
        OBVIOUS
      <4> HIDE DEF Bad
      <4> QED  BY <4>1, LeastNumber
    <3>2. k \in 1 .. n /\ flat[k] \notin Seq(Int) /\ ss[k] \in Seq(Int)
      BY <3>1
    <3>3. k # 1 /\ k - 1 \in 1 .. n /\ flat[k] = flat[k - 1] \o ss[k]
      <4>1. k # 1
        BY <2>3, <3>2, Zenon
      <4>2. flat[k] = flat[k - 1] \o ss[k]
        BY <2>3, <3>2, <4>1, Zenon
      <4> QED  BY <3>2, <4>1, <4>2
    <3>4. flat[k - 1] \in Seq(Int)
      <4> SUFFICES ASSUME flat[k - 1] \notin Seq(Int) PROVE FALSE
        OBVIOUS
      <4>1. k - 1 \in Bad
        BY <3>3
      <4> HIDE DEF Bad
      <4> QED  BY <4>1, <3>1, <3>2
    <3> QED  BY <3>2, <3>3, <3>4
  <2>5. n \in 1 .. n
    BY <1>3
  <2> QED  BY <2>1, <2>4, <2>5
<1> QED  BY <1>2, <1>3

----------------------------------------------------------------------------
(* Types, the statistics of a level and the histograms.                     *)

\* Labels are strings, to the overriders too.
OverridesAreStrings ==
    \A values : \A n \in DOMAIN OverrideLabels(values) : OverrideLabels(values)[n] \in STRING

LEMMA KeyType ==
    ASSUME OverridesAreStrings, NEW mask, NEW k \in LabelsValues
    PROVE  Mapped(mask, k).key \in LabelsValues
<1> DEFINE labels    == maskLabels(mask, k, names)
           values    == getLabelValues(mask, labels, names)
           overrides == overrideValues(values)
<1>1. Mapped(mask, k).key = overrideLabels(labels, overrides, names)
  BY DEF Mapped
<1>2. labels.BuiltIn \in [BuiltInField -> STRING] /\ labels.Extension \in [LabelId -> STRING]
  <2>1. k.BuiltIn \in [BuiltInField -> STRING] /\ k.Extension \in [LabelId -> STRING]
    BY DEF LabelsValues
  <2> DEFINE empty == ""
  <2>2. empty \in STRING
    BY EmptyIsString
  <2>3. builtInMask(mask, k.BuiltIn) =
            [f \in BuiltInField |-> IF f \in mask.BuiltIn THEN k.BuiltIn[f] ELSE empty]
    BY DEF builtInMask
  <2>4. extensionMask(mask, k.Extension, names) =
            [id \in LabelId |-> IF id \in initInternalLabelsMask(mask, names)
                                THEN k.Extension[id] ELSE empty]
    BY DEF extensionMask
  <2> HIDE DEF empty
  <2>5. builtInMask(mask, k.BuiltIn) \in [BuiltInField -> STRING]
    BY <2>1, <2>2, <2>3
  <2>6. extensionMask(mask, k.Extension, names) \in [LabelId -> STRING]
    BY <2>1, <2>2, <2>4
  <2> QED  BY <2>5, <2>6 DEF maskLabels
<1>3. \A n \in DOMAIN overrides : overrides[n] \in STRING
  <2> HIDE DEF values
  <2> QED  BY DEF OverridesAreStrings, overrideValues
<1> HIDE DEF labels, overrides
<1>4. getOverrideBuiltInLabelValues(labels.BuiltIn, overrides) \in [BuiltInField -> STRING]
  BY <1>2, <1>3 DEF getOverrideBuiltInLabelValues
<1>5. getOverrideExtensionLabelValues(labels.Extension, overrides, names) \in [LabelId -> STRING]
  BY <1>2, <1>3 DEF getOverrideExtensionLabelValues
<1> QED  BY <1>1, <1>4, <1>5 DEF overrideLabels, LabelsValues

LEMMA SetToSeqType ==
    ASSUME NEW S, IsFiniteSet(S)
    PROVE  Cardinality(S) \in Nat /\ SetToSeq(S) \in [1 .. Cardinality(S) -> S]
BY FS_CardinalityType DEF SetToSeq, IsInjective, ExistsBijection, Bijection, Injection

LEMMA IndexedType ==
    ASSUME OverridesAreStrings, NEW mask, NEW m, IsMetric(m)
    PROVE  IsMetric(Indexed(mask, m))
<1> DEFINE kept == {k \in DOMAIN m : Passes(mask.Filters, Mapped(mask, k).values)}
           f == [k \in kept |-> Mapped(mask, k).key]
           Of(g) == {k \in kept : Mapped(mask, k).key = g}
           From(g) == SetToSeq(Of(g))
           G == {Mapped(mask, k).key : k \in kept}
           Parts(g) == [i \in DOMAIN From(g) |-> m[From(g)[i]]]
<1>1. Indexed(mask, m) = [g \in G |-> FlattenSeq(Parts(g))]
  BY DEF Indexed
<1>2. IsFiniteSet(kept) /\ kept \subseteq DOMAIN m
  BY FS_Subset DEF IsMetric
<1>3. G = {f[k] : k \in kept}
  OBVIOUS
<1>4. IsFiniteSet(G)
  <2> HIDE DEF kept, f, G
  <2> QED  BY <1>2, <1>3, FiniteImage
<1>5. G \subseteq LabelsValues
  BY KeyType DEF IsMetric
<1>6. ASSUME NEW g \in G
      PROVE  FlattenSeq(Parts(g)) \in Seq(Int)
  <2> DEFINE n == Cardinality(Of(g))
  <2>1. IsFiniteSet(Of(g)) /\ Of(g) \subseteq DOMAIN m
    BY <1>2, FS_Subset
  <2> HIDE DEF Of
  <2>2. n \in Nat /\ From(g) \in [1 .. n -> DOMAIN m]
    BY <2>1, SetToSeqType
  <2> HIDE DEF n, From
  <2>3. Parts(g) \in [1 .. n -> Seq(Int)]
    BY <2>2 DEF IsMetric
  <2> HIDE DEF Parts
  <2> QED  BY <2>2, <2>3, FlattenType
<1> HIDE DEF G, Parts
<1> QED  BY <1>1, <1>4, <1>5, <1>6 DEF IsMetric

LEMMA HalfIndex ==
    ASSUME NEW n \in Nat \ {0}
    PROVE  LET m == 1 + (n - 1) \div 2
               p == 1 + ((n - 1) * 95) \div 100
           IN  m \in 1 .. n /\ p \in 1 .. n /\ m <= p
OBVIOUS

LEMMA DivideType ==
    ASSUME NEW x \in Int, NEW n \in Nat \ {0}
    PROVE  divideQtyInt64(x, n) \in Int
<1>1. n * Grain \in Nat \ {0}
  BY AggregationAssumption
<1>2. \A y \in Int, d \in Nat \ {0} : (2 * y + d) \div (2 * d) \in Int
  OBVIOUS
<1>3. \A r \in Int : Grain * r \in Int
  BY AggregationAssumption
<1> QED  BY <1>1, <1>2, <1>3 DEF divideQtyInt64

LEMMA AggregateType ==
    ASSUME NEW op, NEW values \in Seq(Int), values # <<>>, NEW sorted \in BOOLEAN
    PROVE  aggregate(op, values, sorted) \in Seq(Int) /\ aggregate(op, values, sorted) # <<>>
<1> DEFINE s == IF sorted THEN values ELSE Sort(values)
           n == Len(values)
<1>1. n \in Nat \ {0} /\ DOMAIN values = 1 .. n
  OBVIOUS
<1>2. s \in Seq(Int) /\ Len(s) = n
  BY SortFacts
<1> HIDE DEF s
<1>3. \A i \in 1 .. n : s[i] \in Int /\ values[i] \in Int
  BY <1>2
<1>4. Total(values) \in Int /\ divideQtyInt64(Total(values), n) \in Int
  BY <1>1, TotalType, DivideType
<1>5. Max(ToSet(values) \cup {0}) \in Int
  <2>1. ToSet(values) \cup {0} \in SUBSET Int /\ IsFiniteSet(ToSet(values) \cup {0})
    BY ValueSet, FS_AddElement
  <2> QED  BY <2>1, Extremes
<1>6. s[1 + ((n - 1) * 95) \div 100] \in Int /\ s[1 + (n - 1) \div 2] \in Int /\ values[n] \in Int
  BY <1>1, <1>3, HalfIndex
<1>7. \A x \in Int : <<x>> \in Seq(Int) /\ <<x>> # <<>>
  OBVIOUS
<1>8. aggregate(op, values, sorted) =
          CASE op = "sum"    -> <<Total(values)>>
            [] op = "max"    -> IF sorted THEN <<values[n]>>
                                ELSE <<Max(ToSet(values) \cup {0})>>
            [] op = "avg"    -> <<divideQtyInt64(Total(values), n)>>
            [] op = "p95"    -> <<s[1 + ((n - 1) * 95) \div 100]>>
            [] op = "median" -> <<s[1 + (n - 1) \div 2]>>
            [] op = "hist"   -> values
            [] OTHER         -> <<0>>
  BY <1>2 DEF aggregate, s
<1> QED  BY <1>4, <1>5, <1>6, <1>7, <1>8

\* What a level computes: each operation has a list of quantities for the
\* same keys.
LEMMA ResultFacts ==
    ASSUME OverridesAreStrings, NEW l, NEW m, IsMetric(m), NEW op \in Operations(l)
    PROVE  LET indexed == Indexed(l.Mask, m)
               sorted  == Operations(l) \cap {"p95", "median"} # {}
               D       == {g \in DOMAIN indexed : indexed[g] # <<>>}
               Values(g) == IF sorted THEN Sort(indexed[g]) ELSE indexed[g]
               result  == aggregateMetric(l, m)[op]
           IN  /\ DOMAIN result = D /\ IsMetric(result)
               /\ \A g \in D : /\ indexed[g] \in Seq(Int) /\ indexed[g] # <<>>
                               /\ Values(g) \in Seq(Int) /\ Values(g) # <<>>
                               /\ result[g] = aggregate(op, Values(g), sorted)
                               /\ result[g] # <<>>
<1> DEFINE indexed == Indexed(l.Mask, m)
           sorted  == Operations(l) \cap {"p95", "median"} # {}
           D       == {g \in DOMAIN indexed : indexed[g] # <<>>}
           Values(g) == IF sorted THEN Sort(indexed[g]) ELSE indexed[g]
           result  == aggregateMetric(l, m)[op]
<1>1. result = [g \in D |-> aggregate(op, Values(g), sorted)]
  BY DEF aggregateMetric
<1>2. IsMetric(indexed) /\ sorted \in BOOLEAN
  BY IndexedType
<1>3. ASSUME NEW g \in D
      PROVE  /\ indexed[g] \in Seq(Int) /\ indexed[g] # <<>>
             /\ Values(g) \in Seq(Int) /\ Values(g) # <<>>
  <2>1. indexed[g] \in Seq(Int) /\ indexed[g] # <<>>
    BY <1>2 DEF IsMetric
  <2> DEFINE v == indexed[g]
  <2> HIDE DEF indexed
  <2>2. Sort(v) \in Seq(Int) /\ Len(Sort(v)) = Len(v)
    BY <2>1, SortFacts
  <2>3. Sort(v) # <<>>
    BY <2>1, <2>2
  <2> QED  BY <2>1, <2>2, <2>3
<1>4. IsFiniteSet(D) /\ D \subseteq LabelsValues
  <2> HIDE DEF indexed
  <2> QED  BY <1>2, FS_Subset DEF IsMetric
<1> HIDE DEF indexed, sorted, D, Values, result
<1>5. \A g \in D : result[g] \in Seq(Int) /\ result[g] # <<>>
  BY <1>1, <1>2, <1>3, AggregateType
<1>6. IsMetric(result)
  BY <1>1, <1>4, <1>5 DEF IsMetric
<1>7. /\ DOMAIN result = D /\ IsMetric(result)
      /\ \A g \in D : /\ indexed[g] \in Seq(Int) /\ indexed[g] # <<>>
                      /\ Values(g) \in Seq(Int) /\ Values(g) # <<>>
                      /\ result[g] = aggregate(op, Values(g), sorted)
                      /\ result[g] # <<>>
  BY <1>1, <1>3, <1>5, <1>6
<1> QED  BY <1>7 DEF indexed, sorted, D, Values, result

\* Rounding half up adds at most half a Grain.
LEMMA DivideBound ==
    ASSUME NEW x \in Int, NEW n \in Nat \ {0}, NEW hi \in Int, x <= hi * n
    PROVE  2 * divideQtyInt64(x, n) <= 2 * hi + Grain
<1> DEFINE d == n * Grain
           Round(y) == Grain * ((2 * y + d) \div (2 * d))
<1>1. d \in Nat \ {0} /\ Grain \in Nat \ {0}
  BY AggregationAssumption
<1>2. \A y \in Int, e \in Nat \ {0} :
         LET r == (2 * y + e) \div (2 * e)
         IN  r \in Int /\ 2 * e * r <= 2 * y + e /\ 2 * y + e < 2 * e * r + 2 * e
  <2>1. \A a \in Int, c \in Nat \ {0} : a \div c \in Int /\ c * (a \div c) <= a /\ a < c * (a \div c) + c
    OBVIOUS
  <2> TAKE y \in Int
  <2> TAKE e \in Nat \ {0}
  <2>2. 2 * y + e \in Int /\ 2 * e \in Nat \ {0}
    OBVIOUS
  <2> QED  BY <2>1, <2>2
<1>3. \A a \in Int, b \in Int : n * a <= n * b => a <= b
  OBVIOUS
<1>4. CASE x >= 0
  <2> DEFINE r == (2 * x + d) \div (2 * d)
  <2>1. r \in Int /\ 2 * d * r <= 2 * x + d
    BY <1>1, <1>2
  <2>2. divideQtyInt64(x, n) = Grain * r
    BY <1>4 DEF divideQtyInt64
  <2> HIDE DEF r
  <2> DEFINE q == Grain * r
  <2>3. q \in Int /\ 2 * d * r = n * (2 * q)
    BY <2>1, <1>1
  <2>4. 2 * x + d <= n * (2 * hi + Grain)
    <3>1. n * (2 * hi + Grain) = 2 * (hi * n) + d
      BY <1>1
    <3>2. hi * n \in Int
      OBVIOUS
    <3> HIDE DEF d
    <3> QED  BY <3>1, <3>2, <1>1
  <2> HIDE DEF q, d
  <2> DEFINE b == 2 * hi + Grain
  <2>5. 2 * q \in Int /\ b \in Int
    BY <2>3, <1>1
  <2>6. n * (2 * q) <= n * b
    <3>1. n * (2 * q) \in Int /\ n * b \in Int /\ 2 * x + d \in Int
      BY <2>5, <1>1
    <3> HIDE DEF b
    <3> QED  BY <2>1, <2>3, <2>4, <3>1 DEF b
  <2>7. 2 * q <= b
    BY <1>3, <2>5, <2>6
  <2> QED  BY <2>2, <2>7 DEF q
<1>5. CASE x < 0
  <2> DEFINE y == -x
             r == (2 * y + d) \div (2 * d)
  <2>1. r \in Int /\ 2 * y + d < 2 * d * r + 2 * d /\ y \in Int
    <3>1. y \in Int
      OBVIOUS
    <3> HIDE DEF y, d
    <3> QED  BY <3>1, <1>1, <1>2
  <2>2. divideQtyInt64(x, n) = -(Grain * r)
    BY <1>5 DEF divideQtyInt64
  <2> HIDE DEF r
  <2> DEFINE q == Grain * r
             b == 2 * hi + Grain
  <2>3. q \in Int /\ 2 * d * r = n * (2 * q) /\ b \in Int
    BY <2>1, <1>1
  <2>4. n * b = 2 * (hi * n) + d /\ hi * n \in Int
    BY <1>1
  <2>5. n * (-(2 * q)) = -(n * (2 * q)) /\ n * (2 * q) \in Int /\ -(2 * q) \in Int
    BY <2>3
  <2> HIDE DEF d, q, b
  <2>6. n * (-(2 * q)) <= n * b
    <3> DEFINE u == n * (2 * q)
               w == hi * n
    <3>1. u \in Int /\ w \in Int /\ x <= w /\ d \in Int
      BY <2>4, <2>5, <1>1
    <3>2. 2 * y + d < u + 2 * d
      BY <2>1, <2>3
    <3>3. y = -x
      OBVIOUS
    <3> HIDE DEF u, w, y
    <3>4. -u <= 2 * w + d
      BY <3>1, <3>2, <3>3
    <3> QED  BY <3>4, <2>4, <2>5 DEF u, w
  <2>7. -(2 * q) <= b
    BY <1>3, <2>3, <2>5, <2>6
  <2>8. 2 * (-q) = -(2 * q)
    BY <2>3
  <2> QED  BY <2>2, <2>7, <2>8 DEF q, b
<1> QED  BY <1>4, <1>5

Ordered(m1, m2) ==
    /\ DOMAIN m1.Values = DOMAIN m2.Values
    /\ m1.Operation = "median" /\ m2.Operation = "p95" =>
          \A k \in DOMAIN m1.Values : m1.Values[k][1] <= m2.Values[k][1]
    /\ m1.Operation = "p95" /\ m2.Operation = "max" =>
          \A k \in DOMAIN m1.Values : m1.Values[k][1] <= m2.Values[k][1]
    /\ m1.Operation = "avg" /\ m2.Operation = "max" =>
          \A k \in DOMAIN m1.Values : 2 * m1.Values[k][1] <= 2 * m2.Values[k][1] + Grain

\* The statistics of one list, sorted if one of them needs it.
LEMMA ListOrdered ==
    ASSUME NEW list \in Seq(Int), list # <<>>, NEW sorted \in BOOLEAN
    PROVE  LET values == IF sorted THEN Sort(list) ELSE list
               Value(op) == aggregate(op, values, sorted)[1]
           IN  /\ sorted => Value("median") <= Value("p95") /\ Value("p95") <= Value("max")
               /\ 2 * Value("avg") <= 2 * Value("max") + Grain
<1> DEFINE values == IF sorted THEN Sort(list) ELSE list
           Value(op) == aggregate(op, values, sorted)[1]
           n == Len(list)
           hi == IF sorted THEN values[n] ELSE Max(ToSet(values) \cup {0})
<1>1. n \in Nat \ {0} /\ DOMAIN list = 1 .. n /\ n \in 1 .. n
  OBVIOUS
<1>2. values \in Seq(Int) /\ Len(values) = n /\ values # <<>> /\ DOMAIN values = 1 .. n
  <2>1. Sort(list) \in Seq(Int) /\ Len(Sort(list)) = n
    BY SortFacts
  <2>2. values \in Seq(Int) /\ Len(values) = n
    BY <2>1
  <2> HIDE DEF values, n
  <2> QED  BY <1>1, <2>2
<1>3. sorted => \A i, j \in 1 .. n : i <= j => values[i] <= values[j]
  BY <1>1, SortFacts
<1>4. /\ Value("median") = IF sorted THEN values[1 + (n - 1) \div 2]
                           ELSE Sort(values)[1 + (Len(Sort(values)) - 1) \div 2]
      /\ Value("p95") = IF sorted THEN values[1 + ((n - 1) * 95) \div 100]
                        ELSE Sort(values)[1 + ((Len(Sort(values)) - 1) * 95) \div 100]
      /\ Value("max") = hi
      /\ Value("avg") = divideQtyInt64(Total(values), n)
  <2> HIDE DEF values, n
  <2> QED  BY <1>2 DEF aggregate
<1>5. hi \in Int /\ \A i \in DOMAIN values : values[i] <= hi
  <2>1. CASE sorted
    <3> HIDE DEF values, n
    <3>1. hi = values[n] /\ values[n] \in Int
      BY <1>1, <1>2, <2>1
    <3>2. \A i \in 1 .. n : i <= n
      BY <1>1
    <3> HIDE DEF hi
    <3> QED  BY <1>1, <1>2, <1>3, <2>1, <3>1, <3>2
  <2>2. CASE ~sorted
    <3> DEFINE S == ToSet(values) \cup {0}
    <3> HIDE DEF values, n
    <3>1. S \in SUBSET Int /\ IsFiniteSet(S) /\ S # {}
      <4>1. ToSet(values) \in SUBSET Int /\ IsFiniteSet(ToSet(values))
        BY <1>2, ValueSet
      <4>2. IsFiniteSet(ToSet(values) \cup {0})
        BY <4>1, FS_AddElement
      <4> QED  BY <4>1, <4>2
    <3>2. \A i \in DOMAIN values : values[i] \in S
      BY <1>2, ValueSet
    <3>3. hi = Max(S)
      BY <2>2
    <3> HIDE DEF S, hi
    <3>4. Max(S) \in S /\ \A x \in S : x <= Max(S)
      BY <3>1, Extremes
    <3> QED  BY <3>1, <3>2, <3>3, <3>4
  <2> QED  BY <2>1, <2>2
<1> HIDE DEF values, n, hi
<1>6. Total(values) \in Int /\ Total(values) <= hi * n
  BY <1>2, <1>5, TotalAtMost
<1>7. 2 * Value("avg") <= 2 * Value("max") + Grain
  BY <1>1, <1>4, <1>5, <1>6, DivideBound
<1>8. sorted => Value("median") <= Value("p95") /\ Value("p95") <= Value("max")
  <2> DEFINE m == 1 + (n - 1) \div 2
             p == 1 + ((n - 1) * 95) \div 100
  <2>1. m \in 1 .. n /\ p \in 1 .. n /\ m <= p /\ p <= n
    BY <1>1, HalfIndex
  <2>2. sorted => Value("median") = values[m] /\ Value("p95") = values[p] /\ Value("max") = values[n]
    BY <1>4 DEF hi
  <2> HIDE DEF m, p, Value
  <2> QED  BY <1>1, <1>3, <2>1, <2>2
<1> QED  BY <1>7, <1>8 DEF values, n, hi

LEMMA LevelOrdered ==
    ASSUME OverridesAreStrings, NEW l, NEW m, IsMetric(m),
           NEW m1, NEW m2, m1.Operation \in Operations(l), m2.Operation \in Operations(l),
           m1.Values = aggregateMetric(l, m)[m1.Operation],
           m2.Values = aggregateMetric(l, m)[m2.Operation]
    PROVE  Ordered(m1, m2)
<1> DEFINE indexed == Indexed(l.Mask, m)
           sorted  == Operations(l) \cap {"p95", "median"} # {}
           D       == {g \in DOMAIN indexed : indexed[g] # <<>>}
           Values(g) == IF sorted THEN Sort(indexed[g]) ELSE indexed[g]
           Value(op, g) == aggregate(op, Values(g), sorted)[1]
<1>1. /\ DOMAIN m1.Values = D /\ DOMAIN m2.Values = D
      /\ \A g \in D : /\ indexed[g] \in Seq(Int) /\ indexed[g] # <<>>
                      /\ m1.Values[g][1] = Value(m1.Operation, g)
                      /\ m2.Values[g][1] = Value(m2.Operation, g)
  BY ResultFacts
<1>2. \A g \in D :
         /\ sorted => Value("median", g) <= Value("p95", g) /\ Value("p95", g) <= Value("max", g)
         /\ 2 * Value("avg", g) <= 2 * Value("max", g) + Grain
  <2> TAKE g \in D
  <2>1. indexed[g] \in Seq(Int) /\ indexed[g] # <<>> /\ sorted \in BOOLEAN
    BY <1>1
  <2> HIDE DEF indexed, sorted
  <2> QED  BY <2>1, ListOrdered
<1>3. m1.Operation \in {"median", "p95"} => sorted
  OBVIOUS
<1> HIDE DEF D, Value, sorted
<1> QED  BY <1>1, <1>2, <1>3 DEF Ordered

\* Values that do not make it panic.
LEMMA HistogramFacts ==
    ASSUME NEW buckets, Pow(buckets.Base, buckets.Offset) \in Int,
           NEW values \in Seq(Int), values # <<>>, ~IndexPanics(buckets, values),
           DOMAIN AddHistogramValues(buckets, values).Counts # {}
    PROVE  LET h == AddHistogramValues(buckets, values)
           IN  /\ h.ZeroCount + SumFunction(h.Counts) = Len(values)
               /\ h.Counts[Max(DOMAIN h.Counts)] > 0
<1> DEFINE h      == AddHistogramValues(buckets, values)
           bound  == Pow(buckets.Base, buckets.Offset)
           maxVal == Max(ToSet(values))
           large  == Large(buckets, values)
           b      == [j \in large |-> Bucket(buckets, values[j])]
           top    == Bucket(buckets, maxVal)
           counts == [i \in 0 .. top |-> Cardinality({j \in large : Bucket(buckets, values[j]) = i})]
<1>1. maxVal \in Int /\ maxVal \in ToSet(values)
      /\ \A j \in DOMAIN values : values[j] \in Int /\ values[j] <= maxVal
  BY ValueSet, IndexSet
<1>2. /\ h.ZeroCount = Len(values) - Cardinality(large) /\ h.Counts = counts
      /\ ~buckets.SaveMaxOnly /\ large # {}
  <2>1. h = [Base |-> buckets.Base, ExponentOffset |-> buckets.Offset,
             ZeroCount |-> Len(values) - Cardinality(large), MaxValue |-> maxVal,
             Counts |-> IF buckets.SaveMaxOnly \/ large = {} THEN EmptyMetric ELSE counts]
    BY DEF AddHistogramValues
  <2>2. DOMAIN EmptyMetric = {}
    BY DEF EmptyMetric
  <2> HIDE DEF counts, maxVal, large
  <2>3. /\ h.ZeroCount = Len(values) - Cardinality(large)
        /\ h.Counts = IF buckets.SaveMaxOnly \/ large = {} THEN EmptyMetric ELSE counts
    BY <2>1
  <2> HIDE DEF h
  <2> QED  BY <2>2, <2>3 DEF h
<1>3. \A j \in large : b[j] \in Nat /\ b[j] <= top
  <2> HIDE DEF maxVal
  <2> QED  BY <1>2 DEF IndexPanics, maxVal
<1>4. top \in Nat /\ (\E j \in large : b[j] = top) /\ \A j \in large : b[j] \in 0 .. top
  <2>1. PICK j \in large : TRUE
    BY <1>2
  <2>2. j \in DOMAIN values /\ bound <= values[j]
    BY DEF Large
  <2>3. values[j] \in Int /\ values[j] <= maxVal
    BY <1>1, <2>2
  <2>4. PICK m \in DOMAIN values : values[m] = maxVal
    BY <1>1, ValueSet
  <2>5. m \in large
    <3>1. bound <= maxVal
      <4> HIDE DEF maxVal
      <4> QED  BY <1>1, <2>2, <2>3
    <3> QED  BY <2>4, <3>1 DEF Large
  <2>6. b[m] = top
    BY <2>4, <2>5
  <2> HIDE DEF b, top, large
  <2>7. top \in Nat
    BY <2>5, <2>6, <1>3
  <2> QED  BY <2>5, <2>6, <2>7, <1>3
<1>5. IsFiniteSet(large) /\ Cardinality(large) \in Nat /\ Len(values) \in Nat
  BY IndexSet, FS_Subset, FS_CardinalityType DEF Large
<1>6. \A i \in 0 .. top : counts[i] = Count(large, b, {i})
  <2> TAKE i \in 0 .. top
  <2>1. {j \in large : b[j] \in {i}} = {j \in large : Bucket(buckets, values[j]) = i}
    OBVIOUS
  <2> HIDE DEF large, b, top
  <2> QED  BY <2>1 DEF Count
<1>7. DOMAIN counts = 0 .. top /\ IsFiniteSet(0 .. top)
  BY <1>4, FS_Interval
<1> HIDE DEF counts, large, b, bound, maxVal, top, h
<1> DEFINE S == 0 .. top
<1>8. SumFunction(counts) = Cardinality(large)
  <2>1. IsFiniteSet(S) /\ DOMAIN counts = S /\ \A i \in S : counts[i] = Count(large, b, {i})
    BY <1>6, <1>7
  <2>2. {j \in large : b[j] \in S} = large
    BY <1>4
  <2> HIDE DEF S
  <2>3. PICK g : IsSum(g, counts, SUBSET S) /\ SumFunction(counts) = g[S]
    BY <2>1, FunctionSum
  <2>4. g[S] = Count(large, b, S)
    BY <1>5, <2>1, <2>3, SumOfCounts
  <2> QED  BY <2>2, <2>3, <2>4 DEF Count
<1>9. Max(0 .. top) = top
  <2>1. top \in S /\ \A x \in S : x \in Int /\ x <= top
    BY <1>4
  <2>2. IsFiniteSet(S)
    BY <1>7
  <2> HIDE DEF S
  <2>3. S \in SUBSET Int /\ S # {}
    BY <2>1
  <2>4. Max(S) \in S /\ top <= Max(S)
    BY <2>1, <2>2, <2>3, Extremes
  <2>5. Max(S) \in Int /\ Max(S) <= top /\ top \in Int
    BY <1>4, <2>1, <2>4
  <2>6. Max(S) = top
    BY <2>4, <2>5
  <2> QED  BY <2>6 DEF S
<1>10. counts[top] > 0
  <2> DEFINE J == {j \in large : b[j] = top}
  <2>1. PICK j \in large : b[j] = top
    BY <1>4
  <2>4. J # {} /\ IsFiniteSet(J)
    BY <2>1, <1>5, FS_Subset
  <2> HIDE DEF J
  <2>5. Cardinality(J) \in Nat /\ Cardinality(J) # 0
    BY <2>4, FS_CardinalityType, FS_EmptySet
  <2>6. counts[top] = Cardinality(J)
    <3>1. J = {i \in large : b[i] \in {top}}
      BY DEF J
    <3>2. counts[top] = Count(large, b, {top})
      BY <1>4, <1>6
    <3> QED  BY <3>1, <3>2 DEF Count
  <2> QED  BY <2>5, <2>6
<1>11. /\ h.ZeroCount + SumFunction(h.Counts) = Len(values)
       /\ h.Counts[Max(DOMAIN h.Counts)] > 0
  BY <1>2, <1>5, <1>7, <1>8, <1>9, <1>10
<1> QED  BY <1>11 DEF h

\* The types of the metrics, and what was exported is of earlier levels.
TInv ==
    /\ Phases
    /\ IsMetric(raw.Values) /\ IsMetric(metric)
    /\ \A m \in sent : /\ m.Operation \in STRING /\ IsMetric(m.Values)
                       /\ m.Index \in Nat /\ m.Index < level

LEMMA InitTInv == Init => TInv
<1> SUFFICES ASSUME Init PROVE TInv
  OBVIOUS
<1>1. IsMetric(EmptyMetric)
  BY FS_EmptySet DEF IsMetric, EmptyMetric
<1> QED  BY <1>1, InitPhases DEF Init, TInv

\* What AggregateLevel adds to sent and to saved.
LEMMA LevelResults ==
    ASSUME OverridesAreStrings, TInv, AggregateLevel
    PROVE  LET results == aggregateMetric(CurrentLevel, metric)
           IN  /\ LevelFits(CurrentLevel) /\ level \in Nat /\ level' = level + 1
               /\ DOMAIN results = Operations(CurrentLevel)
               /\ \A op \in DOMAIN results :
                     /\ op \in STRING /\ IsMetric(results[op])
                     /\ \A k \in DOMAIN results[op] : results[op][k] # <<>>
<1> DEFINE results == aggregateMetric(CurrentLevel, metric)
<1>1. phase = "levels" /\ level <= Len(agg.Levels) /\ level' = level + 1
  BY DEF AggregateLevel
<1>2. LevelFits(CurrentLevel) /\ level \in Nat
  BY <1>1, LevelsOfAgg DEF TInv
<1>3. DOMAIN results = Operations(CurrentLevel)
  BY DEF aggregateMetric
<1>4. Operations(CurrentLevel) \subseteq STRING
  <2>1. CurrentLevel.Operation \in STRING /\ CurrentLevel.Operations \in Seq(STRING)
    BY <1>2 DEF LevelFits
  <2> DEFINE ops == CurrentLevel.Operations
  <2>2. \A i \in DOMAIN ops : ops[i] \in STRING
    BY <2>1
  <2>3. ToSet(ops) \subseteq STRING
    BY <2>2 DEF ToSet
  <2> QED  BY <2>1, <2>3 DEF Operations
<1>5. \A op \in DOMAIN results :
         IsMetric(results[op]) /\ \A k \in DOMAIN results[op] : results[op][k] # <<>>
  BY <1>3, ResultFacts DEF TInv
<1> HIDE DEF results
<1> QED  BY <1>1, <1>2, <1>3, <1>4, <1>5 DEF results

LEMMA AggregateLevelTInv ==
    ASSUME OverridesAreStrings, TInv, AggregateLevel
    PROVE  TInv'
<1> DEFINE results == aggregateMetric(CurrentLevel, metric)
           New == {[Index |-> level, Level |-> CurrentLevel.Mask.Level, Operation |-> op,
                    Mask |-> CurrentLevel.Mask, Values |-> results[op]] : op \in DOMAIN results}
<1>1. /\ level \in Nat /\ level' = level + 1
      /\ \A op \in DOMAIN results : op \in STRING /\ IsMetric(results[op])
  BY LevelResults
<1>2. raw' = raw /\ (\E op \in DOMAIN results : metric' = results[op]) /\ sent' \subseteq sent \cup New
  BY DEF AggregateLevel
<1>3. Phases'
  BY NextPhases DEF Next, TInv
<1>4. \A m \in New : m.Operation \in STRING /\ m.Index = level /\ IsMetric(m.Values)
  <2> HIDE DEF results
  <2> QED  BY <1>1
<1> HIDE DEF results, New
<1>5. ASSUME NEW m \in sent'
      PROVE  /\ m.Operation \in STRING /\ IsMetric(m.Values)
             /\ m.Index \in Nat /\ m.Index < level'
  <2>1. CASE m \in New
    BY <1>1, <1>4, <2>1
  <2>2. CASE m \in sent
    <3>1. /\ m.Operation \in STRING /\ IsMetric(m.Values)
          /\ m.Index \in Nat /\ m.Index < level
      BY <2>2 DEF TInv
    <3> QED  BY <3>1, <1>1
  <2> QED  BY <1>2, <2>1, <2>2
<1> QED  BY <1>1, <1>2, <1>3, <1>5 DEF TInv

LEMMA OtherTInv ==
    ASSUME TInv,
           \/ Load \/ SkipLevel \/ PanicLevel \/ Finish \/ UNCHANGED vars
           \/ \E i \in DOMAIN spec.Aggregations, m \in RawMetric : Collect(i, m)
    PROVE  TInv'
<1>0. Phases'
  BY NextPhases DEF Next, TInv
<1>1. CASE Load \/ PanicLevel \/ Finish \/ UNCHANGED vars
  <2>1. UNCHANGED <<raw, metric, sent, level>>
    BY <1>1 DEF Load, PanicLevel, Finish, vars
  <2> QED  BY <1>0, <2>1 DEF TInv
<1>2. CASE SkipLevel
  <2>1. UNCHANGED <<raw, metric, sent>> /\ level' = level + 1 /\ phase = "levels"
    BY <1>2 DEF SkipLevel
  <2>2. level \in Nat
    BY <2>1, LevelsOfAgg DEF TInv
  <2>3. \A m \in sent : m.Index \in Nat /\ m.Index < level'
    BY <2>1, <2>2 DEF TInv
  <2> QED  BY <1>0, <2>1, <2>3 DEF TInv
<1>3. ASSUME NEW i \in DOMAIN spec.Aggregations, NEW m \in RawMetric, Collect(i, m)
      PROVE  TInv'
  <2>1. sent' = {} /\ raw' = m /\ metric' = m.Values
    BY <1>3 DEF Collect
  <2>2. IsMetric(raw'.Values) /\ IsMetric(metric')
    BY <2>1, RawMetricAssumption
  <2> QED  BY <1>0, <2>1, <2>2 DEF TInv
<1> QED  BY <1>1, <1>2, <1>3

LEMMA NextTInv ==
    ASSUME OverridesAreStrings
    PROVE  TInv /\ [Next]_vars => TInv'
BY AggregateLevelTInv, OtherTInv DEF Next

\* The types hold for any configuration, metric and overrider: in
\* particular, every value that is exported is a list of quantities, whatever
\* the operations, and the levels are taken in order.
THEOREM TypeCorrect ==
    ASSUME OverridesAreStrings
    PROVE  Spec => []TypeOK
<1>1. TInv => TypeOK
  BY DEF TInv, Phases, TypeOK
<1> QED  BY <1>1, InitTInv, NextTInv, PTL DEF Spec

\* The operations of one level agree with each other: the results that have
\* the same Index were computed together, from the same lists.
THEOREM StatisticsAgree ==
    ASSUME OverridesAreStrings
    PROVE  Spec => []StatisticsOrdered
<1> DEFINE SInv == \A m1, m2 \in sent : m1.Index = m2.Index => Ordered(m1, m2)
<1>1. Init => SInv
  BY DEF Init
<1>2. TInv /\ SInv /\ [Next]_vars => SInv'
  <2> SUFFICES ASSUME TInv, SInv, [Next]_vars, NEW m1 \in sent', NEW m2 \in sent',
                      m1.Index = m2.Index
               PROVE  Ordered(m1, m2)
    OBVIOUS
  <2>1. CASE AggregateLevel
    <3> DEFINE results == aggregateMetric(CurrentLevel, metric)
               New == {[Index |-> level, Level |-> CurrentLevel.Mask.Level, Operation |-> op,
                        Mask |-> CurrentLevel.Mask, Values |-> results[op]] : op \in DOMAIN results}
    <3>1. sent' \subseteq sent \cup New /\ level \in Nat /\ DOMAIN results = Operations(CurrentLevel)
      BY <2>1, LevelResults DEF AggregateLevel
    <3>2. \A m \in New : /\ m.Index = level /\ m.Operation \in Operations(CurrentLevel)
                         /\ m.Values = results[m.Operation]
      <4> HIDE DEF results
      <4> QED  BY <3>1
    <3>3. \A m \in sent : m.Index \in Nat /\ m.Index < level
      BY DEF TInv
    <3> HIDE DEF New
    <3>4. CASE m1 \in New /\ m2 \in New
      <4>1. IsMetric(metric)
        BY DEF TInv
      <4> QED  BY <3>2, <3>4, <4>1, LevelOrdered
    <3> HIDE DEF results
    <3>5. CASE m1 \in sent /\ m2 \in sent
      BY <3>5
    <3>6. ~(m1 \in New /\ m2 \in sent) /\ ~(m1 \in sent /\ m2 \in New)
      BY <3>1, <3>2, <3>3
    <3> QED  BY <3>1, <3>4, <3>5, <3>6
  <2>2. CASE ~AggregateLevel
    <3>1. sent' = sent \/ sent' = {}
      BY <2>2 DEF Next, Load, Collect, SkipLevel, PanicLevel, Finish, vars
    <3> QED  BY <3>1
  <2> QED  BY <2>1, <2>2
<1>3. SInv => StatisticsOrdered
  BY DEF StatisticsOrdered, Ordered
<1> HIDE DEF SInv
<1> QED  BY <1>1, <1>2, <1>3, InitTInv, NextTInv, PTL DEF Spec

\* A saved histogram accounts for every value of its sample, and its last
\* bucket holds the maximum, for every base, every offset and whatever the
\* quotients of the logarithms are rounded to.
THEOREM HistogramsComplete ==
    ASSUME OverridesAreStrings
    PROVE  Spec => []HistogramComplete
<1> DEFINE Complete(s) == s.Histogram # Nil /\ DOMAIN s.Histogram.Counts # {} =>
                   /\ s.Histogram.ZeroCount + SumFunction(s.Histogram.Counts) = Len(s.Values)
                   /\ s.Histogram.Counts[Max(DOMAIN s.Histogram.Counts)] > 0
<1>0. HistogramComplete <=> \A s \in saved : Complete(s)
  BY DEF HistogramComplete
<1>1. Init => HistogramComplete
  BY <1>0 DEF Init
<1>2. TInv /\ HistogramComplete /\ [Next]_vars => HistogramComplete'
  <2> SUFFICES ASSUME TInv, HistogramComplete, [Next]_vars, NEW s \in saved'
               PROVE  Complete(s)
    BY DEF HistogramComplete
  <2>1. CASE AggregateLevel
    <3> DEFINE l == CurrentLevel
               results == aggregateMetric(l, metric)
    <3>1. s \in saved \/ (Saves(l) /\ \E op \in DOMAIN results : \E k \in DOMAIN results[op] :
                              s = SavedSample(l, op, k, results[op][k]))
      BY <2>1 DEF AggregateLevel
    <3>2. CASE s \in saved
      BY <1>0, <3>2
    <3>3. ASSUME Saves(l), NEW op \in DOMAIN results, NEW k \in DOMAIN results[op],
                 s = SavedSample(l, op, k, results[op][k])
          PROVE  Complete(s)
      <4> DEFINE v == results[op][k]
      <4>0. op = "hist" /\ l.RetentionBuckets # Nil => ~IndexPanics(l.RetentionBuckets, v)
        <5>1. ~SavingPanics(l, results)
          BY <2>1 DEF AggregateLevel
        <5> HIDE DEF results, l
        <5> QED  BY <3>3, <5>1 DEF SavingPanics
      <4>1. v \in Seq(Int) /\ v # <<>> /\ LevelFits(l)
        BY <2>1, LevelResults DEF IsMetric
      <4> HIDE DEF results
      <4>2. /\ s.Values = v
            /\ s.Histogram = IF op = "hist" /\ l.RetentionBuckets # Nil
                             THEN AddHistogramValues(l.RetentionBuckets, v) ELSE Nil
        BY <3>3 DEF SavedSample
      <4> HIDE DEF v, l
      <4> SUFFICES ASSUME s.Histogram # Nil, DOMAIN s.Histogram.Counts # {}
                   PROVE  /\ s.Histogram.ZeroCount + SumFunction(s.Histogram.Counts) = Len(s.Values)
                          /\ s.Histogram.Counts[Max(DOMAIN s.Histogram.Counts)] > 0
        OBVIOUS
      <4>3. /\ op = "hist" /\ l.RetentionBuckets # Nil
            /\ s.Histogram = AddHistogramValues(l.RetentionBuckets, v)
        BY <4>2
      <4>4. Pow(l.RetentionBuckets.Base, l.RetentionBuckets.Offset) \in Int
        BY <4>1, <4>3 DEF LevelFits
      <4> QED  BY <4>0, <4>1, <4>2, <4>3, <4>4, HistogramFacts
    <3> QED  BY <3>1, <3>2, <3>3
  <2>2. CASE ~AggregateLevel
    <3>1. saved' = saved \/ saved' = {}
      BY <2>2 DEF Next, Load, Collect, SkipLevel, PanicLevel, Finish, vars
    <3> QED  BY <1>0, <3>1
  <2> QED  BY <2>1, <2>2
<1> QED  BY <1>1, <1>2, InitTInv, NextTInv, PTL DEF Spec
-----------------------------------------------------------------------------
(* Masks after each other: a narrower mask undoes the wider one before it. *)

\* The labels after the overriders.
Overridden(values) ==
    [n \in DOMAIN values |-> IF n \in DOMAIN overrideValues(values)
                             THEN overrideValues(values)[n] ELSE values[n]]

\* What the overriders make of a label depends on that label only, and they
\* leave a label alone that they have changed before.
LabelByLabel ==
    /\ \A v1, v2, n : n \in DOMAIN v1 /\ n \in DOMAIN v2 /\ v1[n] = v2[n] =>
          Overridden(v1)[n] = Overridden(v2)[n]
    /\ \A v : \A n \in DOMAIN v : Overridden(Overridden(v))[n] = Overridden(v)[n]

Narrower(mask2, mask1) ==
    mask2.BuiltIn \subseteq mask1.BuiltIn /\ mask2.Extensions \subseteq mask1.Extensions

NoLevel(k) == k.BuiltIn["Level"] = ""

LEMMA MappedValues ==
    ASSUME NEW nm, NEW mask, NEW k
    PROVE  MappedIn(nm, mask, k).values =
               Overridden(getLabelValues(mask, maskLabels(mask, k, nm), nm))
BY DEF MappedIn, Overridden

LEMMA LabelValuesDomain ==
    ASSUME NEW nm, NEW mask, NEW l
    PROVE  /\ getLabelValues(mask, l, nm) = [n \in getLabelNames(mask, nm) |-> getLabelValues(mask, l, nm)[n]]
           /\ "level" \in getLabelNames(mask, nm) => getLabelValues(mask, l, nm)["level"] = mask.Level
BY DEF getLabelValues

LEMMA LabelAlone ==
    ASSUME LabelByLabel, NEW va, NEW vb, NEW n, n \in DOMAIN va, n \in DOMAIN vb, va[n] = vb[n]
    PROVE  Overridden(va)[n] = Overridden(vb)[n]
<1>1. \A v1, v2, i : i \in DOMAIN v1 /\ i \in DOMAIN v2 /\ v1[i] = v2[i] =>
          Overridden(v1)[i] = Overridden(v2)[i]
  BY DEF LabelByLabel
<1>2. n \in DOMAIN va /\ n \in DOMAIN vb /\ va[n] = vb[n]
  OBVIOUS
<1> QED  BY <1>1, <1>2, Zenon

LEMMA LabelSettled ==
    ASSUME LabelByLabel, NEW va, NEW n \in DOMAIN va
    PROVE  Overridden(Overridden(va))[n] = Overridden(va)[n]
BY Zenon DEF LabelByLabel

\* Masking a sample is masking its labels, and a narrower mask does the same
\* to what a wider one has left.
LEMMA MaskedTwice ==
    ASSUME LevelKept, LabelByLabel, NEW nm, NEW mask1, NEW mask2, NEW k
    PROVE  /\ NamesFit(nm) /\ MaskFits(mask1) /\ MaskFits(mask2) /\ Narrower(mask2, mask1)
           /\ NoLevel(k)
           => MappedIn(nm, mask2, MappedIn(nm, mask1, k).key).key = MappedIn(nm, mask2, k).key
<1> SUFFICES ASSUME NamesFit(nm), MaskFits(mask1), MaskFits(mask2), Narrower(mask2, mask1),
                    NoLevel(k)
             PROVE  MappedIn(nm, mask2, MappedIn(nm, mask1, k).key).key = MappedIn(nm, mask2, k).key
  OBVIOUS
<1>0. k.BuiltIn["Level"] = ""
  BY DEF NoLevel
<1> DEFINE k1 == MappedIn(nm, mask1, k).key
           v1 == getLabelValues(mask1, maskLabels(mask1, k, nm), nm)
           v2 == getLabelValues(mask2, maskLabels(mask2, k1, nm), nm)
           vd == getLabelValues(mask2, maskLabels(mask2, k, nm), nm)
           ga == MappedIn(nm, mask2, k1).key
           gb == MappedIn(nm, mask2, k).key
           N  == getLabelNames(mask2, nm)
<1>1. Masked(nm, mask1, k1)
  BY <1>0, KeyOfMask
<1>2. k1.BuiltIn["Level"] = ""
  <2> HIDE DEF k1
  <2> QED  BY <1>1, LevelName DEF Masked
<1>3. Masked(nm, mask2, ga) /\ Masked(nm, mask2, gb)
  <2> HIDE DEF k1
  <2> QED  BY <1>0, <1>2, KeyOfMask
<1>4. Shown(nm, mask2, ga) /\ Shown(nm, mask2, gb)
  BY RenderedLabels
<1>5. /\ getLabelValues(mask2, ga, nm) = Overridden(v2)
      /\ getLabelValues(mask2, gb, nm) = Overridden(vd)
      /\ getLabelValues(mask1, k1, nm) = Overridden(v1)
  BY RenderedIsMapped, MappedValues
<1>6. DOMAIN v2 = N /\ DOMAIN vd = N /\ DOMAIN v1 = getLabelNames(mask1, nm)
      /\ DOMAIN Overridden(v2) = N /\ DOMAIN Overridden(vd) = N
  <2>1. DOMAIN v2 = N /\ DOMAIN vd = N /\ DOMAIN v1 = getLabelNames(mask1, nm)
    BY LabelValuesDomain
  <2> HIDE DEF v1, v2, vd, N
  <2> QED  BY <2>1 DEF Overridden
<1>a. /\ Shown(nm, mask2, maskLabels(mask2, k, nm)) /\ Shown(nm, mask1, maskLabels(mask1, k, nm))
      /\ Shown(nm, mask2, maskLabels(mask2, k1, nm)) /\ Shown(nm, mask1, k1)
  BY RenderedLabels
<1>7. initInternalLabelsMask(mask2, nm) \subseteq initInternalLabelsMask(mask1, nm)
  BY DEF initInternalLabelsMask, Narrower
<1>8. \A n \in N : n # "level" =>
         /\ n \in DOMAIN v1 /\ vd[n] = v1[n] /\ v2[n] = Overridden(v1)[n]
  <2> TAKE n \in N
  <2> HAVE n # "level"
  <2>1. ASSUME NEW f \in mask2.BuiltIn, n = BuiltInName[f]
        PROVE  n \in DOMAIN v1 /\ vd[n] = v1[n] /\ v2[n] = Overridden(v1)[n]
    <3>1. f \in mask2.BuiltIn \ {"Level"} /\ f \in mask1.BuiltIn \ {"Level"} /\ f \in BuiltInField
      BY <2>1, LevelName DEF Narrower, MaskFits
    <3>2. vd[n] = maskLabels(mask2, k, nm).BuiltIn[f] /\ v1[n] = maskLabels(mask1, k, nm).BuiltIn[f]
          /\ v2[n] = maskLabels(mask2, k1, nm).BuiltIn[f]
      BY <2>1, <3>1, <1>a, Zenon DEF Shown
    <3>3. getLabelValues(mask1, k1, nm)[n] = k1.BuiltIn[f]
      BY <2>1, <3>1, <1>a, Zenon DEF Shown
    <3> HIDE DEF k1, v1, v2, vd
    <3>4. maskLabels(mask2, k, nm).BuiltIn[f] = k.BuiltIn[f]
          /\ maskLabels(mask1, k, nm).BuiltIn[f] = k.BuiltIn[f]
          /\ maskLabels(mask2, k1, nm).BuiltIn[f] = k1.BuiltIn[f]
      BY <3>1 DEF maskLabels, builtInMask
    <3>5. n \in DOMAIN v1
      BY <1>6, <2>1, <3>1 DEF getLabelNames, getBuiltInLabelNames
    <3> QED  BY <3>2, <3>3, <3>4, <3>5, <1>5
  <2>2. ASSUME NEW id \in initInternalLabelsMask(mask2, nm), n = nm[id]
        PROVE  n \in DOMAIN v1 /\ vd[n] = v1[n] /\ v2[n] = Overridden(v1)[n]
    <3>1. id \in initInternalLabelsMask(mask1, nm) /\ id \in LabelId
      BY <1>7 DEF initInternalLabelsMask
    <3>2. vd[n] = maskLabels(mask2, k, nm).Extension[id] /\ v1[n] = maskLabels(mask1, k, nm).Extension[id]
          /\ v2[n] = maskLabels(mask2, k1, nm).Extension[id]
      BY <2>2, <3>1, <1>a, Zenon DEF Shown
    <3>3. getLabelValues(mask1, k1, nm)[n] = k1.Extension[id]
      BY <2>2, <3>1, <1>a, Zenon DEF Shown
    <3> HIDE DEF k1, v1, v2, vd
    <3>4. maskLabels(mask2, k, nm).Extension[id] = k.Extension[id]
          /\ maskLabels(mask1, k, nm).Extension[id] = k.Extension[id]
          /\ maskLabels(mask2, k1, nm).Extension[id] = k1.Extension[id]
      BY <3>1 DEF maskLabels, extensionMask
    <3>5. n \in DOMAIN v1
      BY <1>6, <2>2, <3>1 DEF getLabelNames, getExtensionLabelNames
    <3> QED  BY <3>2, <3>3, <3>4, <3>5, <1>5
  <2> HIDE DEF v1, v2, vd
  <2> QED  BY <2>1, <2>2 DEF getLabelNames, getBuiltInLabelNames, getExtensionLabelNames
<1>9. "level" \in N => v2["level"] = vd["level"]
  <2> SUFFICES ASSUME "level" \in N PROVE v2["level"] = mask2.Level /\ vd["level"] = mask2.Level
    BY Zenon
  <2> QED  BY LabelValuesDomain, Zenon
<1> HIDE DEF v1, v2, vd, N, ga, gb, k1
<1>10. \A n \in N : Overridden(v2)[n] = Overridden(vd)[n]
  <2> TAKE n \in N
  <2>1. CASE n = "level"
    <3>1. v2[n] = vd[n] /\ n \in DOMAIN v2 \cap DOMAIN vd
      BY <1>6, <1>9, <2>1
    <3> QED  BY <3>1, LabelAlone, Zenon
  <2>2. CASE n # "level"
    <3>1. n \in DOMAIN v1 /\ vd[n] = v1[n] /\ v2[n] = Overridden(v1)[n] /\ n \in DOMAIN v2
          /\ n \in DOMAIN vd
      BY <1>6, <1>8, <2>2
    <3>2. n \in DOMAIN Overridden(v1)
      BY <3>1 DEF Overridden
    <3>3. Overridden(vd)[n] = Overridden(v1)[n]
      <4>1. n \in DOMAIN vd /\ n \in DOMAIN v1 /\ vd[n] = v1[n]
        BY <3>1
      <4> QED  BY <4>1, LabelAlone
    <3>4. Overridden(v2)[n] = Overridden(Overridden(v1))[n]
      <4> DEFINE w == Overridden(v1)
      <4>1. n \in DOMAIN v2 /\ n \in DOMAIN w /\ v2[n] = w[n]
        BY <3>1, <3>2
      <4> HIDE DEF w
      <4>2. Overridden(v2)[n] = Overridden(w)[n]
        BY <4>1, LabelAlone
      <4> QED  BY <4>2 DEF w
    <3>5. Overridden(Overridden(v1))[n] = Overridden(v1)[n]
      BY <3>1, LabelSettled
    <3> QED  BY <3>3, <3>4, <3>5
  <2> QED  BY <2>1, <2>2
<1>11. Overridden(v2) = Overridden(vd)
  <2>1. Overridden(v2) = [n \in N |-> Overridden(v2)[n]] /\ Overridden(vd) = [n \in N |-> Overridden(vd)[n]]
    BY <1>6 DEF Overridden
  <2> QED  BY <2>1, <1>10
<1>12. ga = gb
  BY <1>3, <1>4, <1>5, <1>11, KeysDistinct
<1> QED  BY <1>12 DEF ga, gb, k1
-----------------------------------------------------------------------------
(* Sums over finite sets, by induction over a set or a number.            *)

LEMMA NumberInduction ==
    ASSUME NEW P \in SUBSET Nat, 0 \in P, \A n \in P : n + 1 \in P
    PROVE  P = Nat
<1> SUFFICES ASSUME Nat \ P # {} PROVE FALSE
  OBVIOUS
<1>1. PICK n \in Nat \ P : \A m \in Nat \ P : n <= m
  <2> DEFINE B == Nat \ P
  <2>1. B \in SUBSET Nat /\ B # {}
    OBVIOUS
  <2> HIDE DEF B
  <2>2. \E n \in B : \A m \in B : n <= m
    BY <2>1, LeastNumber
  <2> QED  BY <2>2 DEF B
<1>2. n # 0 /\ n - 1 \in Nat
  OBVIOUS
<1>3. n - 1 \in P
  BY <1>1, <1>2
<1>4. (n - 1) + 1 = n
  OBVIOUS
<1> QED  BY <1>3, <1>4

LEMMA SubsetInduction ==
    ASSUME NEW U, IsFiniteSet(U), NEW P \in SUBSET (SUBSET U), {} \in P,
           \A s \in P : \A x \in U \ s : s \cup {x} \in P
    PROVE  P = SUBSET U
<1> DEFINE N == {n \in Nat : \A s \in SUBSET U : Cardinality(s) = n => s \in P}
<1>1. 0 \in N
  <2>1. \A s \in SUBSET U : Cardinality(s) = 0 => s = {}
    BY FS_Subset, FS_EmptySet
  <2> QED  BY <2>1
<1>2. ASSUME NEW n \in N
      PROVE  n + 1 \in N
  <2> SUFFICES ASSUME NEW s \in SUBSET U, Cardinality(s) = n + 1
               PROVE  s \in P
    OBVIOUS
  <2>1. s # {} /\ IsFiniteSet(s)
    BY FS_Subset, FS_EmptySet
  <2>2. PICK x \in s : TRUE
    BY <2>1
  <2> DEFINE t == s \ {x}
  <2>3. Cardinality(t) = n
    <3>1. Cardinality(t) = Cardinality(s) - 1
      BY <2>1, FS_RemoveElement
    <3> QED  BY <3>1
  <2>4. t \in P /\ x \in U \ t /\ t \cup {x} = s
    BY <2>3
  <2> HIDE DEF t
  <2> QED  BY <2>4
<1>3. N = Nat
  <2>1. N \in SUBSET Nat
    OBVIOUS
  <2> HIDE DEF N
  <2> QED  BY <1>1, <1>2, <2>1, NumberInduction
<1>4. \A s \in SUBSET U : Cardinality(s) \in Nat
  BY FS_Subset, FS_CardinalityType
<1> QED  BY <1>3, <1>4

\* Sums depend on the summands only, and can be taken in any order.
LEMMA SumSolution ==
    ASSUME NEW S, IsFiniteSet(S), NEW f
    PROVE  \E g : IsSum(g, f, SUBSET S) /\ SumFunctionOnSet(f, S) = g[S]
<1> DEFINE P(g) == g = [s \in SUBSET S |-> IF s = {} THEN 0
                        ELSE LET x == CHOOSE x \in s : TRUE IN f[x] + g[s \ {x}]]
           sum  == CHOOSE g : P(g)
<1>1. SumFunctionOnSet(f, S) = sum[S]
  BY DEF SumFunctionOnSet, FoldFunctionOnSet, MapThenFoldSet
<1>2. \A g : P(g) <=> IsSum(g, f, SUBSET S)
  BY DEF IsSum
<1>3. \E g : IsSum(g, f, SUBSET S)
  BY SumExists
<1> HIDE DEF P
<1>4. IsSum(sum, f, SUBSET S)
  BY <1>2, <1>3
<1> HIDE DEF sum
<1> QED  BY <1>1, <1>4

LEMMA SumUnique ==
    ASSUME NEW S, NEW T, NEW U, NEW f, NEW e, NEW g, NEW h
    PROVE  /\ IsFiniteSet(S) /\ IsFiniteSet(T) /\ U \subseteq S /\ U \subseteq T
           /\ \A x \in U : f[x] = e[x]
           /\ IsSum(g, f, SUBSET S) /\ IsSum(h, e, SUBSET T)
           => g[U] = h[U]
<1> SUFFICES ASSUME IsFiniteSet(S), IsFiniteSet(T), U \subseteq S, U \subseteq T,
                    \A x \in U : f[x] = e[x],
                    IsSum(g, f, SUBSET S), IsSum(h, e, SUBSET T)
             PROVE  g[U] = h[U]
  OBVIOUS
<1> DEFINE N == {n \in Nat : \A s \in SUBSET U : Cardinality(s) = n => g[s] = h[s]}
<1>0. IsFiniteSet(U)
  BY FS_Subset
<1>1. 0 \in N
  <2>1. \A s \in SUBSET U : Cardinality(s) = 0 => s = {}
    BY <1>0, FS_Subset, FS_EmptySet
  <2>2. g[{}] = 0 /\ h[{}] = 0
    BY DEF IsSum
  <2> QED  BY <2>1, <2>2
<1>2. ASSUME NEW n \in N
      PROVE  n + 1 \in N
  <2> SUFFICES ASSUME NEW s \in SUBSET U, Cardinality(s) = n + 1
               PROVE  g[s] = h[s]
    OBVIOUS
  <2>1. s # {} /\ IsFiniteSet(s)
    BY <1>0, FS_Subset, FS_EmptySet
  <2> DEFINE x == CHOOSE x \in s : TRUE
             t == s \ {x}
  <2>2. x \in s /\ t \in SUBSET U /\ Cardinality(t) = n
    BY <1>0, <2>1, ChosenElement
  <2>3. g[s] = f[x] + g[t]
    <3>1. s \in SUBSET S
      OBVIOUS
    <3> QED  BY <2>1, <3>1 DEF IsSum
  <2>4. h[s] = e[x] + h[t]
    <3>1. s \in SUBSET T
      OBVIOUS
    <3> QED  BY <2>1, <3>1 DEF IsSum
  <2> HIDE DEF x, t
  <2>5. f[x] = e[x] /\ g[t] = h[t]
    BY <2>2
  <2> QED  BY <2>3, <2>4, <2>5
<1>3. N = Nat
  <2>1. N \in SUBSET Nat
    OBVIOUS
  <2> HIDE DEF N
  <2> QED  BY <1>1, <1>2, <2>1, NumberInduction
<1>4. Cardinality(U) \in Nat
  BY <1>0, FS_CardinalityType
<1> QED  BY <1>3, <1>4

LEMMA SumSame ==
    ASSUME NEW S, IsFiniteSet(S), NEW f, NEW e, \A x \in S : f[x] = e[x]
    PROVE  SumFunctionOnSet(f, S) = SumFunctionOnSet(e, S)
<1>1. PICK g : IsSum(g, f, SUBSET S) /\ SumFunctionOnSet(f, S) = g[S]
  BY SumSolution
<1>2. PICK h : IsSum(h, e, SUBSET S) /\ SumFunctionOnSet(e, S) = h[S]
  BY SumSolution
<1>3. S \subseteq S /\ IsSum(g, f, SUBSET S) /\ IsSum(h, e, SUBSET S)
  BY <1>1, <1>2
<1>4. g[S] = h[S]
  BY <1>3, SumUnique
<1> QED  BY <1>1, <1>2, <1>4

LEMMA SumEmpty == \A f : SumFunctionOnSet(f, {}) = 0
<1> TAKE f
<1>1. PICK g : IsSum(g, f, SUBSET {}) /\ SumFunctionOnSet(f, {}) = g[{}]
  BY FS_EmptySet, SumSolution
<1> QED  BY <1>1 DEF IsSum

LEMMA SumPart ==
    ASSUME NEW S, IsFiniteSet(S), NEW T \in SUBSET S, NEW f, NEW g, IsSum(g, f, SUBSET S)
    PROVE  g[T] = SumFunctionOnSet(f, T)
<1>1. IsFiniteSet(T) /\ T \subseteq S /\ T \subseteq T
  BY FS_Subset
<1>2. PICK h : IsSum(h, f, SUBSET T) /\ SumFunctionOnSet(f, T) = h[T]
  BY <1>1, SumSolution
<1>3. g[T] = h[T]
  BY <1>1, <1>2, SumUnique
<1> QED  BY <1>2, <1>3

LEMMA SumChosen ==
    ASSUME NEW S, IsFiniteSet(S), S # {}, NEW f
    PROVE  LET x == CHOOSE x \in S : TRUE
           IN  SumFunctionOnSet(f, S) = f[x] + SumFunctionOnSet(f, S \ {x})
<1> DEFINE x == CHOOSE x \in S : TRUE
           T == S \ {x}
<1>1. PICK g : IsSum(g, f, SUBSET S) /\ SumFunctionOnSet(f, S) = g[S]
  BY SumSolution
<1>2. g[S] = f[x] + g[T]
  BY <1>1 DEF IsSum
<1>3. T \in SUBSET S
  OBVIOUS
<1> HIDE DEF T
<1>4. g[T] = SumFunctionOnSet(f, T)
  BY <1>1, <1>3, SumPart
<1> QED  BY <1>1, <1>2, <1>4 DEF T

LEMMA SumType ==
    ASSUME NEW S, IsFiniteSet(S), NEW f, \A x \in S : f[x] \in Int
    PROVE  SumFunctionOnSet(f, S) \in Int
<1> DEFINE N == {n \in Nat : \A s \in SUBSET S : Cardinality(s) = n => SumFunctionOnSet(f, s) \in Int}
<1>1. 0 \in N
  <2>1. \A s \in SUBSET S : Cardinality(s) = 0 => s = {}
    BY FS_Subset, FS_EmptySet
  <2> QED  BY <2>1, SumEmpty
<1>2. ASSUME NEW n \in N
      PROVE  n + 1 \in N
  <2> SUFFICES ASSUME NEW s \in SUBSET S, Cardinality(s) = n + 1
               PROVE  SumFunctionOnSet(f, s) \in Int
    OBVIOUS
  <2>1. s # {} /\ IsFiniteSet(s)
    BY FS_Subset, FS_EmptySet
  <2> DEFINE x == CHOOSE x \in s : TRUE
             t == s \ {x}
  <2>2. x \in S /\ t \in SUBSET S /\ Cardinality(t) = n
    BY <2>1, ChosenElement
  <2>3. SumFunctionOnSet(f, s) = f[x] + SumFunctionOnSet(f, t)
    BY <2>1, SumChosen
  <2> HIDE DEF x, t
  <2>4. f[x] \in Int /\ SumFunctionOnSet(f, t) \in Int
    BY <2>2
  <2> QED  BY <2>3, <2>4
<1>3. N = Nat
  <2>1. N \in SUBSET Nat
    OBVIOUS
  <2> HIDE DEF N
  <2> QED  BY <1>1, <1>2, <2>1, NumberInduction
<1>4. Cardinality(S) \in Nat
  BY FS_CardinalityType
<1> QED  BY <1>3, <1>4

\* Any summand can be split off.
LEMMA SumRemove ==
    ASSUME NEW S, IsFiniteSet(S), NEW f, \A x \in S : f[x] \in Int, NEW a \in S
    PROVE  SumFunctionOnSet(f, S) = f[a] + SumFunctionOnSet(f, S \ {a})
<1> DEFINE Sum(s) == SumFunctionOnSet(f, s)
           N == {n \in Nat : \A s \in SUBSET S : Cardinality(s) = n =>
                                \A x \in s : Sum(s) = f[x] + Sum(s \ {x})}
<1>1. 0 \in N
  <2>1. \A s \in SUBSET S : Cardinality(s) = 0 => s = {}
    BY FS_Subset, FS_EmptySet
  <2> HIDE DEF Sum
  <2> QED  BY <2>1
<1>0. \A s \in SUBSET S : Sum(s) \in Int
  BY FS_Subset, SumType
<1>2. ASSUME NEW n \in N
      PROVE  n + 1 \in N
  <2> SUFFICES ASSUME NEW s \in SUBSET S, Cardinality(s) = n + 1, NEW x \in s
               PROVE  Sum(s) = f[x] + Sum(s \ {x})
    OBVIOUS
  <2>1. s # {} /\ IsFiniteSet(s)
    BY FS_Subset, FS_EmptySet
  <2> DEFINE y == CHOOSE y \in s : TRUE
  <2>2. y \in s /\ Sum(s) = f[y] + Sum(s \ {y})
    BY <2>1, SumChosen
  <2> HIDE DEF y, Sum
  <2>3. CASE x = y
    BY <2>2, <2>3
  <2>4. CASE x # y
    <3> DEFINE sx == s \ {x}
               sy == s \ {y}
               sxy == s \ {x, y}
    <3>1. sx \ {y} = sxy /\ sy \ {x} = sxy /\ y \in sx /\ x \in sy
      BY <2>2, <2>4
    <3>2. sx \in SUBSET S /\ sy \in SUBSET S /\ sxy \in SUBSET S
      OBVIOUS
    <3>3. Cardinality(sx) = n /\ Cardinality(sy) = n
      <4>1. Cardinality(sx) = Cardinality(s) - 1 /\ Cardinality(sy) = Cardinality(s) - 1
        BY <2>1, <2>2, FS_RemoveElement
      <4> QED  BY <4>1
    <3> HIDE DEF sx, sy, sxy
    <3>4. Sum(sx) = f[y] + Sum(sxy) /\ Sum(sy) = f[x] + Sum(sxy)
      BY <3>1, <3>2, <3>3
    <3>5. f[x] \in Int /\ f[y] \in Int /\ Sum(sxy) \in Int
      BY <1>0, <2>2, <3>2
    <3>6. Sum(s) = f[y] + Sum(sy)
      BY <2>2 DEF sy
    <3>7. Sum(s) = f[x] + Sum(sx)
      BY <3>4, <3>5, <3>6
    <3> QED  BY <3>7 DEF sx
  <2> QED  BY <2>3, <2>4
<1>3. N = Nat
  <2>1. N \in SUBSET Nat
    OBVIOUS
  <2> HIDE DEF N
  <2> QED  BY <1>1, <1>2, <2>1, NumberInduction
<1>4. Cardinality(S) \in Nat
  BY FS_CardinalityType
<1> HIDE DEF Sum
<1>5. Sum(S) = f[a] + Sum(S \ {a})
  BY <1>3, <1>4
<1> QED  BY <1>5 DEF Sum

LEMMA SumAdd ==
    ASSUME NEW S, IsFiniteSet(S), NEW a, a \notin S, NEW f, \A x \in S \cup {a} : f[x] \in Int
    PROVE  SumFunctionOnSet(f, S \cup {a}) = f[a] + SumFunctionOnSet(f, S)
<1> DEFINE T == S \cup {a}
<1>1. IsFiniteSet(T) /\ a \in T /\ \A x \in T : f[x] \in Int
  BY FS_AddElement
<1>2. T \ {a} = S
  OBVIOUS
<1> HIDE DEF T
<1>3. SumFunctionOnSet(f, T) = f[a] + SumFunctionOnSet(f, T \ {a})
  BY <1>1, SumRemove
<1> QED  BY <1>2, <1>3 DEF T

LEMMA SumDisjoint ==
    ASSUME NEW S, IsFiniteSet(S), NEW T, IsFiniteSet(T), S \cap T = {},
           NEW f, \A x \in S \cup T : f[x] \in Int
    PROVE  SumFunctionOnSet(f, S \cup T) = SumFunctionOnSet(f, S) + SumFunctionOnSet(f, T)
<1> DEFINE Sum(s) == SumFunctionOnSet(f, s)
           P == {t \in SUBSET T : Sum(S \cup t) = Sum(S) + Sum(t)}
<1>1. Sum(S) \in Int /\ \A t \in SUBSET T : Sum(t) \in Int /\ IsFiniteSet(t)
  BY FS_Subset, SumType
<1>2. {} \in P
  <2>1. Sum({}) = 0
    BY SumEmpty
  <2>2. S \cup {} = S
    OBVIOUS
  <2> HIDE DEF Sum
  <2> QED  BY <1>1, <2>1, <2>2
<1>3. ASSUME NEW t \in P, NEW x \in T \ t
      PROVE  t \cup {x} \in P
  <2>1. Sum(t \cup {x}) = f[x] + Sum(t)
    <3>1. IsFiniteSet(t) /\ x \notin t /\ \A y \in t \cup {x} : f[y] \in Int
      BY <1>1
    <3> QED  BY <3>1, SumAdd
  <2> DEFINE U == S \cup t
  <2>2. Sum(U \cup {x}) = f[x] + Sum(U)
    <3>1. x \notin U /\ \A y \in U \cup {x} : f[y] \in Int
      OBVIOUS
    <3>2. IsFiniteSet(U)
      BY <1>1, FS_Union
    <3> HIDE DEF U
    <3> QED  BY <3>1, <3>2, SumAdd
  <2>3. S \cup (t \cup {x}) = U \cup {x}
    OBVIOUS
  <2>4. f[x] \in Int /\ Sum(t) \in Int /\ Sum(U) = Sum(S) + Sum(t)
    BY <1>1
  <2> HIDE DEF Sum, U
  <2> DEFINE V == S \cup (t \cup {x})
             W == t \cup {x}
  <2>a. Sum(V) = f[x] + Sum(U) /\ Sum(W) = f[x] + Sum(t)
    BY <2>1, <2>2, <2>3
  <2> HIDE DEF V, W
  <2>b. Sum(V) = Sum(S) + Sum(W)
    BY <1>1, <2>4, <2>a
  <2>5. Sum(S \cup (t \cup {x})) = Sum(S) + Sum(t \cup {x})
    BY <2>b, Zenon DEF V, W
  <2> QED  BY <2>5
<1>4. P = SUBSET T
  <2>1. P \in SUBSET (SUBSET T)
    OBVIOUS
  <2> HIDE DEF P
  <2> QED  BY <1>2, <1>3, <2>1, SubsetInduction
<1>5. T \in P
  BY <1>4
<1> QED  BY <1>5

\* Summands that are zero do not matter.
LEMMA SumSupport ==
    ASSUME NEW S, IsFiniteSet(S), NEW T \in SUBSET S, NEW f, \A x \in S : f[x] \in Int,
           \A x \in S \ T : f[x] = 0
    PROVE  SumFunctionOnSet(f, S) = SumFunctionOnSet(f, T)
<1> DEFINE Z == S \ T
           Sum(s) == SumFunctionOnSet(f, s)
           P == {s \in SUBSET Z : Sum(s) = 0}
<1>1. IsFiniteSet(Z) /\ IsFiniteSet(T) /\ Z \cap T = {} /\ T \cup Z = S
  BY FS_Subset
<1>2. {} \in P
  BY SumEmpty
<1>3. ASSUME NEW s \in P, NEW x \in Z \ s
      PROVE  s \cup {x} \in P
  <2>1. IsFiniteSet(s) /\ x \notin s /\ (\A y \in s \cup {x} : f[y] \in Int)
    BY <1>1, FS_Subset
  <2>2. Sum(s \cup {x}) = f[x] + Sum(s)
    BY <2>1, SumAdd
  <2>3. f[x] = 0 /\ Sum(s) = 0
    OBVIOUS
  <2> HIDE DEF Sum
  <2> QED  BY <2>2, <2>3
<1>4. P = SUBSET Z
  <2>1. P \in SUBSET (SUBSET Z)
    OBVIOUS
  <2> HIDE DEF P, Z
  <2> QED  BY <1>1, <1>2, <1>3, <2>1, SubsetInduction
<1>5. Sum(Z) = 0
  BY <1>4
<1>6. Sum(T) \in Int
  BY <1>1, SumType
<1>7. Sum(T \cup Z) = Sum(T) + Sum(Z)
  <2>1. T \cap Z = {} /\ \A x \in T \cup Z : f[x] \in Int
    OBVIOUS
  <2> HIDE DEF Z
  <2> QED  BY <1>1, <2>1, SumDisjoint
<1> HIDE DEF Sum, Z
<1>8. Sum(S) = Sum(T)
  <2>1. Sum(S) = Sum(T) + Sum(Z)
    BY <1>1, <1>7, Zenon
  <2> QED  BY <1>5, <1>6, <2>1
<1> QED  BY <1>8 DEF Sum

\* Renaming the summands.
LEMMA SumRenamed ==
    ASSUME NEW I, NEW S, NEW b, NEW f, NEW e
    PROVE  /\ IsFiniteSet(I) /\ \A i, j \in I : b[i] = b[j] => i = j
           /\ \A i \in I : e[i] = f[b[i]] /\ f[b[i]] \in Int
           /\ S = {b[i] : i \in I}
           => SumFunctionOnSet(e, I) = SumFunctionOnSet(f, S)
<1> SUFFICES ASSUME IsFiniteSet(I), \A i, j \in I : b[i] = b[j] => i = j,
                    \A i \in I : e[i] = f[b[i]] /\ f[b[i]] \in Int
             PROVE  SumFunctionOnSet(e, I) = SumFunctionOnSet(f, {b[i] : i \in I})
  OBVIOUS
<1> DEFINE Img(J) == {b[i] : i \in J}
           P == {J \in SUBSET I : SumFunctionOnSet(e, J) = SumFunctionOnSet(f, Img(J))}
<1>1. {} \in P
  <2>1. Img({}) = {}
    OBVIOUS
  <2> HIDE DEF Img
  <2> QED  BY <2>1, SumEmpty
<1>2. ASSUME NEW J \in P, NEW x \in I \ J
      PROVE  J \cup {x} \in P
  <2>1. IsFiniteSet(J) /\ x \notin J /\ \A y \in J \cup {x} : e[y] \in Int
    BY FS_Subset
  <2>2. SumFunctionOnSet(e, J \cup {x}) = e[x] + SumFunctionOnSet(e, J)
    BY <2>1, SumAdd
  <2>3. Img(J \cup {x}) = Img(J) \cup {b[x]} /\ b[x] \notin Img(J)
    OBVIOUS
  <2>4. IsFiniteSet(Img(J)) /\ \A y \in Img(J) \cup {b[x]} : f[y] \in Int
    BY <2>1, FiniteImage
  <2>5. e[x] = f[b[x]] /\ SumFunctionOnSet(e, J) = SumFunctionOnSet(f, Img(J))
    OBVIOUS
  <2> HIDE DEF Img
  <2>6. SumFunctionOnSet(f, Img(J) \cup {b[x]}) = f[b[x]] + SumFunctionOnSet(f, Img(J))
    BY <2>3, <2>4, SumAdd
  <2> QED  BY <2>2, <2>3, <2>5, <2>6
<1>3. P = SUBSET I
  <2>1. P \in SUBSET (SUBSET I)
    OBVIOUS
  <2> HIDE DEF P
  <2> QED  BY <1>1, <1>2, <2>1, SubsetInduction
<1>4. I \in P
  BY <1>3
<1> QED  BY <1>4

\* Summing by groups.
Within(K, p, T) == {k \in K : p[k] \in T}

LEMMA SumGroups ==
    ASSUME NEW K, NEW p, NEW w, NEW S, NEW u
    PROVE  /\ IsFiniteSet(K) /\ IsFiniteSet(S) /\ \A k \in K : w[k] \in Int
           /\ \A g \in S : u[g] = SumFunctionOnSet(w, Within(K, p, {g}))
           => SumFunctionOnSet(u, S) = SumFunctionOnSet(w, Within(K, p, S))
<1> SUFFICES ASSUME IsFiniteSet(K), IsFiniteSet(S), \A k \in K : w[k] \in Int,
                    \A g \in S : u[g] = SumFunctionOnSet(w, Within(K, p, {g}))
             PROVE  SumFunctionOnSet(u, S) = SumFunctionOnSet(w, Within(K, p, S))
  OBVIOUS
<1> DEFINE Of(s) == {k \in K : p[k] \in s}
           P == {s \in SUBSET S : SumFunctionOnSet(u, s) = SumFunctionOnSet(w, Of(s))}
<1>0. /\ \A s : IsFiniteSet(Of(s)) /\ Of(s) \subseteq K /\ SumFunctionOnSet(w, Of(s)) \in Int
      /\ \A g \in S : u[g] = SumFunctionOnSet(w, Of({g})) /\ u[g] \in Int
  <2>1. \A s : IsFiniteSet(Of(s)) /\ Of(s) \subseteq K
    BY FS_Subset
  <2>2. \A s : SumFunctionOnSet(w, Of(s)) \in Int
    <3> TAKE s
    <3> DEFINE O == Of(s)
    <3>1. IsFiniteSet(O) /\ \A k \in O : w[k] \in Int
      BY <2>1
    <3> HIDE DEF O
    <3>2. SumFunctionOnSet(w, O) \in Int
      BY <3>1, SumType
    <3> QED  BY <3>2 DEF O
  <2>3. ASSUME NEW g \in S
        PROVE  u[g] = SumFunctionOnSet(w, Of({g}))
    <3>1. Of({g}) = Within(K, p, {g})
      BY DEF Within
    <3> HIDE DEF Of
    <3> QED  BY <3>1
  <2> HIDE DEF Of
  <2> QED  BY <2>1, <2>2, <2>3
<1>1. {} \in P
  <2>1. Of({}) = {}
    OBVIOUS
  <2> HIDE DEF Of
  <2> QED  BY <2>1, SumEmpty
<1>2. ASSUME NEW s \in P, NEW x \in S \ s
      PROVE  s \cup {x} \in P
  <2>1. IsFiniteSet(s) /\ x \notin s /\ \A y \in s \cup {x} : u[y] \in Int
    BY <1>0, FS_Subset
  <2>2. SumFunctionOnSet(u, s \cup {x}) = u[x] + SumFunctionOnSet(u, s)
    BY <2>1, SumAdd
  <2> DEFINE A == Of(s)
             B == Of({x})
  <2>3. Of(s \cup {x}) = A \cup B /\ A \cap B = {} /\ \A k \in A \cup B : w[k] \in Int
    OBVIOUS
  <2>4. IsFiniteSet(A) /\ IsFiniteSet(B) /\ u[x] = SumFunctionOnSet(w, B)
        /\ SumFunctionOnSet(u, s) = SumFunctionOnSet(w, A)
        /\ SumFunctionOnSet(w, A) \in Int /\ SumFunctionOnSet(w, B) \in Int
    BY <1>0
  <2> HIDE DEF A, B, Of
  <2>5. SumFunctionOnSet(w, A \cup B) = SumFunctionOnSet(w, A) + SumFunctionOnSet(w, B)
    BY <2>3, <2>4, SumDisjoint
  <2> DEFINE V == s \cup {x}
  <2>6. SumFunctionOnSet(w, Of(V)) = SumFunctionOnSet(w, A) + SumFunctionOnSet(w, B)
    BY <2>3, <2>5, Zenon
  <2>7. SumFunctionOnSet(u, V) = SumFunctionOnSet(w, B) + SumFunctionOnSet(w, A)
    BY <2>2, <2>4, Zenon
  <2>8. V \in SUBSET S
    OBVIOUS
  <2> HIDE DEF V
  <2>9. V \in P
    BY <2>4, <2>6, <2>7, <2>8
  <2> QED  BY <2>9, Zenon DEF V
<1>3. P = SUBSET S
  <2>1. P \in SUBSET (SUBSET S)
    OBVIOUS
  <2> HIDE DEF P
  <2> QED  BY <1>1, <1>2, <2>1, SubsetInduction
<1>4. S \in P
  BY <1>3
<1>5. Of(S) = Within(K, p, S)
  BY DEF Within
<1> HIDE DEF Of
<1> QED  BY <1>4, <1>5
-----------------------------------------------------------------------------
(* The sum and the values of lists appended to each other.                *)

LEMMA TotalSum ==
    ASSUME NEW values
    PROVE  Total(values) = SumFunctionOnSet(values, DOMAIN values)
BY DEF Total, FoldSeq, FoldFunction, SumFunctionOnSet

LEMMA TotalInt ==
    ASSUME NEW values \in Seq(Int)
    PROVE  Total(values) \in Int
BY IndexSet, SumType, TotalSum

LEMMA TotalEmpty == Total(<<>>) = 0
<1>1. DOMAIN <<>> = {}
  OBVIOUS
<1>2. Total(<<>>) = SumFunctionOnSet(<<>>, {})
  BY <1>1, TotalSum
<1> QED  BY <1>2, SumEmpty

LEMMA ConcatFacts ==
    ASSUME NEW s \in Seq(Int), NEW t \in Seq(Int)
    PROVE  /\ s \o t \in Seq(Int)
           /\ Total(s \o t) = Total(s) + Total(t)
           /\ ToSet(s \o t) = ToSet(s) \cup ToSet(t)
<1> DEFINE c == s \o t
           n == Len(s)
           m == Len(t)
           A == 1 .. n
           B == n + 1 .. n + m
           b == [j \in 1 .. m |-> n + j]
<1>1. /\ c \in Seq(Int) /\ n \in Nat /\ m \in Nat
      /\ DOMAIN s = 1 .. n /\ DOMAIN t = 1 .. m /\ DOMAIN c = 1 .. n + m
  OBVIOUS
<1>2. \A i \in 1 .. n : c[i] = s[i]
  OBVIOUS
<1>3. \A j \in 1 .. m : c[n + j] = t[j]
  OBVIOUS
<1>4. \A i \in DOMAIN c : c[i] \in Int
  BY <1>1
<1>4a. (\A i \in DOMAIN s : s[i] \in Int) /\ (\A i \in DOMAIN t : t[i] \in Int)
  OBVIOUS
<1> HIDE DEF c, n, m
<1>5. DOMAIN c = A \cup B /\ A \cap B = {}
  BY <1>1
<1>6. IsFiniteSet(A) /\ IsFiniteSet(B) /\ IsFiniteSet(1 .. m)
  <2>1. 1 \in Int /\ n \in Int /\ m \in Int /\ n + 1 \in Int /\ n + m \in Int
    BY <1>1
  <2> QED  BY <2>1, FS_Interval
<1>7. {b[j] : j \in 1 .. m} = B
  <2>1. \A x \in B : x - n \in 1 .. m /\ x = n + (x - n)
    BY <1>1
  <2>2. \A j \in 1 .. m : n + j \in B
    BY <1>1
  <2> QED  BY <2>1, <2>2
<1>8. SumFunctionOnSet(c, A) = Total(s)
  <2>1. \A i \in A : c[i] = s[i]
    BY <1>2
  <2>2. SumFunctionOnSet(c, A) = SumFunctionOnSet(s, A)
    BY <1>6, <2>1, SumSame
  <2> QED  BY <1>1, <2>2, TotalSum
<1>9. SumFunctionOnSet(c, B) = Total(t)
  <2> DEFINE I == 1 .. m
  <2>1. \A i, j \in I : b[i] = b[j] => i = j
    BY <1>1
  <2>2. \A i \in I : t[i] = c[b[i]] /\ c[b[i]] \in Int
    BY <1>1, <1>3, <1>4a
  <2>3. IsFiniteSet(I) /\ DOMAIN t = I /\ {b[j] : j \in I} = B
    BY <1>1, <1>6, <1>7
  <2> HIDE DEF I, b, B
  <2>4. SumFunctionOnSet(t, I) = SumFunctionOnSet(c, B)
    BY <2>1, <2>2, <2>3, SumRenamed
  <2> QED  BY <2>3, <2>4, TotalSum
<1>10. Total(c) = Total(s) + Total(t)
  <2>1. \A i \in A \cup B : c[i] \in Int
    BY <1>4, <1>5
  <2> HIDE DEF A, B
  <2>2. SumFunctionOnSet(c, A \cup B) = SumFunctionOnSet(c, A) + SumFunctionOnSet(c, B)
    BY <1>5, <1>6, <2>1, SumDisjoint
  <2> QED  BY <1>5, <1>8, <1>9, <2>2, TotalSum
<1>11. ToSet(c) = ToSet(s) \cup ToSet(t)
  <2>1. /\ ToSet(c) = {c[i] : i \in 1 .. n + m}
        /\ ToSet(s) = {s[i] : i \in 1 .. n} /\ ToSet(t) = {t[i] : i \in 1 .. m}
    BY <1>1 DEF ToSet
  <2>2. \A i \in 1 .. n + m : i \in 1 .. n \/ (i - n \in 1 .. m /\ i = n + (i - n))
    BY <1>1
  <2>3. \A i \in 1 .. n : i \in 1 .. n + m
    BY <1>1
  <2>4. \A j \in 1 .. m : n + j \in 1 .. n + m
    BY <1>1
  <2>5. ToSet(c) \subseteq ToSet(s) \cup ToSet(t)
    <3> SUFFICES ASSUME NEW i \in 1 .. n + m PROVE c[i] \in ToSet(s) \cup ToSet(t)
      BY <2>1
    <3>1. CASE i \in 1 .. n
      BY <2>1, <3>1, <1>2
    <3>2. CASE i - n \in 1 .. m /\ i = n + (i - n)
      <4>1. c[i] = t[i - n]
        BY <3>2, <1>3
      <4> QED  BY <2>1, <3>2, <4>1
    <3> QED  BY <2>2, <3>1, <3>2
  <2>6. ToSet(s) \subseteq ToSet(c)
    BY <2>1, <2>3, <1>2
  <2>7. ToSet(t) \subseteq ToSet(c)
    BY <2>1, <2>4, <1>3
  <2> QED  BY <2>5, <2>6, <2>7
<1> QED  BY <1>1, <1>10, <1>11 DEF c

LEMMA FlattenFacts ==
    ASSUME NEW n \in Nat, NEW ss \in [1 .. n -> Seq(Int)],
           NEW w, \A i \in 1 .. n : w[i] = Total(ss[i])
    PROVE  /\ FlattenSeq(ss) \in Seq(Int)
           /\ Total(FlattenSeq(ss)) = SumFunctionOnSet(w, 1 .. n)
           /\ ToSet(FlattenSeq(ss)) = UNION {ToSet(ss[i]) : i \in 1 .. n}
<1>1. ss \in Seq(Seq(Int)) /\ Len(ss) = n
  OBVIOUS
<1>2. CASE n = 0
  <2>1. FlattenSeq(ss) = <<>>
    <3>1. FlattenSeq(ss) = ss
      BY <1>1, <1>2 DEF FlattenSeq
    <3>2. ss = <<>>
      BY <1>1, <1>2
    <3> QED  BY <3>1, <3>2
  <2>2. 1 .. n = {}
    BY <1>2
  <2>3. ToSet(<<>>) = {}
    BY DEF ToSet
  <2> QED  BY <2>1, <2>2, <2>3, TotalEmpty, SumEmpty
<1>3. CASE n # 0
  <2> DEFINE Eq(f) == f = [i \in 1 .. n |-> IF i = 1 THEN ss[i] ELSE f[i - 1] \o ss[i]]
             flat == CHOOSE f : Eq(f)
  <2>1. FlattenSeq(ss) = flat[n]
    BY <1>1, <1>3 DEF FlattenSeq
  <2>2. IsFlat(flat, ss, n)
    <3>1. \A f : Eq(f) <=> IsFlat(f, ss, n)
      BY DEF IsFlat
    <3>2. \E f : IsFlat(f, ss, n)
      BY FlatExists
    <3> HIDE DEF Eq
    <3> QED  BY <3>1, <3>2
  <2> HIDE DEF flat
  <2>3. \A i \in 1 .. n : flat[i] = IF i = 1 THEN ss[i] ELSE flat[i - 1] \o ss[i]
    BY <2>2 DEF IsFlat
  <2> DEFINE Ok(i) == /\ flat[i] \in Seq(Int)
                      /\ Total(flat[i]) = SumFunctionOnSet(w, 1 .. i)
                      /\ ToSet(flat[i]) = UNION {ToSet(ss[j]) : j \in 1 .. i}
             P == {i \in Nat : i + 1 \in 1 .. n => Ok(i + 1)}
  <2>4. \A i \in 1 .. n : IsFiniteSet(1 .. i) /\ w[i] \in Int /\ ss[i] \in Seq(Int)
    <3> TAKE i \in 1 .. n
    <3>1. 1 \in Int /\ i \in Int
      OBVIOUS
    <3> QED  BY <3>1, FS_Interval, TotalInt
  <2>5. 0 \in P
    <3>1. 1 \in 1 .. n /\ flat[1] = ss[1]
      BY <1>3, <2>3
    <3>2. 1 .. 1 = {1}
      OBVIOUS
    <3>3. SumFunctionOnSet(w, {1}) = w[1]
      <4>1. SumFunctionOnSet(w, {} \cup {1}) = w[1] + SumFunctionOnSet(w, {})
        BY <2>4, <3>1, FS_EmptySet, SumAdd
      <4>2. {} \cup {1} = {1}
        OBVIOUS
      <4> QED  BY <2>4, <3>1, <4>1, <4>2, SumEmpty
    <3>4. UNION {ToSet(ss[j]) : j \in {1}} = ToSet(ss[1])
      OBVIOUS
    <3>5. flat[1] \in Seq(Int) /\ Total(flat[1]) = w[1]
      BY <2>4, <3>1
    <3>6. Ok(1)
      BY <3>1, <3>2, <3>3, <3>4, <3>5
    <3> HIDE DEF Ok
    <3> QED  BY <3>6
  <2>6. ASSUME NEW i \in P
        PROVE  i + 1 \in P
    <3> SUFFICES ASSUME (i + 1) + 1 \in 1 .. n PROVE Ok((i + 1) + 1)
      OBVIOUS
    <3> DEFINE j == i + 1
               k == (i + 1) + 1
    <3>1. j \in 1 .. n /\ k \in 1 .. n /\ k # 1 /\ k - 1 = j /\ j \in Nat
      OBVIOUS
    <3>2. Ok(j)
      BY <3>1
    <3>3. 1 .. k = (1 .. j) \cup {k} /\ k \notin 1 .. j
      BY <3>1
    <3> HIDE DEF j, k
    <3>4. flat[k] = flat[j] \o ss[k]
      <4>1. flat[k] = flat[k - 1] \o ss[k]
        BY <2>3, <3>1, Zenon
      <4> QED  BY <4>1, <3>1
    <3>5. /\ flat[k] \in Seq(Int) /\ Total(flat[k]) = Total(flat[j]) + w[k]
          /\ ToSet(flat[k]) = ToSet(flat[j]) \cup ToSet(ss[k])
      <4>1. flat[j] \in Seq(Int) /\ ss[k] \in Seq(Int) /\ w[k] = Total(ss[k])
        BY <2>4, <3>1, <3>2
      <4>2. /\ flat[j] \o ss[k] \in Seq(Int)
            /\ Total(flat[j] \o ss[k]) = Total(flat[j]) + Total(ss[k])
            /\ ToSet(flat[j] \o ss[k]) = ToSet(flat[j]) \cup ToSet(ss[k])
        BY <4>1, ConcatFacts
      <4> QED  BY <3>4, <4>1, <4>2, Zenon
    <3>6. SumFunctionOnSet(w, (1 .. j) \cup {k}) = w[k] + SumFunctionOnSet(w, 1 .. j)
      <4> DEFINE J == 1 .. j
      <4>1. IsFiniteSet(J) /\ k \notin J /\ \A x \in J \cup {k} : w[x] \in Int
        BY <2>4, <3>1, <3>3
      <4> HIDE DEF J
      <4>2. SumFunctionOnSet(w, J \cup {k}) = w[k] + SumFunctionOnSet(w, J)
        BY <4>1, SumAdd
      <4> QED  BY <4>2 DEF J
    <3>7. SumFunctionOnSet(w, 1 .. k) = w[k] + SumFunctionOnSet(w, 1 .. j)
      BY <3>3, <3>6, Zenon
    <3>8. Total(flat[j]) \in Int /\ w[k] \in Int
      BY <2>4, <3>1, <3>2, TotalInt
    <3>9. Total(flat[k]) = SumFunctionOnSet(w, 1 .. k)
      BY <3>2, <3>5, <3>7, <3>8
    <3>10. UNION {ToSet(ss[x]) : x \in 1 .. k} = (UNION {ToSet(ss[x]) : x \in 1 .. j}) \cup ToSet(ss[k])
      BY <3>3
    <3>11. Ok(k)
      BY <3>2, <3>5, <3>9, <3>10
    <3> HIDE DEF Ok
    <3> QED  BY <3>11 DEF k
  <2>7. P = Nat
    <3>1. P \in SUBSET Nat
      OBVIOUS
    <3> HIDE DEF P
    <3> QED  BY <2>5, <2>6, <3>1, NumberInduction
  <2>8. Ok(n)
    <3>1. n - 1 \in Nat /\ (n - 1) + 1 = n /\ n \in 1 .. n
      BY <1>3
    <3>2. n - 1 \in P
      <4> HIDE DEF P
      <4> QED  BY <3>1, <2>7
    <3> HIDE DEF Ok
    <3> QED  BY <3>1, <3>2
  <2> QED  BY <2>1, <2>8
<1> QED  BY <1>2, <1>3
-----------------------------------------------------------------------------
(* What a level that sums, or takes the maximum, makes of a metric.       *)

\* What one level makes of a metric with one operation that needs no sorting.
Reduced(op, mask, m) ==
    LET indexed == Indexed(mask, m)
    IN  [g \in {g \in DOMAIN indexed : indexed[g] # <<>>} |-> aggregate(op, indexed[g], FALSE)]

LEMMA LevelReduces ==
    ASSUME NEW l, NEW m, NEW op \in {"sum", "max"}, Operations(l) = {op}
    PROVE  aggregateMetric(l, m)[op] = Reduced(op, l.Mask, m)
<1>1. (Operations(l) \cap {"p95", "median"} # {}) = FALSE
  OBVIOUS
<1> QED  BY <1>1 DEF aggregateMetric, Reduced

LEMMA SetToSeqFacts ==
    ASSUME NEW S, IsFiniteSet(S)
    PROVE  LET n == Cardinality(S)
               s == SetToSeq(S)
           IN  /\ n \in Nat /\ s \in [1 .. n -> S]
               /\ \A i, j \in 1 .. n : s[i] = s[j] => i = j
               /\ S = {s[i] : i \in 1 .. n}
<1> DEFINE n == Cardinality(S)
           s == SetToSeq(S)
<1>1. n \in Nat /\ s \in [1 .. n -> S]
  BY SetToSeqType
<1>2. IsInjective(s)
  <2>1. PICK f \in Bijection(1 .. n, S) : TRUE
    BY FS_CardinalityType DEF ExistsBijection
  <2>2. f \in [1 .. n -> S] /\ IsInjective(f)
    BY <2>1 DEF Bijection, Injection
  <2>3. s = CHOOSE h \in [1 .. n -> S] : IsInjective(h)
    BY DEF SetToSeq
  <2> HIDE DEF s, n
  <2> QED  BY <2>2, <2>3
<1>3. \A i, j \in 1 .. n : s[i] = s[j] => i = j
  BY <1>1, <1>2 DEF IsInjective
<1>4. s \in Injection(1 .. n, S)
  <2> HIDE DEF s, n
  <2> QED  BY <1>1, <1>2 DEF Injection
<1>5. Cardinality(1 .. n) = n
  <2>1. 1 \in Int /\ n \in Int
    BY <1>1
  <2> HIDE DEF n
  <2>2. Cardinality(1 .. n) = IF 1 > n THEN 0 ELSE n - 1 + 1
    BY <2>1, FS_Interval
  <2> QED  BY <1>1, <2>2
<1>6. s \in Surjection(1 .. n, S)
  <2> DEFINE I == 1 .. n
  <2>1. s \in Injection(I, S) /\ Cardinality(I) = Cardinality(S)
    BY <1>4, <1>5
  <2> HIDE DEF I, s, n
  <2>2. s \in Surjection(I, S)
    BY <2>1, FS_Injection
  <2> QED  BY <2>2 DEF I
<1>7. S = {s[i] : i \in 1 .. n}
  <2> HIDE DEF s, n
  <2> QED  BY <1>1, <1>6 DEF Surjection
<1> QED  BY <1>1, <1>3, <1>7

\* the samples of a metric that map to a key, and the values they have
MapTo(m, p, g) == {k \in DOMAIN m : p[k] = g}
ValuesOf(m, p, g) == UNION {ToSet(m[k]) : k \in MapTo(m, p, g)}

\* p is where a mask that filters nothing sends the samples of m, and w has
\* their totals
Sends(mask, m, p, w) ==
    /\ IsMetric(m) /\ mask.Filters = <<>>
    /\ \A k \in DOMAIN m : p[k] = Mapped(mask, k).key /\ w[k] = Total(m[k])

\* each list of groups has the values of the samples that map to its key
Groups(groups, m, p, w) ==
    /\ DOMAIN groups = {p[k] : k \in DOMAIN m}
    /\ \A g \in DOMAIN groups : /\ groups[g] \in Seq(Int)
                                /\ Total(groups[g]) = SumFunctionOnSet(w, MapTo(m, p, g))
                                /\ ToSet(groups[g]) = ValuesOf(m, p, g)

LEMMA GroupFacts ==
    ASSUME NEW m, NEW mask, NEW p, NEW w, Sends(mask, m, p, w)
    PROVE  Groups(Indexed(mask, m), m, p, w)
<1> USE DEF Sends
<1> DEFINE kept == {k \in DOMAIN m : Passes(mask.Filters, Mapped(mask, k).values)}
           Of(g) == {k \in kept : Mapped(mask, k).key = g}
           From(g) == SetToSeq(Of(g))
           Parts(g) == [i \in DOMAIN From(g) |-> m[From(g)[i]]]
<1>1. kept = DOMAIN m
  <2>0. ToSet(mask.Filters) = {}
    BY DEF ToSet
  <2>1. \A v : Passes(mask.Filters, v)
    BY <2>0 DEF Passes
  <2> HIDE DEF Sends
  <2> QED  BY <2>1
<1>2. Indexed(mask, m) = [g \in {Mapped(mask, k).key : k \in kept} |-> FlattenSeq(Parts(g))]
  BY DEF Indexed
<1>3. {Mapped(mask, k).key : k \in kept} = {p[k] : k \in DOMAIN m}
  BY <1>1
<1>4. DOMAIN Indexed(mask, m) = {p[k] : k \in DOMAIN m}
  BY <1>2, <1>3
<1>5. ASSUME NEW g \in DOMAIN Indexed(mask, m)
      PROVE  /\ Indexed(mask, m)[g] \in Seq(Int)
             /\ Total(Indexed(mask, m)[g]) = SumFunctionOnSet(w, MapTo(m, p, g))
             /\ ToSet(Indexed(mask, m)[g]) = ValuesOf(m, p, g)
  <2> DEFINE of == {k \in DOMAIN m : p[k] = g}
             n == Cardinality(of)
             s == SetToSeq(of)
             ss == [i \in 1 .. n |-> m[s[i]]]
             v == [i \in 1 .. n |-> Total(ss[i])]
  <2>1. Of(g) = of
    BY <1>1
  <2>2. IsFiniteSet(of) /\ of \subseteq DOMAIN m
    BY FS_Subset DEF IsMetric
  <2> HIDE DEF of
  <2>3. n \in Nat /\ s \in [1 .. n -> of] /\ (\A i, j \in 1 .. n : s[i] = s[j] => i = j)
        /\ of = {s[i] : i \in 1 .. n}
    BY <2>2, SetToSeqFacts
  <2>4. Parts(g) = ss
    <3>1. From(g) = s
      BY <2>1
    <3> HIDE DEF From, s
    <3> QED  BY <2>3, <3>1
  <2>5. Indexed(mask, m)[g] = FlattenSeq(ss)
    <3> HIDE DEF Parts, ss
    <3> QED  BY <1>2, <2>4
  <2> HIDE DEF Of, From, Parts, s, n
  <2>6. ss \in [1 .. n -> Seq(Int)]
    BY <2>2, <2>3 DEF IsMetric
  <2>7. \A i \in 1 .. n : v[i] = Total(ss[i])
    OBVIOUS
  <2>8. \A i \in 1 .. n : ss[i] = m[s[i]] /\ s[i] \in DOMAIN m
    BY <2>2, <2>3
  <2> HIDE DEF ss, v
  <2>9. /\ FlattenSeq(ss) \in Seq(Int)
        /\ Total(FlattenSeq(ss)) = SumFunctionOnSet(v, 1 .. n)
        /\ ToSet(FlattenSeq(ss)) = UNION {ToSet(ss[i]) : i \in 1 .. n}
    BY <2>3, <2>6, <2>7, FlattenFacts
  <2>10. SumFunctionOnSet(v, 1 .. n) = SumFunctionOnSet(w, of)
    <3> DEFINE I == 1 .. n
    <3>1. \A i \in I : v[i] = w[s[i]] /\ w[s[i]] \in Int
      <4> TAKE i \in I
      <4>1. v[i] = Total(m[s[i]]) /\ w[s[i]] = Total(m[s[i]])
        BY <2>7, <2>8
      <4>2. Total(m[s[i]]) \in Int
        BY <2>8, TotalInt DEF IsMetric
      <4> QED  BY <4>1, <4>2
    <3>2. IsFiniteSet(I)
      <4>1. 1 \in Int /\ n \in Int
        BY <2>3
      <4> QED  BY <4>1, FS_Interval
    <3>3. (\A i, j \in I : s[i] = s[j] => i = j) /\ of = {s[i] : i \in I}
      BY <2>3
    <3> HIDE DEF I
    <3>4. SumFunctionOnSet(v, I) = SumFunctionOnSet(w, of)
      BY <3>1, <3>2, <3>3, SumRenamed
    <3> QED  BY <3>4 DEF I
  <2>11. UNION {ToSet(ss[i]) : i \in 1 .. n} = UNION {ToSet(m[k]) : k \in of}
    BY <2>3, <2>8
  <2> QED  BY <2>5, <2>9, <2>10, <2>11 DEF of, MapTo, ValuesOf
<1> QED  BY <1>4, <1>5 DEF Groups

LEMMA TopFacts ==
    ASSUME NEW values \in Seq(Int)
    PROVE  LET all == ToSet(values) \cup {0}
           IN  Max(all) \in Int /\ Max(all) \in all /\ \A y \in all : y <= Max(all)
<1> DEFINE all == ToSet(values) \cup {0}
<1>1. all \in SUBSET Int /\ all # {}
  BY ValueSet
<1>2. IsFiniteSet(all)
  <2>1. IsFiniteSet(ToSet(values))
    BY ValueSet
  <2> QED  BY <2>1, FS_AddElement
<1> HIDE DEF all
<1>3. Max(all) \in all /\ \A y \in all : y <= Max(all)
  BY <1>1, <1>2, Extremes
<1> QED  BY <1>1, <1>3 DEF all

\* A level that sums, or takes the maximum: its series are those of the
\* samples that have a value, and each has the sum, or the maximum, of the
\* samples that map to it.
Reduction(op, r, m, p, w) ==
    /\ r = [g \in DOMAIN r |-> r[g]]
    /\ DOMAIN r = {p[k] : k \in {k \in DOMAIN m : m[k] # <<>>}}
    /\ \A g \in DOMAIN r :
          /\ r[g] = <<r[g][1]>> /\ r[g][1] \in Int
          /\ op = "sum" => r[g][1] = SumFunctionOnSet(w, MapTo(m, p, g))
          /\ op = "max" => /\ r[g][1] \in ValuesOf(m, p, g) \cup {0}
                           /\ \A y \in ValuesOf(m, p, g) \cup {0} : y <= r[g][1]

LEMMA ReducedFacts ==
    ASSUME NEW m, NEW mask, NEW p, NEW w, NEW op \in {"sum", "max"}, Sends(mask, m, p, w)
    PROVE  Reduction(op, Reduced(op, mask, m), m, p, w)
<1> DEFINE r == Reduced(op, mask, m)
           indexed == Indexed(mask, m)
           D == {g \in DOMAIN indexed : indexed[g] # <<>>}
           Of(g) == MapTo(m, p, g)
           All(g) == ValuesOf(m, p, g)
<1>1. /\ DOMAIN indexed = {p[k] : k \in DOMAIN m}
      /\ \A g \in DOMAIN indexed : /\ indexed[g] \in Seq(Int)
                                   /\ Total(indexed[g]) = SumFunctionOnSet(w, Of(g))
                                   /\ ToSet(indexed[g]) = All(g)
  <2>1. Groups(Indexed(mask, m), m, p, w)
    BY GroupFacts
  <2> QED  BY <2>1 DEF Groups
<1>2. r = [g \in D |-> aggregate(op, indexed[g], FALSE)]
  BY DEF Reduced
<1> HIDE DEF indexed, r
<1>3. \A s \in Seq(Int) : s # <<>> <=> ToSet(s) # {}
  <2> TAKE s \in Seq(Int)
  <2>1. s # <<>> => ToSet(s) # {}
    BY ValueSet
  <2>2. s = <<>> => ToSet(s) = {}
    BY DEF ToSet
  <2> QED  BY <2>1, <2>2
<1>4. D = {p[k] : k \in {k \in DOMAIN m : m[k] # <<>>}}
  <2>1. \A k \in DOMAIN m : m[k] # <<>> <=> ToSet(m[k]) # {}
    BY <1>3 DEF IsMetric, Sends
  <2>2. \A g \in DOMAIN indexed : indexed[g] # <<>> <=> All(g) # {}
    BY <1>1, <1>3
  <2>3. \A g : All(g) # {} <=> \E k \in Of(g) : ToSet(m[k]) # {}
    BY DEF ValuesOf
  <2>4. \A g : g \in D <=> \E k \in DOMAIN m : p[k] = g /\ m[k] # <<>>
    <3>1. \A g : All(g) # {} <=> \E k \in DOMAIN m : p[k] = g /\ ToSet(m[k]) # {}
      BY <2>3 DEF MapTo
    <3>2. \A g : g \in DOMAIN indexed <=> \E k \in DOMAIN m : p[k] = g
      BY <1>1
    <3>3. \A g : g \in D <=> g \in DOMAIN indexed /\ All(g) # {}
      BY <2>2
    <3> HIDE DEF D, All
    <3> QED  BY <2>1, <3>1, <3>2, <3>3
  <2> HIDE DEF D
  <2> QED  BY <2>4
<1>5. ASSUME NEW g \in D
      PROVE  /\ r[g] = <<r[g][1]>> /\ r[g][1] \in Int
             /\ op = "sum" => r[g][1] = SumFunctionOnSet(w, Of(g))
             /\ op = "max" => /\ r[g][1] \in All(g) \cup {0}
                              /\ \A y \in All(g) \cup {0} : y <= r[g][1]
  <2> DEFINE list == indexed[g]
             top == Max(ToSet(list) \cup {0})
  <2>1. list \in Seq(Int) /\ Total(list) = SumFunctionOnSet(w, Of(g)) /\ ToSet(list) = All(g)
    BY <1>1
  <2>2. r[g] = aggregate(op, list, FALSE)
    BY <1>2
  <2> HIDE DEF list, D
  <2>3. CASE op = "sum"
    <3>1. r[g] = <<Total(list)>>
      BY <2>2, <2>3 DEF aggregate
    <3> QED  BY <2>1, <2>3, <3>1, TotalInt
  <2>4. CASE op = "max"
    <3>1. r[g] = <<top>>
      BY <2>2, <2>4 DEF aggregate
    <3>2. top \in Int /\ top \in ToSet(list) \cup {0} /\ \A y \in ToSet(list) \cup {0} : y <= top
      BY <2>1, TopFacts
    <3> HIDE DEF top
    <3>3. r[g][1] = top /\ r[g] = <<r[g][1]>>
      BY <3>1
    <3>4. op # "sum"
      BY <2>4
    <3> QED  BY <2>1, <3>2, <3>3, <3>4
  <2> QED  BY <2>3, <2>4
<1>6. DOMAIN r = D /\ r = [g \in DOMAIN r |-> r[g]]
  <2> HIDE DEF D
  <2> QED  BY <1>2
<1> HIDE DEF D
<1>7. Reduction(op, r, m, p, w)
  BY <1>4, <1>5, <1>6 DEF Reduction
<1> QED  BY <1>7 DEF r
-----------------------------------------------------------------------------
(* Two levels after each other are the second alone.                      *)

\* Two reductions after each other, the second of what the first leaves, and
\* one from the samples directly.
Staged(m, r1, p1, p2, pd) ==
    \A k \in DOMAIN m : p1[k] \in DOMAIN r1 => p2[p1[k]] = pd[k]

LEMMA StagedDomain ==
    ASSUME NEW m, NEW p1, NEW p2, NEW pd, NEW w, NEW w1, NEW r1, NEW r2, NEW rd, NEW op,
           Staged(m, r1, p1, p2, pd),
           Reduction(op, r1, m, p1, w), Reduction(op, r2, r1, p2, w1), Reduction(op, rd, m, pd, w)
    PROVE  DOMAIN r2 = DOMAIN rd
<1> DEFINE K == {k \in DOMAIN m : m[k] # <<>>}
<1>1. DOMAIN r1 = {p1[k] : k \in K} /\ DOMAIN rd = {pd[k] : k \in K}
  BY DEF Reduction
<1>2. \A g \in DOMAIN r1 : r1[g] # <<>>
  <2> TAKE g \in DOMAIN r1
  <2>1. r1[g] = <<r1[g][1]>>
    BY DEF Reduction
  <2> QED  BY <2>1
<1>3. DOMAIN r2 = {p2[g] : g \in {g \in DOMAIN r1 : r1[g] # <<>>}}
  BY DEF Reduction
<1>4. DOMAIN r2 = {p2[g] : g \in DOMAIN r1}
  BY <1>2, <1>3
<1>5. \A k \in K : p2[p1[k]] = pd[k]
  BY <1>1 DEF Staged
<1> HIDE DEF K
<1> QED  BY <1>1, <1>4, <1>5

LEMMA StagedSum ==
    ASSUME NEW m, NEW p1, NEW p2, NEW pd, NEW w, NEW w1, NEW r1, NEW r2, NEW rd,
           Staged(m, r1, p1, p2, pd), IsMetric(m), \A k \in DOMAIN m : w[k] = Total(m[k]),
           IsMetric(r1), \A g \in DOMAIN r1 : w1[g] = r1[g][1],
           Reduction("sum", r1, m, p1, w), Reduction("sum", r2, r1, p2, w1), Reduction("sum", rd, m, pd, w),
           NEW h, h \in DOMAIN r2, h \in DOMAIN rd
    PROVE  r2[h] = rd[h]
<1> DEFINE K  == DOMAIN m
           S  == {g \in DOMAIN r1 : p2[g] = h}
           Kd == {k \in K : pd[k] = h}
           K1 == {k \in K : p1[k] \in S}
<1>1. IsFiniteSet(K) /\ IsFiniteSet(S) /\ IsFiniteSet(Kd)
  BY FS_Subset DEF IsMetric
<1>2. \A k \in K : w[k] \in Int
  BY TotalInt DEF IsMetric
<1>3. \A g \in S : w1[g] = SumFunctionOnSet(w, Within(K, p1, {g}))
  <2> TAKE g \in S
  <2>1. w1[g] = SumFunctionOnSet(w, MapTo(m, p1, g))
    BY DEF Reduction
  <2>2. MapTo(m, p1, g) = Within(K, p1, {g})
    BY DEF MapTo, Within
  <2> HIDE DEF K, S
  <2> QED  BY <2>1, <2>2
<1>4. r2[h] = <<SumFunctionOnSet(w1, S)>> /\ rd[h] = <<SumFunctionOnSet(w, Kd)>>
  <2>1. r2[h] = <<r2[h][1]>> /\ r2[h][1] = SumFunctionOnSet(w1, MapTo(r1, p2, h))
    BY DEF Reduction
  <2>2. rd[h] = <<rd[h][1]>> /\ rd[h][1] = SumFunctionOnSet(w, MapTo(m, pd, h))
    BY DEF Reduction
  <2>3. MapTo(r1, p2, h) = S /\ MapTo(m, pd, h) = Kd
    BY DEF MapTo
  <2> HIDE DEF S, Kd
  <2> QED  BY <2>1, <2>2, <2>3
<1>5. SumFunctionOnSet(w1, S) = SumFunctionOnSet(w, K1)
  <2>1. K1 = Within(K, p1, S)
    BY DEF Within
  <2> HIDE DEF S, K, K1
  <2>2. SumFunctionOnSet(w1, S) = SumFunctionOnSet(w, Within(K, p1, S))
    BY <1>1, <1>2, <1>3, SumGroups
  <2> QED  BY <2>1, <2>2
<1>6. K1 \in SUBSET Kd
  BY DEF Staged
<1>7. \A k \in Kd \ K1 : w[k] = 0
  <2> TAKE k \in Kd \ K1
  <2>1. p1[k] \notin DOMAIN r1
    BY DEF Staged
  <2>2. m[k] = <<>>
    BY <2>1 DEF Reduction
  <2> QED  BY <2>2, TotalEmpty
<1>8. \A k \in Kd : w[k] \in Int
  BY <1>2
<1> HIDE DEF K, S, Kd, K1
<1>9. SumFunctionOnSet(w, Kd) = SumFunctionOnSet(w, K1)
  BY <1>1, <1>6, <1>7, <1>8, SumSupport
<1> QED  BY <1>4, <1>5, <1>9

LEMMA StagedMax ==
    ASSUME NEW m, NEW p1, NEW p2, NEW pd, NEW w, NEW w1, NEW r1, NEW r2, NEW rd,
           Staged(m, r1, p1, p2, pd), IsMetric(m),
           Reduction("max", r1, m, p1, w), Reduction("max", r2, r1, p2, w1), Reduction("max", rd, m, pd, w),
           NEW h, h \in DOMAIN r2, h \in DOMAIN rd
    PROVE  r2[h] = rd[h]
<1> DEFINE a == r2[h][1]
           b == rd[h][1]
           Top(r, M, p, g) == /\ r[g] = <<r[g][1]>> /\ r[g][1] \in Int
                              /\ r[g][1] \in ValuesOf(M, p, g) \cup {0}
                              /\ \A y \in ValuesOf(M, p, g) \cup {0} : y <= r[g][1]
<1>1. /\ Top(r2, r1, p2, h) /\ Top(rd, m, pd, h)
      /\ \A g \in DOMAIN r1 : Top(r1, m, p1, g)
  BY DEF Reduction
<1>2. \A g \in DOMAIN r1 : ToSet(r1[g]) = {r1[g][1]}
  <2> TAKE g \in DOMAIN r1
  <2> DEFINE x == r1[g][1]
  <2>1. r1[g] = <<x>>
    BY <1>1
  <2> HIDE DEF x
  <2>2. ToSet(<<x>>) = {x}
    BY DEF ToSet
  <2> QED  BY <2>1, <2>2 DEF x
<1>3. a <= b
  <2>1. CASE a = 0
    BY <1>1, <2>1
  <2>2. CASE a \in ValuesOf(r1, p2, h)
    <3>1. PICK g \in DOMAIN r1 : p2[g] = h /\ a \in ToSet(r1[g])
      BY <2>2 DEF ValuesOf, MapTo
    <3>2. a = r1[g][1]
      BY <1>2, <3>1
    <3>3. a \in ValuesOf(m, p1, g) \cup {0}
      BY <1>1, <3>2
    <3>4. ValuesOf(m, p1, g) \subseteq ValuesOf(m, pd, h)
      BY <3>1 DEF ValuesOf, MapTo, Staged
    <3> QED  BY <1>1, <3>3, <3>4
  <2> QED  BY <1>1, <2>1, <2>2
<1>4. b <= a
  <2>1. CASE b = 0
    BY <1>1, <2>1
  <2>2. CASE b \in ValuesOf(m, pd, h)
    <3>1. PICK k \in DOMAIN m : pd[k] = h /\ b \in ToSet(m[k])
      BY <2>2 DEF ValuesOf, MapTo
    <3>2. m[k] # <<>>
      BY <3>1 DEF ToSet
    <3>3. p1[k] \in DOMAIN r1
      BY <3>2 DEF Reduction
    <3> DEFINE g == p1[k]
    <3>4. p2[g] = h
      BY <3>1, <3>3 DEF Staged
    <3>5. b \in ValuesOf(m, p1, g)
      BY <3>1 DEF ValuesOf, MapTo
    <3>6. b <= r1[g][1] /\ r1[g][1] \in Int
      BY <1>1, <3>3, <3>5
    <3>7. r1[g][1] \in ValuesOf(r1, p2, h)
      BY <1>2, <3>3, <3>4 DEF ValuesOf, MapTo
    <3> QED  BY <1>1, <3>6, <3>7
  <2> QED  BY <1>1, <2>1, <2>2
<1>5. a = b
  <2>1. a \in Int /\ b \in Int
    BY <1>1
  <2> HIDE DEF a, b
  <2> QED  BY <1>3, <1>4, <2>1
<1> QED  BY <1>1, <1>5

LEMMA TotalOne == \A x \in Int : Total(<<x>>) = x
<1> TAKE x \in Int
<1> DEFINE s == <<x>>
<1>1. s \in Seq(Int) /\ DOMAIN s = {} \cup {1} /\ s[1] = x
  OBVIOUS
<1> HIDE DEF s
<1>2. Total(s) = SumFunctionOnSet(s, {} \cup {1})
  BY <1>1, TotalSum
<1>3. SumFunctionOnSet(s, {} \cup {1}) = s[1] + SumFunctionOnSet(s, {})
  BY <1>1, FS_EmptySet, SumAdd
<1>4. SumFunctionOnSet(s, {}) = 0
  BY SumEmpty
<1> QED  BY <1>1, <1>2, <1>3, <1>4 DEF s

\* A level after a level is the second level alone.
LEMMA Stage ==
    ASSUME NEW m, NEW mask1, NEW mask2, NEW op \in {"sum", "max"}
    PROVE  /\ IsMetric(m) /\ mask1.Filters = <<>> /\ mask2.Filters = <<>>
           /\ IsMetric(Reduced(op, mask1, m))
           /\ \A k \in DOMAIN m : Mapped(mask2, Mapped(mask1, k).key).key = Mapped(mask2, k).key
           => Reduced(op, mask2, Reduced(op, mask1, m)) = Reduced(op, mask2, m)
<1> SUFFICES ASSUME IsMetric(m), mask1.Filters = <<>>, mask2.Filters = <<>>,
                    IsMetric(Reduced(op, mask1, m)),
                    \A k \in DOMAIN m : Mapped(mask2, Mapped(mask1, k).key).key = Mapped(mask2, k).key
             PROVE  Reduced(op, mask2, Reduced(op, mask1, m)) = Reduced(op, mask2, m)
  OBVIOUS
<1> DEFINE r1 == Reduced(op, mask1, m)
           r2 == Reduced(op, mask2, r1)
           rd == Reduced(op, mask2, m)
           p1 == [k \in DOMAIN m |-> Mapped(mask1, k).key]
           pd == [k \in DOMAIN m |-> Mapped(mask2, k).key]
           p2 == [g \in DOMAIN r1 |-> Mapped(mask2, g).key]
           w  == [k \in DOMAIN m |-> Total(m[k])]
           w1 == [g \in DOMAIN r1 |-> Total(r1[g])]
<1>1. IsMetric(r1)
  OBVIOUS
<1>2. Staged(m, r1, p1, p2, pd)
  <2> HIDE DEF r1
  <2> QED  BY DEF Staged
<1>3. Sends(mask1, m, p1, w) /\ Sends(mask2, m, pd, w)
  BY DEF Sends
<1>4. Sends(mask2, r1, p2, w1)
  <2> HIDE DEF r1
  <2> QED  BY <1>1 DEF Sends
<1> HIDE DEF p1, p2, pd, w, w1
<1>5. Reduction(op, r1, m, p1, w) /\ Reduction(op, rd, m, pd, w)
  BY <1>3, ReducedFacts
<1> HIDE DEF r1, rd
<1>6. Reduction(op, r2, r1, p2, w1)
  BY <1>4, ReducedFacts
<1> HIDE DEF r2
<1>7. DOMAIN r2 = DOMAIN rd
  BY <1>2, <1>5, <1>6, StagedDomain
<1>8. \A k \in DOMAIN m : w[k] = Total(m[k])
  BY DEF w
<1>9. \A g \in DOMAIN r1 : w1[g] = r1[g][1]
  <2> TAKE g \in DOMAIN r1
  <2>1. r1[g] = <<r1[g][1]>> /\ r1[g][1] \in Int
    BY <1>5 DEF Reduction
  <2>2. Total(<<r1[g][1]>>) = r1[g][1]
    BY <2>1, TotalOne
  <2>3. w1[g] = Total(r1[g])
    BY DEF w1
  <2> QED  BY <2>1, <2>2, <2>3, Zenon
<1>10. ASSUME NEW h \in DOMAIN r2
       PROVE  r2[h] = rd[h]
  <2>0. h \in DOMAIN r2 /\ h \in DOMAIN rd
    BY <1>7
  <2>1. CASE op = "sum"
    BY <1>1, <1>2, <1>5, <1>6, <1>8, <1>9, <2>0, <2>1, StagedSum
  <2>2. CASE op = "max"
    BY <1>2, <1>5, <1>6, <2>0, <2>2, StagedMax
  <2> QED  BY <2>1, <2>2
<1>11. r2 = [h \in DOMAIN r2 |-> r2[h]] /\ rd = [h \in DOMAIN rd |-> rd[h]]
  BY <1>5, <1>6 DEF Reduction
<1>12. r2 = rd
  BY <1>7, <1>10, <1>11
<1> QED  BY <1>12 DEF r1, r2, rd
-----------------------------------------------------------------------------
(* Level by level is directly.                                            *)

\* what one level makes of a metric, the names of the labels given
Direct(nm, op, mask, m) ==
    LET kept == {k \in DOMAIN m : Passes(mask.Filters, MappedIn(nm, mask, k).values)}
        From(g) == SetToSeq({k \in kept : MappedIn(nm, mask, k).key = g})
        indexed == [g \in {MappedIn(nm, mask, k).key : k \in kept} |->
                       FlattenSeq([i \in DOMAIN From(g) |-> m[From(g)[i]]])]
    IN  [g \in {g \in DOMAIN indexed : indexed[g] # <<>>} |-> aggregate(op, indexed[g], FALSE)]

Applied(levels, i) == {j \in 1 .. i : ~(j < Len(levels) /\ levels[j].Operations # <<>>)}

\* Uniform, with the levels of the aggregation given
Same(levels, op, i) ==
    /\ \A j \in Applied(levels, i) : Operations(levels[j]) = {op} /\ levels[j].Mask.Filters = <<>>
    /\ \A j1, j2 \in Applied(levels, i) : j1 < j2 => Narrower(levels[j2].Mask, levels[j1].Mask)

\* along levels of the same operation, the metric is the one collected, or
\* what one of the levels makes of it directly
Along(nm, levels, op, i, m, r) ==
    \/ Applied(levels, i) = {} /\ m = r
    \/ \E j \in Applied(levels, i) : m = Direct(nm, op, levels[j].Mask, r)

SentDirect(nm, levels, r, m) ==
    m.Operation \in {"sum", "max"} /\ Same(levels, m.Operation, m.Index) =>
        m.Values = Direct(nm, m.Operation, m.Mask, r)

StageInv ==
    /\ TInv
    /\ \A k \in DOMAIN raw.Values : NoLevel(k)
    /\ phase = "levels" => \A op \in {"sum", "max"} : Same(agg.Levels, op, level - 1) =>
                               Along(names, agg.Levels, op, level - 1, metric, raw.Values)
    /\ \A m \in sent : SentDirect(names, agg.Levels, raw.Values, m)

LEMMA DirectIsReduced ==
    ASSUME NEW op, NEW mask, NEW m
    PROVE  Direct(names, op, mask, m) = Reduced(op, mask, m)
BY DEF Direct, Reduced, Indexed, Mapped, MappedIn

LEMMA UniformIsSame ==
    ASSUME NEW op, NEW i
    PROVE  Uniform(op, i) <=> Same(agg.Levels, op, i)
BY DEF Uniform, Same, Applied, Skipped, Narrower

LEMMA InitStageInv == Init => StageInv
<1> SUFFICES ASSUME Init PROVE StageInv
  OBVIOUS
<1>1. TInv
  BY InitTInv
<1>2. DOMAIN raw.Values = {} /\ sent = {} /\ phase = "loading"
  BY DEF Init, EmptyMetric
<1> QED  BY <1>1, <1>2 DEF StageInv

\* The levels of the aggregation at work, each with a mask that fits.
LEMMA MasksOfAgg ==
    ASSUME Phases, phase = "levels"
    PROVE  \A j \in 1 .. Len(agg.Levels) : MaskFits(agg.Levels[j].Mask)
<1>1. PICK i \in DOMAIN spec.Aggregations : agg = spec.Aggregations[i]
  BY DEF Phases
<1>2. DOMAIN agg.Levels = 1 .. Len(agg.Levels) /\ \A j \in DOMAIN agg.Levels : LevelFits(agg.Levels[j])
  BY <1>1 DEF Phases, WellFormed
<1> QED  BY <1>2 DEF LevelFits

LEMMA LevelAfterLevel ==
    ASSUME LevelKept, LabelByLabel, NEW op \in {"sum", "max"}, NEW narrow, NEW wide, NEW values,
           NamesFit(names), MaskFits(wide), MaskFits(narrow), Narrower(narrow, wide),
           IsMetric(values), \A k \in DOMAIN values : NoLevel(k),
           narrow.Filters = <<>>, wide.Filters = <<>>, IsMetric(Reduced(op, wide, values))
    PROVE  Reduced(op, narrow, Reduced(op, wide, values)) = Reduced(op, narrow, values)
<1>1. PICK nm : nm = names
  OBVIOUS
<1>2. \A k \in DOMAIN values : Mapped(narrow, Mapped(wide, k).key).key = Mapped(narrow, k).key
  <2> TAKE k \in DOMAIN values
  <2>1. \A b, x : Mapped(b, x) = MappedIn(nm, b, x)
    BY <1>1 DEF Mapped, MappedIn
  <2>2. MappedIn(nm, narrow, MappedIn(nm, wide, k).key).key = MappedIn(nm, narrow, k).key
    BY <1>1, MaskedTwice
  <2> QED  BY <2>1, <2>2
<1> QED  BY <1>2, Stage

\* One more level of the same operation.
LEMMA LevelDirect ==
    ASSUME LevelKept, OverridesAreStrings, LabelByLabel, StageInv, AggregateLevel,
           NEW op \in {"sum", "max"}, Same(agg.Levels, op, level)
    PROVE  /\ DOMAIN aggregateMetric(CurrentLevel, metric) = {op}
           /\ aggregateMetric(CurrentLevel, metric)[op]
                 = Direct(names, op, CurrentLevel.Mask, raw.Values)
           /\ level \in Applied(agg.Levels, level)
<1> DEFINE levels == agg.Levels
           mask == CurrentLevel.Mask
           r == raw.Values
<1>1. /\ phase = "levels" /\ level <= Len(levels)
      /\ level < Len(levels) => levels[level].Operations = <<>>
  BY DEF AggregateLevel, CurrentLevel
<1>2. /\ level \in Nat \ {0} /\ Len(levels) \in Nat /\ NamesFit(names)
      /\ \A j \in 1 .. Len(levels) : MaskFits(levels[j].Mask)
  BY <1>1, LevelsOfAgg, MasksOfAgg DEF StageInv, TInv
<1>3. level \in Applied(levels, level)
  BY <1>1, <1>2 DEF Applied
<1>4. Operations(CurrentLevel) = {op} /\ mask.Filters = <<>>
  BY <1>3 DEF Same, CurrentLevel
<1>5. DOMAIN aggregateMetric(CurrentLevel, metric) = {op}
  BY <1>4 DEF aggregateMetric
<1>6. aggregateMetric(CurrentLevel, metric)[op] = Reduced(op, mask, metric)
  BY <1>4, LevelReduces
<1>7. Applied(levels, level - 1) \subseteq Applied(levels, level)
  BY <1>2 DEF Applied
<1>8. Same(levels, op, level - 1)
  BY <1>7 DEF Same
<1>9. Along(names, levels, op, level - 1, metric, r)
  BY <1>1, <1>8 DEF StageInv
<1>10. CASE metric = r
  BY <1>3, <1>5, <1>6, <1>10, DirectIsReduced
<1>11. ASSUME NEW j \in Applied(levels, level - 1), metric = Direct(names, op, levels[j].Mask, r)
       PROVE  Reduced(op, mask, metric) = Direct(names, op, mask, r)
  <2>1. j \in 1 .. Len(levels) /\ j < level /\ j \in Applied(levels, level)
    BY <1>1, <1>2, <1>7 DEF Applied
  <2>2. levels[j].Mask.Filters = <<>> /\ Narrower(mask, levels[j].Mask)
    BY <1>3, <2>1 DEF Same, CurrentLevel
  <2>3. MaskFits(levels[j].Mask) /\ MaskFits(mask)
    BY <1>1, <1>2, <2>1 DEF CurrentLevel
  <2>4. IsMetric(r) /\ IsMetric(metric) /\ \A k \in DOMAIN r : NoLevel(k)
    BY DEF StageInv, TInv
  <2>5. metric = Reduced(op, levels[j].Mask, r)
    BY <1>11, DirectIsReduced
  <2>6. Reduced(op, mask, Reduced(op, levels[j].Mask, r)) = Reduced(op, mask, r)
    <3> DEFINE narrow == mask
               wide == levels[j].Mask
    <3>1. /\ NamesFit(names) /\ MaskFits(wide) /\ MaskFits(narrow) /\ Narrower(narrow, wide)
          /\ IsMetric(r) /\ \A k \in DOMAIN r : NoLevel(k)
          /\ narrow.Filters = <<>> /\ wide.Filters = <<>> /\ IsMetric(Reduced(op, wide, r))
      BY <1>2, <1>4, <2>2, <2>3, <2>4, <2>5
    <3> HIDE DEF narrow, wide, r
    <3>2. Reduced(op, narrow, Reduced(op, wide, r)) = Reduced(op, narrow, r)
      BY <3>1, LevelAfterLevel
    <3> QED  BY <3>2 DEF narrow, wide
  <2> QED  BY <2>5, <2>6, DirectIsReduced
<1> QED  BY <1>3, <1>5, <1>6, <1>9, <1>10, <1>11 DEF Along

LEMMA AggregateLevelStageInv ==
    ASSUME LevelKept, OverridesAreStrings, LabelByLabel, StageInv, AggregateLevel
    PROVE  StageInv'
<1> DEFINE results == aggregateMetric(CurrentLevel, metric)
           New == {[Index |-> level, Level |-> CurrentLevel.Mask.Level, Operation |-> op,
                    Mask |-> CurrentLevel.Mask, Values |-> results[op]] : op \in DOMAIN results}
           levels == agg.Levels
<1>1. TInv'
  BY AggregateLevelTInv DEF StageInv
<1>2. /\ phase = "levels" /\ level' = level + 1 /\ UNCHANGED <<spec, agg, raw>>
      /\ (\E op \in DOMAIN results : metric' = results[op]) /\ sent' \subseteq sent \cup New
  BY DEF AggregateLevel
<1>3. names' = names
  BY <1>2 DEF names
<1>4. level \in Nat /\ level' - 1 = level
  BY <1>2, LevelsOfAgg DEF StageInv, TInv
<1>5. ASSUME NEW op \in {"sum", "max"}, Same(levels, op, level)
      PROVE  /\ DOMAIN results = {op} /\ level \in Applied(levels, level)
             /\ results[op] = Direct(names, op, levels[level].Mask, raw.Values)
  BY <1>5, LevelDirect DEF CurrentLevel
<1>6. \A m \in New : /\ m.Index = level /\ m.Operation \in DOMAIN results
                     /\ m.Mask = levels[level].Mask /\ m.Values = results[m.Operation]
  <2> HIDE DEF results
  <2> QED  BY DEF CurrentLevel
<1> HIDE DEF results, New, levels
<1>7. ASSUME NEW op \in {"sum", "max"}, Same(levels, op, level)
      PROVE  Along(names, levels, op, level, metric', raw.Values)
  <2>1. metric' = Direct(names, op, levels[level].Mask, raw.Values) /\ level \in Applied(levels, level)
    BY <1>2, <1>5, <1>7
  <2> QED  BY <2>1 DEF Along
<1>8. ASSUME NEW m \in sent'
      PROVE  SentDirect(names, levels, raw.Values, m)
  <2>1. CASE m \in sent
    BY <2>1 DEF StageInv, levels
  <2>2. CASE m \in New
    <3> SUFFICES ASSUME m.Operation \in {"sum", "max"}, Same(levels, m.Operation, m.Index)
                 PROVE  m.Values = Direct(names, m.Operation, m.Mask, raw.Values)
      BY DEF SentDirect
    <3> QED  BY <1>5, <1>6, <2>2
  <2> QED  BY <1>2, <2>1, <2>2
<1>9. agg' = agg /\ raw' = raw
  BY <1>2
<1>10. (\A k \in DOMAIN raw.Values : NoLevel(k))'
  BY <1>9 DEF StageInv
<1> QED  BY <1>1, <1>3, <1>4, <1>7, <1>8, <1>9, <1>10 DEF StageInv, levels

LEMMA OtherStageInv ==
    ASSUME StageInv,
           \/ Load \/ SkipLevel \/ PanicLevel \/ Finish \/ UNCHANGED vars
           \/ \E i \in DOMAIN spec.Aggregations, m \in RawMetric : Collect(i, m)
    PROVE  StageInv'
<1>0. TInv'
  BY OtherTInv DEF StageInv
<1>1. CASE Load
  <2>1. agg = None /\ sent = {}
    BY <1>1 DEF Load, StageInv, TInv, Phases
  <2>2. sent' = {} /\ raw' = raw /\ phase' # "levels"
    BY <1>1, <2>1 DEF Load
  <2> QED  BY <1>0, <2>2 DEF StageInv
<1>2. CASE PanicLevel \/ Finish
  <2>1. UNCHANGED <<spec, agg, raw, sent>> /\ phase' # "levels"
    BY <1>2 DEF PanicLevel, Finish
  <2>2. names' = names /\ agg' = agg /\ raw' = raw /\ sent' = sent
    BY <2>1 DEF names
  <2> QED  BY <1>0, <2>1, <2>2 DEF StageInv
<1>3. CASE UNCHANGED vars
  <2>1. names' = names /\ agg' = agg /\ raw' = raw /\ sent' = sent /\ phase' = phase
        /\ level' = level /\ metric' = metric
    BY <1>3 DEF names, vars
  <2> QED  BY <1>0, <2>1 DEF StageInv
<1>4. CASE SkipLevel
  <2>1. /\ phase = "levels" /\ level < Len(agg.Levels) /\ level' = level + 1
        /\ agg.Levels[level].Operations # <<>>
        /\ UNCHANGED <<spec, agg, raw, sent, metric>>
    BY <1>4 DEF SkipLevel, CurrentLevel
  <2>2. names' = names /\ agg' = agg /\ raw' = raw /\ sent' = sent /\ metric' = metric
    BY <2>1 DEF names
  <2>3. level \in Nat \ {0} /\ Len(agg.Levels) \in Nat /\ level' - 1 = level
    BY <2>1, LevelsOfAgg DEF StageInv, TInv
  <2>4. Applied(agg.Levels, level) = Applied(agg.Levels, level - 1)
    <3>1. \A j \in 1 .. level : j \in 1 .. level - 1 \/ j = level
      BY <2>3
    <3>2. 1 .. level - 1 \subseteq 1 .. level
      BY <2>3
    <3> QED  BY <2>1, <3>1, <3>2 DEF Applied
  <2>5. \A op \in {"sum", "max"} : Same(agg.Levels, op, level) =>
            Along(names, agg.Levels, op, level, metric, raw.Values)
    BY <2>1, <2>4 DEF StageInv, Same, Along
  <2> QED  BY <1>0, <2>2, <2>3, <2>5 DEF StageInv
<1>5. ASSUME NEW i \in DOMAIN spec.Aggregations, NEW m \in RawMetric, Collect(i, m)
      PROVE  StageInv'
  <2>1. sent' = {} /\ raw' = m /\ metric' = raw'.Values /\ level' = 1
    BY <1>5 DEF Collect
  <2>2. \A k \in DOMAIN raw'.Values : NoLevel(k)
    BY <2>1, RawMetricAssumption DEF NoLevel
  <2>3. \A levels : Applied(levels, level' - 1) = {}
    BY <2>1 DEF Applied
  <2>4. \A nm, levels, op : Along(nm, levels, op, level' - 1, metric', raw'.Values)
    BY <2>1, <2>3 DEF Along
  <2> QED  BY <1>0, <2>1, <2>2, <2>4 DEF StageInv
<1> QED  BY <1>1, <1>2, <1>3, <1>4, <1>5

\* Aggregating level by level loses nothing and counts nothing twice: for any
\* configuration, metric and overriders that look at each label alone, what
\* AggregateAndCollect exports along levels that all sum, or all take the
\* maximum, is what the last of them makes of the collected samples directly.
THEOREM LevelByLevel ==
    ASSUME LevelKept, OverridesAreStrings, LabelByLabel
    PROVE  Spec => []StagedIsDirect
<1>1. StageInv => StagedIsDirect
  <2> SUFFICES ASSUME StageInv, NEW m \in sent, m.Operation \in {"sum", "max"},
                      Uniform(m.Operation, m.Index)
               PROVE  m.Values = aggregateMetric([Mask |-> m.Mask, Operations |-> <<>>,
                                   Operation |-> m.Operation], raw.Values)[m.Operation]
    BY DEF StagedIsDirect
  <2> DEFINE l == [Mask |-> m.Mask, Operations |-> <<>>, Operation |-> m.Operation]
  <2>1. m.Values = Direct(names, m.Operation, m.Mask, raw.Values)
    BY UniformIsSame DEF StageInv, SentDirect
  <2>2. Operations(l) = {m.Operation} /\ l.Mask = m.Mask
    <3>1. ToSet(l.Operations) = {}
      BY DEF ToSet
    <3>2. l.Operation = m.Operation /\ m.Operation # ""
      OBVIOUS
    <3> QED  BY <3>1, <3>2 DEF Operations
  <2> HIDE DEF l
  <2>3. aggregateMetric(l, raw.Values)[m.Operation] = Reduced(m.Operation, m.Mask, raw.Values)
    BY <2>2, LevelReduces
  <2>4. m.Values = aggregateMetric(l, raw.Values)[m.Operation]
    BY <2>1, <2>3, DirectIsReduced
  <2> QED  BY <2>4 DEF l
<1>2. StageInv /\ [Next]_vars => StageInv'
  BY AggregateLevelStageInv, OtherStageInv DEF Next
<1> QED  BY <1>1, <1>2, InitStageInv, PTL DEF Spec
=============================================================================
