--------------------------- MODULE CatalogProofs ---------------------------
(***************************************************************************)
(* Theorems about Catalog, for every value of its constants.               *)
(***************************************************************************)
EXTENDS Catalog, TLAPS

Warnings == [kind : {"none", "count", "overwrite"}, id : Text,
             context : Text \cup {NoContext}]

-----------------------------------------------------------------------------
(* Lemmas about the operators *)

\* The key of a message is a text.
LEMMA FormIndexType ==
    ASSUME NEW m \in Message
    PROVE  FormIndex(m) \in Text
  BY TextAssumption DEF FormIndex, FormContextIndex, Text, Message

\* A moved-from message is still a message, with nothing in it.
LEMMA MovedFromType ==
    ASSUME NEW m \in Message
    PROVE  /\ MovedFrom(m) \in Message
           /\ AfterEmplace(m) \in Message
           /\ MovedFrom(m).idPlural = <<>>
  <1>1. <<>> \in Text /\ <<>> \in Seq(Text)
    BY DEF Text
  <1> QED
    BY <1>1 DEF MovedFrom, AfterEmplace, Message

\* A catalog object is known by its members.
LEMMA CatalogTypeRecord ==
    ASSUME NEW e \in BOOLEAN, NEW w \in BOOLEAN, NEW n \in Nat, NEW s \in Nat,
           NEW p \in [Counts -> Nat], NEW map,
           map = [k \in DOMAIN map |-> map[k]], DOMAIN map \subseteq Text,
           \A k \in DOMAIN map : map[k] \in Message
    PROVE  CatalogType([error |-> e, num |-> n, plural |-> p, singular |-> s,
                        map |-> map, channel |-> w])
  BY DEF CatalogType

\* The catalog objects that exist while a header is read.
LEMMA NewObjectType ==
    ASSUME NEW n \in Nat, NEW p \in [Counts -> Nat], NEW s \in Nat, NEW w \in BOOLEAN
    PROVE  CatalogType(NewObject(n, p, s, w))
  <1>1. /\ EmptyMap = [k \in DOMAIN EmptyMap |-> EmptyMap[k]]
        /\ DOMAIN EmptyMap = {}
    BY DEF EmptyMap
  <1> QED
    BY <1>1, CatalogTypeRecord DEF NewObject

\* What a constructor starts with is an object of the right type.
LEMMA BlankType ==
    ASSUME NEW w \in BOOLEAN
    PROVE  CatalogType(Blank(w))
  <1>1. NoForms \in [Counts -> Nat]
    BY DEF NoForms
  <1> QED
    BY <1>1, NewObjectType DEF Blank

\* Silence is one of the things that the channel can be given.
LEMMA NoWarningType == NoWarning \in Warnings
  BY DEF NoWarning, Warnings, Text

\* What emplace stores of a message is a message.
LEMMA StoredType ==
    ASSUME NEW c, NEW m \in Message
    PROVE  Stored(c, m) \in Message
  BY MovedFromType DEF Stored

\* insert_message keeps a catalog well typed.
LEMMA InsertMessageType ==
    ASSUME NEW c, CatalogType(c), NEW m \in Message
    PROVE  CatalogType(InsertMessage(c, m))
  <1>1. CASE ~Accepts(c, m)
    BY <1>1 DEF InsertMessage
  <1>2. CASE Accepts(c, m)
    <2> DEFINE map == [k \in DOMAIN c.map \cup {FormIndex(m)} |->
                          IF k = FormIndex(m) THEN Stored(c, m) ELSE c.map[k]]
    <2>1. InsertMessage(c, m) = [c EXCEPT !.map = map]
      BY <1>2 DEF InsertMessage
    <2>2. /\ DOMAIN map \subseteq Text
          /\ \A k \in DOMAIN map : map[k] \in Message
          /\ map = [k \in DOMAIN map |-> map[k]]
      BY FormIndexType, StoredType DEF CatalogType
    <2> HIDE DEF map
    <2> QED
      BY <2>1, <2>2 DEF CatalogType
  <1> QED
    BY <1>1, <1>2

\* What insert_message says on the channel has the type of a warning.
LEMMA InsertWarningType ==
    ASSUME NEW c, NEW m \in Message
    PROVE  InsertWarning(c, m) \in Warnings
  <1> USE NoWarningType
  <1>1. m.id \in Text
    BY DEF Message
  <1>2. Stored(c, m).id \in Text /\ Stored(c, m).context \in Text \cup {NoContext}
    BY StoredType DEF Message
  <1> QED
    BY <1>1, <1>2 DEF InsertWarning, Warnings

-----------------------------------------------------------------------------
(* Type correctness *)

\* During a merge the target is live, the donor is given away, and no
\* constructor runs.
OneCall ==
    merging # NoMerge =>
        /\ status[merging.into] = "live"
        /\ status[merging.from] = "donor"
        /\ \A c \in Cat : status[c] # "loading"

TypeInv == TypeOK /\ OneCall

\* A message keeps its type when it is given the number of its line.
LEMMA LineTypes ==
    /\ \A m \in Message, l \in Nat : [m EXCEPT !.line = l] \in Message
    /\ \A h \in Header : [h.message EXCEPT !.line = 0] \in Message
  <1>1. \A m \in Message, l \in Nat : [m EXCEPT !.line = l] \in Message
    BY DEF Message
  <1>2. \A h \in Header : h.message \in Message
    BY DEF Header
  <1> QED
    BY <1>1, <1>2

\* Setting a flag of a catalog object.
LEMMA FlagTypes ==
    ASSUME NEW c, CatalogType(c), NEW b \in BOOLEAN
    PROVE  CatalogType([c EXCEPT !.error = b]) /\ CatalogType([c EXCEPT !.channel = b])
  <1>1. [c EXCEPT !.error = b] =
          [error |-> b, num |-> c.num, plural |-> c.plural,
           singular |-> c.singular, map |-> c.map, channel |-> c.channel]
    BY DEF CatalogType
  <1>2. [c EXCEPT !.channel = b] =
          [error |-> c.error, num |-> c.num, plural |-> c.plural,
           singular |-> c.singular, map |-> c.map, channel |-> b]
    BY DEF CatalogType
  <1> QED
    BY <1>1, <1>2, CatalogTypeRecord DEF CatalogType

\* The catalog objects that stand when the reading of a header fails.
LEMMA HeaderStageTypes ==
    ASSUME NEW h \in Header, NEW w \in BOOLEAN
    PROVE  CatalogType(WithMetadata(h, w)) /\ CatalogType(WithPluralForms(h, w))
  <1>1. h.num \in Nat /\ h.plural \in [Counts -> Nat] /\ h.plural[1] \in Nat
    BY CountsAssumption DEF Header
  <1>2. NoForms \in [Counts -> Nat]
    BY DEF NoForms
  <1> QED
    BY <1>1, <1>2, NewObjectType DEF WithMetadata, WithPluralForms

\* Changing one catalog object keeps all of them well typed.
LEMMA CatUpdateType ==
    ASSUME TypeOK, NEW c \in Cat, NEW object, CatalogType(object),
           cat' = [cat EXCEPT ![c] = object]
    PROVE  (cat = [d \in Cat |-> cat[d]] /\ \A d \in Cat : CatalogType(cat[d]))'
  BY DEF TypeOK

\* A constructor that fails, in either build, leaves a well-typed state.
LEMMA FailLoadType ==
    ASSUME TypeInv, merging = NoMerge, merging' = NoMerge, loads' \in Nat,
           NEW c \in Cat, NEW object, CatalogType(object), FailLoad(c, object)
    PROVE  TypeInv'
  <1> DEFINE left == IF NoExceptions THEN [object EXCEPT !.error = TRUE] ELSE Fresh
  <1>1. CatalogType(Fresh)
    BY BlankType DEF Fresh
  <1>2. CatalogType([object EXCEPT !.error = TRUE])
    BY FlagTypes
  <1>3. CatalogType(left) /\ cat' = [cat EXCEPT ![c] = left]
    BY <1>1, <1>2 DEF FailLoad
  <1>4. (cat = [d \in Cat |-> cat[d]] /\ \A d \in Cat : CatalogType(cat[d]))'
    BY <1>3, CatUpdateType DEF TypeInv
  <1>5. status' \in [Cat -> {"none", "loading", "live", "donor"}]
    BY DEF FailLoad, TypeInv, TypeOK
  <1>6. log' \in [Cat -> Seq(LogEntry)]
    BY DEF FailLoad, TypeInv, TypeOK
  <1>7. line' \in Nat /\ warning' \in Warnings
    BY NoWarningType DEF FailLoad
  <1> QED
    BY <1>4, <1>5, <1>6, <1>7 DEF TypeInv, TypeOK, OneCall, Warnings

\* A constructor begins in an idle state.
LEMMA StartLoadTypes ==
    ASSUME TypeInv, NEW c \in Cat, StartLoad(c)
    PROVE  merging = NoMerge /\ merging' = NoMerge /\ loads' \in Nat
  BY DEF StartLoad, Idle, TypeInv, TypeOK

\* A load that fails before its loop preserves type correctness.
LEMMA BadHeaderTypeStep ==
    ASSUME TypeInv, NEW c \in Cat, NEW w \in BOOLEAN,
           \/ LoadUnparsable(c, w)
           \/ \E h \in Header : \/ LoadBadHeader(c, h, w)
                                \/ LoadBadPluralForms(c, h, w)
                                \/ LoadBadSingular(c, h, w)
    PROVE  TypeInv'
  <1>1. CASE LoadUnparsable(c, w)
    BY <1>1, StartLoadTypes, BlankType, FailLoadType DEF LoadUnparsable
  <1>2. ASSUME NEW h \in Header,
               \/ LoadBadHeader(c, h, w)
               \/ LoadBadPluralForms(c, h, w)
               \/ LoadBadSingular(c, h, w)
        PROVE  TypeInv'
    BY <1>2, StartLoadTypes, BlankType, HeaderStageTypes, FailLoadType
       DEF LoadBadHeader, LoadBadPluralForms, LoadBadSingular
  <1> QED
    BY <1>1, <1>2

\* Reading a header preserves type correctness.
LEMMA LoadHeaderTypeStep ==
    ASSUME TypeInv, NEW c \in Cat, NEW h \in Header, NEW w \in BOOLEAN, LoadHeader(c, h, w)
    PROVE  TypeInv'
  <1> DEFINE m == [h.message EXCEPT !.line = 0]
             object == WithPluralForms(h, w)
  <1>1. m \in Message /\ CatalogType(object)
    BY LineTypes, HeaderStageTypes
  <1>2. CatalogType(InsertMessage(object, m)) /\ InsertWarning(object, m) \in Warnings
    BY <1>1, InsertMessageType, InsertWarningType
  <1>3. /\ cat' = [cat EXCEPT ![c] = InsertMessage(object, m)]
        /\ status' = [status EXCEPT ![c] = "loading"]
        /\ log' = [log EXCEPT ![c] = <<[message |-> m, fuzzy |-> FALSE]>>]
        /\ line' = 1
        /\ warning' = InsertWarning(object, m)
        /\ StartLoad(c)
    BY DEF LoadHeader
  <1> HIDE DEF m, object
  <1>4. (cat = [d \in Cat |-> cat[d]] /\ \A d \in Cat : CatalogType(cat[d]))'
    BY <1>2, <1>3, CatUpdateType DEF TypeInv
  <1>5. <<[message |-> m, fuzzy |-> FALSE]>> \in Seq(LogEntry)
    BY <1>1 DEF LogEntry
  <1>6. log' \in [Cat -> Seq(LogEntry)]
    BY <1>3, <1>5 DEF TypeInv, TypeOK
  <1>7. status' \in [Cat -> {"none", "loading", "live", "donor"}]
    BY <1>3 DEF TypeInv, TypeOK
  <1>8. line' \in Nat /\ warning' \in Warnings /\ loads' \in Nat /\ merging' = NoMerge
    BY <1>2, <1>3, StartLoadTypes
  <1> QED
    BY <1>4, <1>6, <1>7, <1>8 DEF TypeInv, TypeOK, OneCall, Warnings

\* The loading steps preserve type correctness.
LEMMA LoadTypeStep ==
    ASSUME TypeInv, NEW c \in Cat, Load(c)
    PROVE  TypeInv'
  BY FileAssumption, BadHeaderTypeStep, LoadHeaderTypeStep DEF Load

\* A catalog in its constructor is well typed, and nothing is merged.
LEMMA LoadingTypes ==
    ASSUME TypeInv, NEW c \in Cat, status[c] = "loading"
    PROVE  merging = NoMerge /\ CatalogType(cat[c]) /\ loads \in Nat
  BY DEF TypeInv, OneCall, TypeOK

\* Reading an entry preserves type correctness.
LEMMA EntryTypeStep ==
    ASSUME TypeInv, NEW c \in Cat, NEW entry \in Message, NEW fuzzy \in BOOLEAN,
           ReadEntry(c, entry, fuzzy)
    PROVE  TypeInv'
  <1> DEFINE m == [entry EXCEPT !.line = line]
  <1>1. m \in Message
    BY LineTypes DEF TypeInv, TypeOK
  <1>2. /\ cat' = [cat EXCEPT ![c] = ReadInto(c, m, fuzzy)]
        /\ warning' = IF fuzzy THEN NoWarning ELSE InsertWarning(cat[c], m)
        /\ log' = [log EXCEPT ![c] = Append(@, [message |-> m, fuzzy |-> fuzzy])]
        /\ line' = line + 1
        /\ UNCHANGED <<status, merging, loads>>
        /\ status[c] = "loading"
    BY DEF ReadEntry
  <1> HIDE DEF m
  <1>3. CatalogType(ReadInto(c, m, fuzzy))
    BY <1>1, <1>2, LoadingTypes, InsertMessageType DEF ReadInto
  <1>4. (cat = [d \in Cat |-> cat[d]] /\ \A d \in Cat : CatalogType(cat[d]))'
    BY <1>2, <1>3, CatUpdateType DEF TypeInv
  <1>5. warning' \in Warnings
    BY <1>1, <1>2, NoWarningType, InsertWarningType
  <1>6. log' \in [Cat -> Seq(LogEntry)]
    <2>1. [message |-> m, fuzzy |-> fuzzy] \in LogEntry
      BY <1>1 DEF LogEntry
    <2> QED
      BY <1>2, <2>1 DEF TypeInv, TypeOK
  <1> QED
    BY <1>2, <1>4, <1>5, <1>6, LoadingTypes DEF TypeInv, TypeOK, OneCall, Warnings

\* A round of the loop that fails preserves type correctness.
LEMMA BadEntryTypeStep ==
    ASSUME TypeInv, NEW c \in Cat, ReadUnparsable(c) \/ \E m : ReadSecondHeader(c, m)
    PROVE  TypeInv'
  <1>1. status[c] = "loading" /\ FailLoad(c, cat[c]) /\ UNCHANGED <<merging, loads>>
    BY DEF ReadSecondHeader, ReadUnparsable
  <1> QED
    BY <1>1, LoadingTypes, FailLoadType

\* The end of the loop preserves type correctness.
LEMMA FinishTypeStep ==
    ASSUME TypeInv, NEW c \in Cat, FinishLoad(c)
    PROVE  TypeInv'
  <1>1. warning' \in Warnings /\ line' \in Nat /\ merging = NoMerge
    BY NoWarningType, LoadingTypes DEF FinishLoad
  <1> QED
    BY <1>1 DEF FinishLoad, TypeInv, TypeOK, OneCall, Warnings

\* A round of the loop, and its end, keep the types.
LEMMA ReadTypeStep ==
    ASSUME TypeInv, NEW c \in Cat, Read(c)
    PROVE  TypeInv'
  BY FileAssumption, EntryTypeStep, BadEntryTypeStep, FinishTypeStep DEF Read

\* Setting the warning channel preserves type correctness.
LEMMA ChannelTypeStep ==
    ASSUME TypeInv, NEW c \in Cat, NEW w \in BOOLEAN, SetWarningChannel(c, w)
    PROVE  TypeInv'
  <1>1. cat' = [cat EXCEPT ![c] = [cat[c] EXCEPT !.channel = w]]
    BY DEF SetWarningChannel
  <1>2. CatalogType([cat[c] EXCEPT !.channel = w])
    BY FlagTypes DEF TypeInv, TypeOK
  <1>3. (cat = [d \in Cat |-> cat[d]] /\ \A d \in Cat : CatalogType(cat[d]))'
    BY <1>1, <1>2, CatUpdateType DEF TypeInv
  <1>4. warning' \in Warnings /\ merging' = NoMerge
    BY NoWarningType DEF SetWarningChannel, Idle
  <1> QED
    BY <1>3, <1>4 DEF SetWarningChannel, TypeInv, TypeOK, OneCall, Warnings

\* A merge that is rejected keeps the types.
LEMMA MergeRejectedTypeStep ==
    ASSUME TypeInv, NEW into \in Cat, NEW from \in Cat, MergeRejected(into, from)
    PROVE  TypeInv'
  <1> DEFINE b == cat[into].error \/ NoExceptions
  <1>1. cat' = [cat EXCEPT ![into] = [cat[into] EXCEPT !.error = b]]
    BY DEF MergeRejected
  <1>2. b \in BOOLEAN
    OBVIOUS
  <1>3. CatalogType([cat[into] EXCEPT !.error = b])
    BY <1>2, FlagTypes DEF TypeInv, TypeOK
  <1> HIDE DEF b
  <1>4. (cat = [d \in Cat |-> cat[d]] /\ \A d \in Cat : CatalogType(cat[d]))'
    BY <1>1, <1>3, CatUpdateType DEF TypeInv
  <1>5. warning' \in Warnings /\ merging' = NoMerge
    BY NoWarningType DEF MergeRejected, Idle
  <1> QED
    BY <1>4, <1>5 DEF MergeRejected, TypeInv, TypeOK, OneCall, Warnings

\* The beginning of a merge keeps the types.
LEMMA BeginMergeTypeStep ==
    ASSUME TypeInv, NEW into \in Cat, NEW from \in Cat, BeginMerge(into, from)
    PROVE  TypeInv'
  <1>1. /\ merging' = [into |-> into, from |-> from, todo |-> Movable(cat[from]),
                       target |-> cat[into], donor |-> cat[from]]
        /\ into # from
        /\ UNCHANGED <<cat, line, loads, log>>
        /\ status' = [status EXCEPT ![from] = "donor"]
        /\ status[into] = "live"
        /\ \A c \in Cat : status[c] # "loading"
    BY DEF BeginMerge, Idle
  <1>2. CatalogType(cat[into]) /\ CatalogType(cat[from])
    BY DEF TypeInv, TypeOK
  <1>3. Movable(cat[from]) \subseteq DOMAIN cat[from].map
    BY DEF Movable
  <1>4. MergeType(merging)'
    BY <1>1, <1>2, <1>3 DEF MergeType
  <1>5. warning' \in Warnings
    BY NoWarningType DEF BeginMerge
  <1>6. OneCall'
    BY <1>1 DEF OneCall, TypeInv, TypeOK
  <1> QED
    BY <1>1, <1>4, <1>5, <1>6 DEF TypeInv, TypeOK, Warnings

\* What a merge in progress provides to its next step.
LEMMA MergingFacts ==
    ASSUME TypeInv, merging # NoMerge
    PROVE  /\ MergeType(merging)
           /\ merging.into \in Cat /\ merging.from \in Cat
           /\ merging.into # merging.from
           /\ CatalogType(cat[merging.into]) /\ CatalogType(cat[merging.from])
           /\ status[merging.into] = "live" /\ status[merging.from] = "donor"
           /\ \A c \in Cat : status[c] # "loading"
  BY DEF TypeInv, TypeOK, OneCall, MergeType

\* Moving one message keeps the types.
LEMMA MergeEntryTypeStep ==
    ASSUME TypeInv, merging # NoMerge, NEW key \in merging.todo, MergeEntry(key)
    PROVE  TypeInv'
  <1> DEFINE into == merging.into
             from == merging.from
             m == cat[from].map[key]
             drained == Drained(cat[from], key, cat[into])
  <1>1. key \in DOMAIN cat[from].map
    BY MergingFacts DEF MergeType
  <1>2. m \in Message
    BY <1>1, MergingFacts DEF CatalogType
  <1>3. /\ cat' = [cat EXCEPT ![into] = InsertMessage(cat[into], m), ![from] = drained]
        /\ warning' = InsertWarning(cat[into], m)
        /\ log' = [log EXCEPT ![into] = Append(@, [message |-> m, fuzzy |-> FALSE])]
        /\ merging' = [merging EXCEPT !.todo = @ \ {key}]
        /\ UNCHANGED <<status, line, loads>>
    BY DEF MergeEntry
  <1>4. CatalogType(InsertMessage(cat[into], m)) /\ warning' \in Warnings
    BY <1>2, <1>3, MergingFacts, InsertMessageType, InsertWarningType
  <1>5. CatalogType(drained) /\ DOMAIN drained.map = DOMAIN cat[from].map
    <2>1. CatalogType(cat[from])
      BY MergingFacts
    <2> DEFINE map == [k \in DOMAIN cat[from].map |->
                         IF k = key /\ Accepts(cat[into], cat[from].map[k])
                         THEN MovedFrom(cat[from].map[k]) ELSE cat[from].map[k]]
    <2>2. drained = [cat[from] EXCEPT !.map = map]
      BY DEF Drained
    <2>3. /\ map = [k \in DOMAIN map |-> map[k]]
          /\ DOMAIN map = DOMAIN cat[from].map /\ DOMAIN map \subseteq Text
          /\ \A k \in DOMAIN map : map[k] \in Message
      BY <2>1, MovedFromType DEF CatalogType
    <2> HIDE DEF drained, map
    <2>4. drained = [error |-> cat[from].error, num |-> cat[from].num,
                     plural |-> cat[from].plural, singular |-> cat[from].singular,
                     map |-> map, channel |-> cat[from].channel]
      BY <2>1, <2>2 DEF CatalogType
    <2> QED
      BY <2>1, <2>3, <2>4, CatalogTypeRecord DEF CatalogType
  <1> HIDE DEF m, drained
  <1>6. (cat = [d \in Cat |-> cat[d]] /\ \A d \in Cat : CatalogType(cat[d]))'
    BY <1>3, <1>4, <1>5, MergingFacts DEF TypeInv, TypeOK
  <1>7. cat'[from] = drained
    BY <1>3, MergingFacts DEF TypeInv, TypeOK
  <1>8. MergeType(merging)'
    <2>1. merging' = [into |-> into, from |-> from, todo |-> merging.todo \ {key},
                      target |-> merging.target, donor |-> merging.donor]
      BY <1>3, MergingFacts DEF MergeType
    <2> QED
      BY <2>1, <1>5, <1>7, MergingFacts DEF MergeType
  <1>9. log' \in [Cat -> Seq(LogEntry)]
    <2>1. [message |-> m, fuzzy |-> FALSE] \in LogEntry
      BY <1>2 DEF LogEntry
    <2> QED
      BY <1>3, <2>1, MergingFacts DEF TypeInv, TypeOK
  <1>10. OneCall'
    <2>1. merging'.into = into /\ merging'.from = from
      BY <1>3, MergingFacts DEF MergeType
    <2> QED
      BY <1>3, <2>1, MergingFacts DEF OneCall
  <1> QED
    BY <1>3, <1>4, <1>6, <1>8, <1>9, <1>10 DEF TypeInv, TypeOK, Warnings

\* The end of a merge keeps the types.
LEMMA FinishMergeTypeStep ==
    ASSUME TypeInv, FinishMerge
    PROVE  TypeInv'
  <1>1. CatalogType(Fresh)
    BY BlankType DEF Fresh
  <1>2. merging.from \in Cat
    BY MergingFacts DEF FinishMerge
  <1>3. (cat = [d \in Cat |-> cat[d]] /\ \A d \in Cat : CatalogType(cat[d]))'
    BY <1>1, <1>2, CatUpdateType DEF FinishMerge, TypeInv
  <1>4. warning' \in Warnings /\ merging' = NoMerge
    BY NoWarningType DEF FinishMerge
  <1> QED
    BY <1>2, <1>3, <1>4 DEF FinishMerge, TypeInv, TypeOK, OneCall, Warnings

\* Every step keeps every variable in its type, and calls one at a time.
LEMMA TypeStep == TypeInv /\ [Next]_vars => TypeInv'
  <1> SUFFICES ASSUME TypeInv, [Next]_vars PROVE TypeInv'
    OBVIOUS
  <1>1. CASE Merge
    BY <1>1, MergeRejectedTypeStep, BeginMergeTypeStep, MergeEntryTypeStep,
       FinishMergeTypeStep DEF Merge
  <1>2. CASE UNCHANGED vars
    BY <1>2 DEF vars, TypeInv, TypeOK, OneCall, MergeType
  <1> QED
    BY <1>1, <1>2, LoadTypeStep, ReadTypeStep, ChannelTypeStep DEF Next

\* The types are right in the beginning.
LEMMA TypeInit == Init => TypeInv
  <1> SUFFICES ASSUME Init PROVE TypeInv
    OBVIOUS
  <1>1. CatalogType(Fresh)
    BY BlankType DEF Fresh
  <1>2. cat = [c \in Cat |-> cat[c]] /\ \A c \in Cat : CatalogType(cat[c])
    BY <1>1 DEF Init
  <1>3. log \in [Cat -> Seq(LogEntry)]
    BY DEF Init
  <1> QED
    BY <1>2, <1>3, NoWarningType DEF Init, TypeInv, TypeOK, OneCall, Warnings

\* In every build, with every library, the catalogs stay well typed, a merge
\* has two different catalogs, and its loop visits only keys that are there.
THEOREM TypeCorrect == Spec => []TypeOK
  <1>1. TypeInv => TypeOK
    BY DEF TypeInv
  <1> QED
    BY <1>1, TypeInit, TypeStep, PTL DEF Spec

-----------------------------------------------------------------------------
(* The inductive invariant of a catalog in use *)

\* A message that get() can index: one string or one per plural form.
Complete(c, m) ==
    Len(m.strings) \in {1, c.num} /\ m.strings # <<>> /\ m.strings[1] # <<>>

\* What is stored may be a wreck if emplace consumes its argument, but never a
\* plural one; and singular_index_ is in range unless a constructor failed.
ObjectInv(c) ==
    /\ \A k \in DOMAIN c.map : IsPlural(c.map[k]) => c.map[k].strings # <<>>
    /\ ~EmplaceConsumes => \A k \in DOMAIN c.map : Complete(c, c.map[k])
    /\ c.singular = c.plural[1]
    /\ ~NoExceptions => c.singular < c.num

UseInv == \A c \in InUse : ObjectInv(cat[c])

\* The flags have no part in it.
LEMMA FlagInv ==
    ASSUME NEW c, CatalogType(c), ObjectInv(c), NEW b \in BOOLEAN
    PROVE  ObjectInv([c EXCEPT !.error = b]) /\ ObjectInv([c EXCEPT !.channel = b])
  <1>1. /\ [c EXCEPT !.error = b].map = c.map
        /\ [c EXCEPT !.error = b].num = c.num
        /\ [c EXCEPT !.error = b].plural = c.plural
        /\ [c EXCEPT !.error = b].singular = c.singular
    BY DEF CatalogType
  <1>2. /\ [c EXCEPT !.channel = b].map = c.map
        /\ [c EXCEPT !.channel = b].num = c.num
        /\ [c EXCEPT !.channel = b].plural = c.plural
        /\ [c EXCEPT !.channel = b].singular = c.singular
    BY DEF CatalogType
  <1> QED
    BY <1>1, <1>2 DEF ObjectInv, Complete

\* A message that is accepted and left whole is complete.
LEMMA StoredComplete ==
    ASSUME NEW c, NEW m \in Message, Accepts(c, m)
    PROVE  /\ IsPlural(Stored(c, m)) => Stored(c, m).strings # <<>>
           /\ ~EmplaceConsumes => Complete(c, Stored(c, m))
  <1>1. m.strings # <<>> /\ m.strings[1] # <<>> /\ Len(m.strings) \in {1, c.num}
    <2>1. m.strings \in Seq(Text)
      BY DEF Message
    <2>2. /\ m.strings # <<>> /\ m.strings[1] # <<>>
          /\ Len(m.strings) > 1 => Len(m.strings) = c.num
      BY DEF Accepts, Translated, CountFits
    <2>3. Len(m.strings) \in Nat /\ Len(m.strings) # 0
      BY <2>1, <2>2
    <2>4. Len(m.strings) = 1 \/ Len(m.strings) > 1
      <3>1. \A n \in Nat : n # 0 => n = 1 \/ n > 1
        OBVIOUS
      <3> QED
        BY <2>3, <3>1, Zenon
    <2> QED
      BY <2>2, <2>4, Zenon
  <1>2. Stored(c, m) = m \/ (EmplaceConsumes /\ Stored(c, m) = MovedFrom(m))
    BY DEF Stored, AfterEmplace
  <1> QED
    BY <1>1, <1>2, MovedFromType DEF IsPlural, Complete

\* insert_message keeps an object as lookups need it.
LEMMA InsertInv ==
    ASSUME NEW c, CatalogType(c), ObjectInv(c), NEW m \in Message
    PROVE  ObjectInv(InsertMessage(c, m))
  <1>1. CASE ~Accepts(c, m)
    BY <1>1 DEF InsertMessage
  <1>2. CASE Accepts(c, m)
    <2> DEFINE map == [k \in DOMAIN c.map \cup {FormIndex(m)} |->
                          IF k = FormIndex(m) THEN Stored(c, m) ELSE c.map[k]]
               after == [c EXCEPT !.map = map]
    <2>1. InsertMessage(c, m) = after
      BY <1>2 DEF InsertMessage
    <2>2. \A k \in DOMAIN map :
             map[k] = Stored(c, m) \/ (k \in DOMAIN c.map /\ map[k] = c.map[k])
      OBVIOUS
    <2> HIDE DEF map
    <2>3. /\ after.map = map /\ after.num = c.num
          /\ after.plural = c.plural /\ after.singular = c.singular
      BY DEF CatalogType
    <2> HIDE DEF after
    <2>4. /\ \A k \in DOMAIN map : IsPlural(map[k]) => map[k].strings # <<>>
          /\ ~EmplaceConsumes => \A k \in DOMAIN map : Complete(c, map[k])
      BY <1>2, <2>2, StoredComplete DEF ObjectInv
    <2> QED
      BY <2>1, <2>3, <2>4 DEF ObjectInv, Complete
  <1> QED
    BY <1>1, <1>2

\* The objects that exist while a header is read.
LEMMA NewObjectInv ==
    ASSUME NEW n \in Nat, NEW p \in [Counts -> Nat], NEW w \in BOOLEAN,
           ~NoExceptions => p[1] < n
    PROVE  ObjectInv(NewObject(n, p, p[1], w))
  BY DEF ObjectInv, NewObject, EmptyMap

\* A failed constructor leaves a catalog in use only without exceptions.
LEMMA FailLoadInv ==
    ASSUME TypeInv, UseInv, NEW c \in Cat, NEW object, CatalogType(object),
           NoExceptions => ObjectInv(object), FailLoad(c, object)
    PROVE  UseInv'
  <1>1. \A d \in Cat \ {c} : cat'[d] = cat[d] /\ status'[d] = status[d]
    BY DEF FailLoad, TypeInv, TypeOK
  <1>2. CASE NoExceptions
    <2>1. cat'[c] = [object EXCEPT !.error = TRUE]
      BY <1>2 DEF FailLoad, TypeInv, TypeOK
    <2>2. ObjectInv(cat'[c])
      BY <1>2, <2>1, FlagInv
    <2>3. \A d \in InUse' : d = c \/ (d \in InUse /\ cat'[d] = cat[d])
      BY <1>1 DEF InUse
    <2>4. \A d \in InUse' : ObjectInv(cat'[d])
      BY <2>2, <2>3 DEF UseInv
    <2> QED
      BY <2>4 DEF UseInv
  <1>3. CASE ~NoExceptions
    <2>1. status'[c] = "none"
      BY <1>3 DEF FailLoad, TypeInv, TypeOK
    <2> QED
      BY <1>1, <2>1 DEF UseInv, InUse
  <1> QED
    BY <1>2, <1>3

\* Every action keeps the invariant of the catalogs in use.
LEMMA UseStep == TypeInv /\ UseInv /\ [Next]_vars => UseInv'
  <1> SUFFICES ASSUME TypeInv, UseInv, [Next]_vars PROVE UseInv'
    OBVIOUS
  <1>0. \A c \in Cat : CatalogType(cat[c])
    BY DEF TypeInv, TypeOK
  <1>1. ASSUME NEW c \in Cat, Load(c)
        PROVE  UseInv'
    <2>1. PICK w \in BOOLEAN :
             \/ LoadUnparsable(c, w)
             \/ \E h \in Headers : \/ LoadBadHeader(c, h, w)
                                   \/ LoadBadPluralForms(c, h, w)
                                   \/ LoadBadSingular(c, h, w)
                                   \/ LoadHeader(c, h, w)
      BY <1>1 DEF Load
    <2>2. NoForms \in [Counts -> Nat] /\ NoForms[1] = 0
      BY CountsAssumption DEF NoForms
    <2>3. ASSUME NEW h \in Headers
          PROVE  /\ h.num \in Nat /\ h.plural \in [Counts -> Nat]
                 /\ h.plural[1] \in Nat
      BY FileAssumption, CountsAssumption DEF Header
    <2>4. NoExceptions => ObjectInv(Blank(w))
      BY <2>2, NewObjectInv DEF Blank
    <2>5. ASSUME NEW h \in Headers
          PROVE  NoExceptions => /\ ObjectInv(WithMetadata(h, w))
                                 /\ ObjectInv(WithPluralForms(h, w))
      BY <2>2, <2>3, NewObjectInv DEF WithMetadata, WithPluralForms
    <2>6. CASE LoadUnparsable(c, w)
      BY <2>4, <2>6, BlankType, FailLoadInv DEF LoadUnparsable
    <2>7. ASSUME NEW h \in Headers,
                 \/ LoadBadHeader(c, h, w)
                 \/ LoadBadPluralForms(c, h, w)
                 \/ LoadBadSingular(c, h, w)
          PROVE  UseInv'
      BY <2>4, <2>5, <2>7, BlankType, HeaderStageTypes, FileAssumption, FailLoadInv
         DEF LoadBadHeader, LoadBadPluralForms, LoadBadSingular
    <2>8. ASSUME NEW h \in Headers, LoadHeader(c, h, w)
          PROVE  UseInv'
      <3> DEFINE m == [h.message EXCEPT !.line = 0]
                 object == WithPluralForms(h, w)
      <3>1. /\ cat' = [cat EXCEPT ![c] = InsertMessage(object, m)]
            /\ status' = [status EXCEPT ![c] = "loading"]
            /\ h.plural[1] < h.num
        BY <2>8 DEF LoadHeader, SingularFits
      <3>2. m \in Message /\ CatalogType(object)
        BY LineTypes, FileAssumption, HeaderStageTypes
      <3>3. ObjectInv(object)
        BY <2>3, <3>1, NewObjectInv DEF WithPluralForms
      <3> HIDE DEF m, object
      <3>4. ObjectInv(InsertMessage(object, m))
        BY <3>2, <3>3, InsertInv
      <3>5. \A d \in Cat : d # c => cat'[d] = cat[d] /\ status'[d] = status[d]
        BY <3>1 DEF TypeInv, TypeOK
      <3>6. cat'[c] = InsertMessage(object, m)
        BY <3>1 DEF TypeInv, TypeOK
      <3>7. \A d \in InUse' : ObjectInv(cat'[d])
        BY <3>4, <3>5, <3>6 DEF InUse, UseInv
      <3> QED
        BY <3>7 DEF UseInv
    <2> QED
      BY <2>1, <2>6, <2>7, <2>8
  <1>2. ASSUME NEW c \in Cat, Read(c)
        PROVE  UseInv'
    <2>1. status[c] = "loading"
      BY <1>2 DEF Read, ReadEntry, ReadSecondHeader, ReadUnparsable, FinishLoad
    <2>2. CatalogType(cat[c]) /\ ObjectInv(cat[c])
      BY <1>0, <2>1 DEF UseInv, InUse
    <2>3. ASSUME NEW entry \in Messages, NEW fuzzy \in BOOLEAN,
                 ReadEntry(c, entry, fuzzy)
          PROVE  UseInv'
      <3> DEFINE m == [entry EXCEPT !.line = line]
      <3>1. m \in Message
        BY LineTypes, FileAssumption DEF TypeInv, TypeOK
      <3>2. cat' = [cat EXCEPT ![c] = ReadInto(c, m, fuzzy)] /\ status' = status
        BY <2>3 DEF ReadEntry
      <3> HIDE DEF m
      <3>3. ObjectInv(ReadInto(c, m, fuzzy))
        BY <2>2, <3>1, InsertInv DEF ReadInto
      <3>4. \A d \in Cat : cat'[d] = IF d = c THEN ReadInto(c, m, fuzzy) ELSE cat[d]
        BY <3>2 DEF TypeInv, TypeOK
      <3>5. \A d \in InUse' : ObjectInv(cat'[d])
        BY <3>2, <3>3, <3>4 DEF InUse, UseInv
      <3> QED
        BY <3>5 DEF UseInv
    <2>4. CASE (\E m \in Messages : ReadSecondHeader(c, m)) \/ ReadUnparsable(c)
      BY <2>2, <2>4, FailLoadInv DEF ReadSecondHeader, ReadUnparsable
    <2>5. CASE FinishLoad(c)
      <3>1. InUse' = InUse /\ cat' = cat
        BY <2>1, <2>5 DEF FinishLoad, InUse, TypeInv, TypeOK
      <3> QED
        BY <3>1 DEF UseInv
    <2> QED
      BY <1>2, <2>3, <2>4, <2>5 DEF Read
  <1>3. ASSUME NEW c \in Cat, NEW w \in BOOLEAN, SetWarningChannel(c, w)
        PROVE  UseInv'
    <2>1. /\ cat' = [cat EXCEPT ![c] = [cat[c] EXCEPT !.channel = w]]
          /\ status' = status /\ status[c] = "live"
      BY <1>3 DEF SetWarningChannel
    <2>2. ObjectInv([cat[c] EXCEPT !.channel = w])
      BY <1>0, <2>1, FlagInv DEF UseInv, InUse
    <2>3. \A d \in Cat : cat'[d] = IF d = c THEN [cat[c] EXCEPT !.channel = w] ELSE cat[d]
      BY <2>1 DEF TypeInv, TypeOK
    <2>4. \A d \in InUse' : ObjectInv(cat'[d])
      BY <2>1, <2>2, <2>3 DEF InUse, UseInv
    <2> QED
      BY <2>4 DEF UseInv
  <1>4. CASE Merge
    <2>1. ASSUME NEW into \in Cat, NEW from \in Cat, MergeRejected(into, from)
          PROVE  UseInv'
      <3> DEFINE b == cat[into].error \/ NoExceptions
                 object == [cat[into] EXCEPT !.error = b]
      <3>1. cat' = [cat EXCEPT ![into] = object] /\ status' = status /\ status[into] = "live"
        BY <2>1 DEF MergeRejected
      <3>2. ObjectInv(object)
        BY <1>0, <3>1, FlagInv DEF UseInv, InUse
      <3> HIDE DEF object
      <3>3. \A d \in Cat : cat'[d] = IF d = into THEN object ELSE cat[d]
        BY <3>1 DEF TypeInv, TypeOK
      <3>4. \A d \in InUse' : ObjectInv(cat'[d])
        BY <3>1, <3>2, <3>3 DEF InUse, UseInv
      <3> QED
        BY <3>4 DEF UseInv
    <2>2. ASSUME NEW into \in Cat, NEW from \in Cat, BeginMerge(into, from)
          PROVE  UseInv'
      <3>1. cat' = cat /\ InUse' \subseteq InUse
        BY <2>2 DEF BeginMerge, InUse, TypeInv, TypeOK
      <3>2. \A d \in InUse' : ObjectInv(cat'[d])
        BY <3>1 DEF UseInv
      <3> QED
        BY <3>2 DEF UseInv
    <2>3. ASSUME merging # NoMerge, NEW key \in merging.todo, MergeEntry(key)
          PROVE  UseInv'
      <3> DEFINE into == merging.into
                 from == merging.from
                 m == cat[from].map[key]
      <3>1. m \in Message
        BY <2>3, MergingFacts DEF MergeType, CatalogType
      <3>2. ObjectInv(cat[into])
        BY <2>3, MergingFacts DEF UseInv, InUse
      <3>3. ObjectInv(InsertMessage(cat[into], m))
        BY <2>3, <3>1, <3>2, MergingFacts, InsertInv
      <3>4. /\ status' = status /\ status[from] = "donor"
            /\ cat' = [cat EXCEPT ![into] = InsertMessage(cat[into], m),
                                  ![from] = Drained(cat[from], key, cat[into])]
        BY <2>3, MergingFacts DEF MergeEntry
      <3> HIDE DEF m
      <3>5. \A d \in Cat : d # from =>
               cat'[d] = IF d = into THEN InsertMessage(cat[into], m) ELSE cat[d]
        BY <3>4 DEF TypeInv, TypeOK
      <3>6. InUse' = InUse /\ from \notin InUse
        BY <3>4 DEF InUse
      <3>7. \A d \in InUse' : ObjectInv(cat'[d])
        BY <3>3, <3>5, <3>6 DEF InUse, UseInv
      <3> QED
        BY <3>7 DEF UseInv
    <2>4. CASE FinishMerge
      <3>1. /\ merging.from \in Cat
            /\ cat' = [cat EXCEPT ![merging.from] = Fresh]
            /\ status' = [status EXCEPT ![merging.from] = "none"]
        BY <2>4, MergingFacts DEF FinishMerge
      <3>2. \A d \in InUse' : d \in InUse /\ cat'[d] = cat[d]
        BY <3>1 DEF InUse, TypeInv, TypeOK
      <3>3. \A d \in InUse' : ObjectInv(cat'[d])
        BY <3>2 DEF UseInv
      <3> QED
        BY <3>3 DEF UseInv
    <2> QED
      BY <1>4, <2>1, <2>2, <2>3, <2>4 DEF Merge
  <1>5. CASE UNCHANGED vars
    <2>1. cat' = cat /\ InUse' = InUse
      BY <1>5 DEF vars, InUse
    <2> QED
      BY <2>1 DEF UseInv
  <1> QED
    BY <1>1, <1>2, <1>3, <1>4, <1>5 DEF Next

\* No catalog is in use in the beginning.
LEMMA UseInit == Init => UseInv
  BY DEF Init, UseInv, InUse

\* The invariant from which the theorems below follow.
LEMMA Invariant == Spec => [](TypeInv /\ UseInv)
  BY TypeInit, TypeStep, UseInit, UseStep, PTL DEF Spec
-----------------------------------------------------------------------------
(* The theorems *)

\* With a library whose emplace leaves its argument alone when the key is
\* present, what the debug build validates after a load holds at all times.
THEOREM StoredMessagesWellFormed ==
    ASSUME ~EmplaceConsumes
    PROVE  Spec => []StoredWellFormed
  <1>1. TypeInv /\ UseInv => StoredWellFormed
    BY DEF UseInv, ObjectInv, Complete, StoredWellFormed
  <1> QED
    BY <1>1, Invariant, PTL

\* The cached singular_index_ is the plural form of n = 1, in every build.
THEOREM SingularCacheCorrect == Spec => []SingularIsFormOfOne
  <1>1. TypeInv /\ UseInv => SingularIsFormOfOne
    BY DEF UseInv, ObjectInv, SingularIsFormOfOne
  <1> QED
    BY <1>1, Invariant, PTL

\* A string of a message is defined where the index is in range.
LEMMA StringAtDefined ==
    ASSUME NEW m \in Message, NEW i \in Nat, i < Len(m.strings)
    PROVE  StringAt(m, i) # Undefined
  <1>1. m.strings \in Seq(Text)
    BY DEF Message
  <1>2. m.strings[i + 1] \in Text
    BY <1>1
  <1> QED
    BY <1>2, TextAssumption DEF StringAt

\* The index GetPlural arrives at is in range as soon as there is one string.
LEMMA GetPluralDefined ==
    ASSUME NEW c, CatalogType(c), NEW m \in Message, m.strings # <<>>, NEW n \in Counts
    PROVE  GetPlural(c, m, n) # Undefined
  <1> DEFINE i == IF n = 1 THEN c.singular ELSE c.plural[n]
             j == IF i >= Len(m.strings) THEN 0 ELSE i
  <1>1. m.strings \in Seq(Text)
    BY DEF Message
  <1>2. Len(m.strings) \in Nat /\ Len(m.strings) > 0
    BY <1>1
  <1>3. i \in Nat
    BY DEF CatalogType
  <1> HIDE DEF i
  <1>4. j \in Nat /\ j < Len(m.strings)
    BY <1>2, <1>3
  <1> HIDE DEF j
  <1>5. StringAt(m, j) # Undefined
    BY <1>4, StringAtDefined
  <1> QED
    BY <1>5 DEF GetPlural, i, j

\* ngettext and npgettext are defined in every build and with every library,
\* though what is stored need not be well formed: a message without strings is
\* never a plural one.
THEOREM PluralLookupsDefined == Spec => []PluralLookupDefined
  <1>1. ASSUME TypeInv, UseInv
        PROVE  PluralLookupDefined
    <2>1. ASSUME NEW c \in InUse, NEW key, NEW id \in Text, NEW n \in Counts
          PROVE  FindPlural(cat[c], key, n, id, id) # Undefined
      <3>1. CatalogType(cat[c]) /\ ObjectInv(cat[c])
        BY <1>1 DEF TypeInv, TypeOK, UseInv, InUse
      <3>2. CASE key \in DOMAIN cat[c].map /\ IsPlural(cat[c].map[key])
        <4>1. cat[c].map[key] \in Message /\ cat[c].map[key].strings # <<>>
          BY <3>1, <3>2 DEF CatalogType, ObjectInv
        <4> QED
          BY <3>1, <3>2, <4>1, GetPluralDefined DEF FindPlural
      <3>3. CASE ~(key \in DOMAIN cat[c].map /\ IsPlural(cat[c].map[key]))
        <4>1. FindPlural(cat[c], key, n, id, id) = id
          BY <3>3 DEF FindPlural
        <4> QED
          BY <4>1, TextAssumption
      <3> QED
        BY <3>2, <3>3
    <2> QED
      BY <2>1, TextAssumption DEF PluralLookupDefined, NGettext, NPGettext
  <1> QED
    BY <1>1, Invariant, PTL

\* gettext and pgettext are defined in the default build, with a library whose
\* emplace leaves its argument alone.
THEOREM LookupsDefined ==
    ASSUME ~EmplaceConsumes, ~NoExceptions
    PROVE  Spec => []GettextDefined
  <1>1. ASSUME TypeInv, UseInv
        PROVE  GettextDefined
    <2>1. ASSUME NEW c \in InUse, NEW key, NEW id \in Text
          PROVE  Find(cat[c], key, id) # Undefined
      <3> DEFINE m == cat[c].map[key]
      <3>1. CatalogType(cat[c]) /\ ObjectInv(cat[c])
        BY <1>1 DEF TypeInv, TypeOK, UseInv, InUse
      <3>2. CASE key \in DOMAIN cat[c].map
        <4>1. m \in Message /\ Complete(cat[c], m)
          BY <3>1, <3>2 DEF CatalogType, ObjectInv
        <4>2. cat[c].singular \in Nat /\ cat[c].num \in Nat /\ cat[c].singular < cat[c].num
          BY <3>1 DEF CatalogType, ObjectInv
        <4>3. CASE Len(m.strings) = 1
          <5>1. StringAt(m, 0) # Undefined
            BY <4>1, <4>3, StringAtDefined
          <5> QED
            BY <3>2, <4>3, <5>1 DEF Find, Get
        <4>4. CASE Len(m.strings) = cat[c].num /\ Len(m.strings) # 1
          BY <3>2, <4>1, <4>2, <4>4, StringAtDefined DEF Find, Get
        <4> QED
          BY <4>1, <4>3, <4>4 DEF Complete
      <3>3. CASE key \notin DOMAIN cat[c].map
        BY <3>3, TextAssumption DEF Find
      <3> QED
        BY <3>2, <3>3
    <2> QED
      BY <2>1, TextAssumption DEF GettextDefined, Gettext, PGettext
  <1> QED
    BY <1>1, Invariant, PTL
=============================================================================
