------------------------ MODULE CatalogHistoryProofs ------------------------
(***************************************************************************)
(* Theorems about what a catalog holds: which of the messages it was given *)
(* are in it, under which keys, and what merging makes of two catalogs;    *)
(* and that the catalogs implement the dictionaries of module Dictionary.  *)
(* They are about a library whose emplace leaves its argument alone when   *)
(* the key is present; the run duplicate_msgid shows what becomes of a     *)
(* catalog otherwise.                                                      *)
(***************************************************************************)
EXTENDS CatalogProofs, SequenceTheorems

-----------------------------------------------------------------------------
(* The inductive invariant *)

FirstMessages == {h.message : h \in {g \in Headers : g.message.id = <<>>}}
Entries == {m \in Messages : m.id # <<>>}

\* The messages that can come out of a file and get as far as insert_message.
Given == {[f EXCEPT !.line = l] : f \in FirstMessages \cup Entries, l \in Nat}

\* Every message is filed under its own key, came from a file, and is complete.
Filed(c) ==
    \A k \in DOMAIN c.map :
        k = FormIndex(c.map[k]) /\ c.map[k] \in Given /\ Complete(c, c.map[k])

\* Entry e of a history takes effect on catalog object c.
TakesEffect(c, e) == ~e.fuzzy /\ Complete(c, e.message)

\* Position i of the history is the last that takes effect on key k.
LastFor(c, history, k, i) ==
    /\ i \in DOMAIN history
    /\ TakesEffect(c, history[i]) /\ FormIndex(history[i].message) = k
    /\ \A j \in DOMAIN history :
         TakesEffect(c, history[j]) /\ FormIndex(history[j].message) = k => j <= i

\* The map is what the history says.
Recorded(c, history) ==
    /\ \A i \in DOMAIN history : history[i].message \in Given
    /\ \A i \in DOMAIN history :
         TakesEffect(c, history[i]) => FormIndex(history[i].message) \in DOMAIN c.map
    /\ \A k \in DOMAIN c.map : \E i \in DOMAIN history :
         LastFor(c, history, k, i) /\ c.map[k] = history[i].message

Sound(c, history) == Filed(c) /\ Recorded(c, history)

\* The catalogs in use are sound, and a catalog that is not there is blank.
StoreInv ==
    /\ \A c \in InUse : Sound(cat[c], log[c])
    /\ \A c \in Cat : status[c] = "none" => cat[c] = Fresh /\ log[c] = <<>>

\* What m, merging, has moved so far.
Moved(m) == Movable(m.donor) \ m.todo

\* A merge in progress: what is still to be moved is in the donor as it was, and
\* the target has what has been moved and nothing else of the donor.
MergeInv ==
    merging # NoMerge =>
        /\ Filed(merging.target) /\ Filed(merging.donor)
        /\ merging.target.num = merging.donor.num
        /\ merging.todo \subseteq Movable(merging.donor)
        /\ DOMAIN cat[merging.from].map = DOMAIN merging.donor.map
        /\ \A k \in merging.todo : cat[merging.from].map[k] = merging.donor.map[k]
        /\ cat[merging.into] = [merging.target EXCEPT !.map = cat[merging.into].map]
        /\ DOMAIN cat[merging.into].map = DOMAIN merging.target.map \cup Moved(merging)
        /\ \A k \in DOMAIN cat[merging.into].map :
             cat[merging.into].map[k] = IF k \in Moved(merging)
                                        THEN merging.donor.map[k]
                                        ELSE merging.target.map[k]

-----------------------------------------------------------------------------
(* Lemmas about the operators *)

\* A given message is a message and has strings.
LEMMA GivenFacts ==
    ASSUME NEW m \in Given
    PROVE  /\ m \in Message
           /\ m.strings \in Seq(Text) /\ m.strings # <<>> /\ m.strings[1] \in Text
  <1>1. PICK f \in FirstMessages \cup Entries, l \in Nat : m = [f EXCEPT !.line = l]
    BY DEF Given
  <1>2. f \in Message /\ f.strings # <<>>
    <2>1. CASE f \in Entries
      BY <2>1, FileAssumption DEF Entries
    <2>2. CASE f \in FirstMessages
      <3>1. PICK h \in Headers : f = h.message
        BY <2>2 DEF FirstMessages
      <3>2. h \in Header /\ h.message.strings # <<>>
        BY FileAssumption
      <3> QED
        BY <3>1, <3>2 DEF Header
    <2> QED
      BY <1>1, <2>1, <2>2
  <1>3. m \in Message /\ m.strings # <<>>
    BY <1>1, <1>2 DEF Message
  <1>4. m.strings \in Seq(Text)
    BY <1>3 DEF Message
  <1> QED
    BY <1>3, <1>4

\* What the constructor passes to insert_message is given.
LEMMA ReadIsGiven ==
    /\ \A h \in Headers : MetadataRead(h) => [h.message EXCEPT !.line = 0] \in Given
    /\ \A m \in Messages, l \in Nat : m.id # <<>> => [m EXCEPT !.line = l] \in Given
  <1>1. ASSUME NEW h \in Headers, MetadataRead(h)
        PROVE  [h.message EXCEPT !.line = 0] \in Given
    <2>1. h.message \in FirstMessages
      BY <1>1 DEF MetadataRead, FirstMessages
    <2> QED
      BY <2>1 DEF Given
  <1>2. ASSUME NEW m \in Messages, NEW l \in Nat, m.id # <<>>
        PROVE  [m EXCEPT !.line = l] \in Given
    BY <1>2 DEF Given, Entries
  <1> QED
    BY <1>1, <1>2

\* insert_message accepts the complete messages and no other.
LEMMA AcceptsComplete ==
    ASSUME NEW c, NEW m \in Given
    PROVE  Accepts(c, m) <=> Complete(c, m)
  <1>1. m \in Message /\ m.strings \in Seq(Text) /\ m.strings # <<>>
    BY GivenFacts
  <1>2. Accepts(c, m) => Complete(c, m)
    <2>1. Len(m.strings) \in Nat /\ Len(m.strings) # 0
      BY <1>1
    <2>2. \A n \in Nat : n # 0 => n = 1 \/ n > 1
      OBVIOUS
    <2>3. Len(m.strings) = 1 \/ Len(m.strings) > 1
      BY <2>1, <2>2, Zenon
    <2> QED
      BY <1>1, <2>3, Zenon DEF Accepts, Translated, CountFits, Complete
  <1>3. Complete(c, m) => Accepts(c, m)
    <2>1. ~(1 > 1)
      OBVIOUS
    <2> QED
      BY <2>1, Zenon DEF Accepts, Translated, CountFits, Complete
  <1> QED
    BY <1>2, <1>3

\* The map with message m under its key.
With(map, m) ==
    [k \in DOMAIN map \cup {FormIndex(m)} |-> IF k = FormIndex(m) THEN m ELSE map[k]]

\* What insert_message does, where emplace leaves its argument alone.
LEMMA InsertCases ==
    ASSUME ~EmplaceConsumes, NEW c, CatalogType(c), NEW m \in Given
    PROVE  /\ ~Complete(c, m) => InsertMessage(c, m) = c
           /\ Complete(c, m) =>
                /\ InsertMessage(c, m) = [c EXCEPT !.map = With(c.map, m)]
                /\ InsertMessage(c, m).map = With(c.map, m)
           /\ InsertMessage(c, m).num = c.num
           /\ InsertMessage(c, m) = [c EXCEPT !.map = InsertMessage(c, m).map]
  <1>1. Stored(c, m) = m
    BY DEF Stored, AfterEmplace
  <1>2. Complete(c, m) => InsertMessage(c, m) = [c EXCEPT !.map = With(c.map, m)]
    BY <1>1, AcceptsComplete DEF InsertMessage, With
  <1>3. ~Complete(c, m) => InsertMessage(c, m) = c
    BY AcceptsComplete DEF InsertMessage
  <1>4. ASSUME NEW map
        PROVE  /\ [c EXCEPT !.map = map].map = map
               /\ [c EXCEPT !.map = map].num = c.num
               /\ c = [c EXCEPT !.map = c.map]
    BY DEF CatalogType
  <1> QED
    BY <1>2, <1>3, <1>4

\* A history with one more entry.
LEMMA AppendFacts ==
    ASSUME NEW h \in Seq(LogEntry), NEW e \in LogEntry
    PROVE  /\ DOMAIN h = 1..Len(h) /\ Len(h) \in Nat
           /\ Append(h, e) \in Seq(LogEntry)
           /\ DOMAIN Append(h, e) = DOMAIN h \cup {Len(h) + 1}
           /\ \A i \in DOMAIN h : Append(h, e)[i] = h[i] /\ i <= Len(h) + 1
           /\ Append(h, e)[Len(h) + 1] = e
           /\ Len(h) + 1 \notin DOMAIN h
  OBVIOUS

\* An entry that takes no effect leaves a catalog sound.
LEMMA SoundSkip ==
    ASSUME NEW c, NEW h \in Seq(LogEntry), Sound(c, h),
           NEW e \in LogEntry, e.message \in Given, ~TakesEffect(c, e)
    PROVE  Sound(c, Append(h, e))
  <1> DEFINE g == Append(h, e)
             last == Len(h) + 1
  <1>1. /\ DOMAIN g = DOMAIN h \cup {last} /\ g[last] = e
        /\ \A i \in DOMAIN h : g[i] = h[i]
    BY AppendFacts
  <1> HIDE DEF g, last
  <1>2. \A k, i : LastFor(c, h, k, i) => LastFor(c, g, k, i) /\ g[i] = h[i]
    BY <1>1 DEF LastFor
  <1>3. /\ \A i \in DOMAIN g : g[i].message \in Given
        /\ \A i \in DOMAIN g :
             TakesEffect(c, g[i]) => FormIndex(g[i].message) \in DOMAIN c.map
    BY <1>1 DEF Sound, Recorded
  <1>4. ASSUME NEW k \in DOMAIN c.map
        PROVE  \E i \in DOMAIN g : LastFor(c, g, k, i) /\ c.map[k] = g[i].message
    <2>1. PICK i \in DOMAIN h : LastFor(c, h, k, i) /\ c.map[k] = h[i].message
      BY DEF Sound, Recorded
    <2> QED
      BY <2>1, <1>1, <1>2
  <1>5. Recorded(c, g)
    BY <1>3, <1>4 DEF Recorded
  <1> QED
    BY <1>5 DEF Sound, g

\* An entry that takes effect is in the map afterwards, and no entry before it
\* counts for its key any more.
LEMMA SoundPut ==
    ASSUME NEW c, NEW h \in Seq(LogEntry), Sound(c, h),
           NEW e \in LogEntry, e.message \in Given, TakesEffect(c, e),
           NEW after, after.num = c.num, after.map = With(c.map, e.message)
    PROVE  Sound(after, Append(h, e))
  <1> DEFINE g == Append(h, e)
             last == Len(h) + 1
             key == FormIndex(e.message)
  <1>1. /\ DOMAIN g = DOMAIN h \cup {last} /\ g[last] = e
        /\ \A i \in DOMAIN h : g[i] = h[i] /\ i <= last
        /\ last <= last /\ last \notin DOMAIN h
    BY AppendFacts
  <1>2. \A d : TakesEffect(after, d) <=> TakesEffect(c, d)
    BY DEF TakesEffect, Complete
  <1>3. \A m : Complete(after, m) <=> Complete(c, m)
    BY DEF Complete
  <1>4. /\ DOMAIN after.map = DOMAIN c.map \cup {key}
        /\ after.map[key] = e.message
        /\ \A k \in DOMAIN c.map : k # key => after.map[k] = c.map[k]
    BY DEF With
  <1> HIDE DEF g, last, key
  <1>5. Filed(after)
    <2>1. key = FormIndex(e.message) /\ Complete(c, e.message)
      BY DEF key, TakesEffect
    <2> QED
      BY <1>3, <1>4, <2>1 DEF Sound, Filed
  <1>6. LastFor(after, g, key, last)
    BY <1>1, <1>2 DEF LastFor, key
  <1>7. \A k, i : k # key /\ LastFor(c, h, k, i) => LastFor(after, g, k, i) /\ g[i] = h[i]
    BY <1>1, <1>2 DEF LastFor, key
  <1>8. /\ \A i \in DOMAIN g : g[i].message \in Given
        /\ \A i \in DOMAIN g :
             TakesEffect(after, g[i]) => FormIndex(g[i].message) \in DOMAIN after.map
    BY <1>1, <1>2, <1>4 DEF Sound, Recorded, key
  <1>9. ASSUME NEW k \in DOMAIN after.map
        PROVE  \E i \in DOMAIN g : LastFor(after, g, k, i) /\ after.map[k] = g[i].message
    <2>1. CASE k = key
      BY <2>1, <1>1, <1>4, <1>6
    <2>2. CASE k # key
      <3>1. PICK i \in DOMAIN h : LastFor(c, h, k, i) /\ c.map[k] = h[i].message
        BY <2>2, <1>4 DEF Sound, Recorded
      <3> QED
        BY <2>2, <3>1, <1>1, <1>4, <1>7
    <2> QED
      BY <2>1, <2>2
  <1>10. Recorded(after, g)
    BY <1>8, <1>9 DEF Recorded
  <1> QED
    BY <1>5, <1>10 DEF Sound, g

\* insert_message keeps a catalog sound.
LEMMA SoundInsert ==
    ASSUME ~EmplaceConsumes, NEW c, CatalogType(c), NEW h \in Seq(LogEntry),
           Sound(c, h), NEW m \in Given
    PROVE  Sound(InsertMessage(c, m), Append(h, [message |-> m, fuzzy |-> FALSE]))
  <1> DEFINE e == [message |-> m, fuzzy |-> FALSE]
  <1>1. /\ e \in LogEntry /\ e.message = m
        /\ TakesEffect(c, e) <=> Complete(c, m)
    BY GivenFacts DEF LogEntry, TakesEffect
  <1> HIDE DEF e
  <1>2. CASE Complete(c, m)
    BY <1>1, <1>2, InsertCases, SoundPut DEF e
  <1>3. CASE ~Complete(c, m)
    BY <1>1, <1>3, InsertCases, SoundSkip DEF e
  <1> QED
    BY <1>2, <1>3

\* The flags have no part in it, and a catalog without messages is sound.
LEMMA SoundFlags ==
    ASSUME NEW c, CatalogType(c), NEW h, Sound(c, h), NEW b \in BOOLEAN
    PROVE  Sound([c EXCEPT !.error = b], h) /\ Sound([c EXCEPT !.channel = b], h)
  <1>1. ASSUME NEW d, d.map = c.map, d.num = c.num
        PROVE  Sound(d, h)
    <2>1. \A m : Complete(d, m) <=> Complete(c, m)
      BY <1>1 DEF Complete
    <2>2. \A k, i : LastFor(d, h, k, i) <=> LastFor(c, h, k, i)
      BY <2>1 DEF LastFor, TakesEffect
    <2> QED
      BY <1>1, <2>1, <2>2 DEF Sound, Filed, Recorded, TakesEffect
  <1>2. /\ [c EXCEPT !.error = b].map = c.map /\ [c EXCEPT !.error = b].num = c.num
        /\ [c EXCEPT !.channel = b].map = c.map /\ [c EXCEPT !.channel = b].num = c.num
    BY DEF CatalogType
  <1> QED
    BY <1>1, <1>2

\* A catalog that holds nothing is sound with an empty history.
LEMMA SoundEmpty ==
    ASSUME NEW c, DOMAIN c.map = {}
    PROVE  Sound(c, <<>>)
  BY DEF Sound, Filed, Recorded

-----------------------------------------------------------------------------
(* The invariant is inductive *)

\* A step that changes one catalog, and perhaps a donor, keeps the others sound.
LEMMA StoreFrame ==
    ASSUME StoreInv, NEW c \in Cat,
           \A d \in Cat \ {c} : \/ status'[d] = "donor"
                                \/ /\ cat'[d] = cat[d] /\ log'[d] = log[d]
                                   /\ status'[d] = status[d],
           status'[c] \in {"loading", "live"} => Sound(cat'[c], log'[c]),
           status'[c] = "none" => cat'[c] = Fresh /\ log'[c] = <<>>
    PROVE  StoreInv'
  <1>1. ASSUME NEW d \in InUse'
        PROVE  Sound(cat'[d], log'[d])
    <2>1. CASE d = c
      BY <2>1 DEF InUse
    <2>2. CASE d # c
      BY <2>2 DEF InUse, StoreInv
    <2> QED
      BY <2>1, <2>2
  <1>2. ASSUME NEW d \in Cat, status'[d] = "none"
        PROVE  cat'[d] = Fresh /\ log'[d] = <<>>
    BY <1>2 DEF StoreInv
  <1>3. (\A d \in InUse : Sound(cat[d], log[d]))'
    BY <1>1 DEF Sound, Filed, Recorded, LastFor, TakesEffect, Complete
  <1> QED
    BY <1>2, <1>3 DEF StoreInv

\* A constructor that fails leaves what it had by then, or nothing.
LEMMA FailLoadStore ==
    ASSUME TypeInv, StoreInv, NEW c \in Cat, NEW object, CatalogType(object),
           Sound(object, log[c]), FailLoad(c, object)
    PROVE  StoreInv'
  <1>1. \A d \in Cat \ {c} : /\ cat'[d] = cat[d] /\ log'[d] = log[d]
                             /\ status'[d] = status[d]
    BY DEF FailLoad, TypeInv, TypeOK
  <1>2. CASE NoExceptions
    <2>1. /\ cat'[c] = [object EXCEPT !.error = TRUE]
          /\ log'[c] = log[c] /\ status'[c] = "live"
      BY <1>2 DEF FailLoad, TypeInv, TypeOK
    <2>2. Sound([object EXCEPT !.error = TRUE], log[c])
      BY SoundFlags
    <2> QED
      BY <1>1, <2>1, <2>2, StoreFrame
  <1>3. CASE ~NoExceptions
    <2>1. cat'[c] = Fresh /\ log'[c] = <<>> /\ status'[c] = "none"
      BY <1>3 DEF FailLoad, TypeInv, TypeOK
    <2> QED
      BY <1>1, <2>1, StoreFrame
  <1> QED
    BY <1>2, <1>3

\* No object that exists while a header is read has a message yet.
LEMMA HeaderStageEmpty ==
    ASSUME NEW w
    PROVE  /\ DOMAIN Blank(w).map = {}
           /\ \A h : DOMAIN WithMetadata(h, w).map = {}
           /\ \A h : DOMAIN WithPluralForms(h, w).map = {}
  BY DEF Blank, WithMetadata, WithPluralForms, NewObject, EmptyMap

\* A constructor that runs up to its loop leaves sound catalogs, or a blank one.
LEMMA LoadStoreStep ==
    ASSUME ~EmplaceConsumes, TypeInv, StoreInv, NEW c \in Cat, Load(c)
    PROVE  StoreInv'
  <1>1. PICK w \in BOOLEAN :
           \/ LoadUnparsable(c, w)
           \/ \E h \in Headers : \/ LoadBadHeader(c, h, w)
                                 \/ LoadBadPluralForms(c, h, w)
                                 \/ LoadBadSingular(c, h, w)
                                 \/ LoadHeader(c, h, w)
    BY DEF Load
  <1>2. StartLoad(c) => log[c] = <<>>
    BY DEF StartLoad, StoreInv
  <1>3. CASE LoadUnparsable(c, w)
    BY <1>2, <1>3, BlankType, HeaderStageEmpty, SoundEmpty, FailLoadStore
       DEF LoadUnparsable
  <1>4. ASSUME NEW h \in Headers,
               \/ LoadBadHeader(c, h, w)
               \/ LoadBadPluralForms(c, h, w)
               \/ LoadBadSingular(c, h, w)
        PROVE  StoreInv'
    <2>1. ASSUME NEW object, CatalogType(object), DOMAIN object.map = {},
                 StartLoad(c), FailLoad(c, object)
          PROVE  StoreInv'
      BY <1>2, <2>1, SoundEmpty, FailLoadStore
    <2> QED
      BY <1>4, <2>1, BlankType, HeaderStageTypes, FileAssumption, HeaderStageEmpty
         DEF LoadBadHeader, LoadBadPluralForms, LoadBadSingular
  <1>5. ASSUME NEW h \in Headers, LoadHeader(c, h, w)
        PROVE  StoreInv'
    <2> DEFINE m == [h.message EXCEPT !.line = 0]
               object == WithPluralForms(h, w)
               e == [message |-> m, fuzzy |-> FALSE]
    <2>1. /\ cat' = [cat EXCEPT ![c] = InsertMessage(object, m)]
          /\ status' = [status EXCEPT ![c] = "loading"]
          /\ log' = [log EXCEPT ![c] = <<e>>]
          /\ MetadataRead(h)
      BY <1>5 DEF LoadHeader
    <2>2. m \in Given /\ CatalogType(object) /\ Sound(object, <<>>)
      BY <2>1, ReadIsGiven, HeaderStageTypes, FileAssumption, HeaderStageEmpty, SoundEmpty
    <2> HIDE DEF m, object
    <2>3. <<>> \in Seq(LogEntry) /\ Append(<<>>, e) = <<e>>
      OBVIOUS
    <2>4. Sound(InsertMessage(object, m), <<e>>)
      BY <2>2, <2>3, SoundInsert
    <2>5. /\ \A d \in Cat \ {c} : /\ cat'[d] = cat[d] /\ log'[d] = log[d]
                                  /\ status'[d] = status[d]
          /\ cat'[c] = InsertMessage(object, m) /\ log'[c] = <<e>>
          /\ status'[c] = "loading"
      BY <2>1 DEF TypeInv, TypeOK
    <2> QED
      BY <2>4, <2>5, StoreFrame
  <1> QED
    BY <1>1, <1>3, <1>4, <1>5

\* So does a round of the loop, and its end.
LEMMA ReadStoreStep ==
    ASSUME ~EmplaceConsumes, TypeInv, StoreInv, NEW c \in Cat, Read(c)
    PROVE  StoreInv'
  <1>1. status[c] = "loading"
    BY DEF Read, ReadEntry, ReadSecondHeader, ReadUnparsable, FinishLoad
  <1>2. CatalogType(cat[c]) /\ log[c] \in Seq(LogEntry) /\ Sound(cat[c], log[c])
    BY <1>1 DEF TypeInv, TypeOK, StoreInv, InUse
  <1>3. ASSUME NEW entry \in Messages, NEW fuzzy \in BOOLEAN, ReadEntry(c, entry, fuzzy)
        PROVE  StoreInv'
    <2> DEFINE m == [entry EXCEPT !.line = line]
               e == [message |-> m, fuzzy |-> fuzzy]
    <2>1. /\ cat' = [cat EXCEPT ![c] = ReadInto(c, m, fuzzy)]
          /\ log' = [log EXCEPT ![c] = Append(@, e)]
          /\ status' = status
          /\ m.id # <<>> /\ m.id = entry.id
      BY <1>3, FileAssumption DEF ReadEntry, Message
    <2>2. m \in Given
      BY <2>1, ReadIsGiven DEF TypeInv, TypeOK
    <2>3. e \in LogEntry /\ e.message = m
      BY <2>2, GivenFacts DEF LogEntry
    <2> HIDE DEF m
    <2>4. Sound(ReadInto(c, m, fuzzy), Append(log[c], e))
      <3>1. CASE fuzzy
        <4>1. ~TakesEffect(cat[c], e)
          BY <3>1 DEF TakesEffect
        <4> QED
          BY <1>2, <2>2, <2>3, <3>1, <4>1, SoundSkip DEF ReadInto
      <3>2. CASE ~fuzzy
        <4>1. e = [message |-> m, fuzzy |-> FALSE]
          BY <3>2
        <4> QED
          BY <1>2, <2>2, <3>2, <4>1, SoundInsert DEF ReadInto
      <3> QED
        BY <3>1, <3>2
    <2>5. /\ \A d \in Cat \ {c} : cat'[d] = cat[d] /\ log'[d] = log[d]
          /\ cat'[c] = ReadInto(c, m, fuzzy) /\ log'[c] = Append(log[c], e)
      BY <2>1 DEF TypeInv, TypeOK
    <2> QED
      BY <1>1, <2>1, <2>4, <2>5, StoreFrame
  <1>4. CASE (\E m \in Messages : ReadSecondHeader(c, m)) \/ ReadUnparsable(c)
    BY <1>2, <1>4, FailLoadStore DEF ReadSecondHeader, ReadUnparsable
  <1>5. CASE FinishLoad(c)
    <2>1. /\ cat' = cat /\ log' = log /\ status'[c] = "live"
          /\ \A d \in Cat \ {c} : status'[d] = status[d]
      BY <1>5 DEF FinishLoad, TypeInv, TypeOK
    <2> QED
      BY <1>2, <2>1, StoreFrame
  <1> QED
    BY <1>3, <1>4, <1>5 DEF Read

\* Setting a flag of a catalog in use.
LEMMA FlagStoreStep ==
    ASSUME TypeInv, StoreInv, NEW c \in InUse, NEW b \in BOOLEAN,
           \/ cat' = [cat EXCEPT ![c] = [cat[c] EXCEPT !.error = b]]
           \/ cat' = [cat EXCEPT ![c] = [cat[c] EXCEPT !.channel = b]],
           UNCHANGED <<status, log>>
    PROVE  StoreInv'
  <1>1. c \in Cat /\ status[c] # "none" /\ CatalogType(cat[c]) /\ Sound(cat[c], log[c])
    BY DEF InUse, StoreInv, TypeInv, TypeOK
  <1>2. /\ \A d \in Cat \ {c} : cat'[d] = cat[d]
        /\ \/ cat'[c] = [cat[c] EXCEPT !.error = b]
           \/ cat'[c] = [cat[c] EXCEPT !.channel = b]
    BY <1>1 DEF TypeInv, TypeOK
  <1>3. Sound(cat'[c], log'[c])
    BY <1>1, <1>2, SoundFlags
  <1> QED
    BY <1>1, <1>2, <1>3, StoreFrame

\* What a merge in progress provides to its next step.
LEMMA NextMoved ==
    ASSUME ~EmplaceConsumes, TypeInv, StoreInv, MergeInv,
           merging # NoMerge, NEW key \in merging.todo
    PROVE  LET m == cat[merging.from].map[key]
               before == cat[merging.into]
           IN  /\ m = merging.donor.map[key] /\ key = FormIndex(m) /\ m \in Given
               /\ InsertMessage(before, m) = [before EXCEPT !.map = With(before.map, m)]
               /\ InsertMessage(before, m).map = With(before.map, m)
               /\ Sound(InsertMessage(before, m),
                        Append(log[merging.into], [message |-> m, fuzzy |-> FALSE]))
  <1> DEFINE m == cat[merging.from].map[key]
             before == cat[merging.into]
  <1>1. /\ CatalogType(before) /\ log[merging.into] \in Seq(LogEntry)
        /\ Sound(before, log[merging.into])
        /\ CatalogType(merging.target)
    BY MergingFacts DEF TypeInv, TypeOK, StoreInv, InUse, MergeType
  <1>2. m = merging.donor.map[key] /\ key \in DOMAIN merging.donor.map
    BY DEF MergeInv, Movable
  <1>3. key = FormIndex(m) /\ m \in Given /\ Complete(merging.donor, m)
    BY <1>2 DEF MergeInv, Filed
  <1>4. before.num = merging.donor.num
    BY <1>1 DEF MergeInv, CatalogType
  <1> HIDE DEF m, before
  <1>5. Complete(before, m)
    BY <1>3, <1>4 DEF Complete
  <1>6. /\ InsertMessage(before, m) = [before EXCEPT !.map = With(before.map, m)]
        /\ InsertMessage(before, m).map = With(before.map, m)
    BY <1>1, <1>3, <1>5, InsertCases
  <1>7. Sound(InsertMessage(before, m),
              Append(log[merging.into], [message |-> m, fuzzy |-> FALSE]))
    BY <1>1, <1>3, SoundInsert
  <1> QED
    BY <1>2, <1>3, <1>6, <1>7 DEF m, before

\* So does every step of a merge: what is moved is logged as it is inserted.
LEMMA MergeStoreStep ==
    ASSUME ~EmplaceConsumes, TypeInv, StoreInv, MergeInv, Merge
    PROVE  StoreInv'
  <1>1. ASSUME NEW into \in Cat, NEW from \in Cat, MergeRejected(into, from)
        PROVE  StoreInv'
    <2> DEFINE b == cat[into].error \/ NoExceptions
    <2>1. /\ cat' = [cat EXCEPT ![into] = [cat[into] EXCEPT !.error = b]]
          /\ UNCHANGED <<status, log>> /\ into \in InUse
      BY <1>1 DEF MergeRejected, InUse
    <2>2. b \in BOOLEAN
      OBVIOUS
    <2> HIDE DEF b
    <2> QED
      BY <2>1, <2>2, FlagStoreStep
  <1>2. ASSUME NEW into \in Cat, NEW from \in Cat, BeginMerge(into, from)
        PROVE  StoreInv'
    <2>1. /\ cat' = cat /\ log' = log /\ status'[from] = "donor"
          /\ \A d \in Cat \ {from} : status'[d] = status[d]
      BY <1>2 DEF BeginMerge, TypeInv, TypeOK
    <2> QED
      BY <2>1, StoreFrame
  <1>3. ASSUME merging # NoMerge, NEW key \in merging.todo, MergeEntry(key)
        PROVE  StoreInv'
    <2> DEFINE into == merging.into
               from == merging.from
               m == cat[from].map[key]
               after == InsertMessage(cat[into], m)
               history == Append(log[into], [message |-> m, fuzzy |-> FALSE])
    <2>1. /\ into \in Cat /\ from \in Cat /\ into # from
          /\ status[into] = "live" /\ status[from] = "donor"
      BY <1>3, MergingFacts
    <2>2. /\ cat' = [cat EXCEPT ![into] = after,
                                ![from] = Drained(cat[from], key, cat[into])]
          /\ log' = [log EXCEPT ![into] = history]
          /\ status' = status
      BY <1>3 DEF MergeEntry
    <2>3. Sound(after, history)
      BY <1>3, NextMoved
    <2> HIDE DEF after, history
    <2>4. /\ cat'[into] = after /\ log'[into] = history
          /\ \A d \in Cat \ {into} : \/ d = from
                                     \/ cat'[d] = cat[d] /\ log'[d] = log[d]
      BY <2>1, <2>2 DEF TypeInv, TypeOK
    <2> QED
      BY <2>1, <2>2, <2>3, <2>4, StoreFrame
  <1>4. CASE FinishMerge
    <2> DEFINE from == merging.from
    <2>1. from \in Cat
      BY <1>4, MergingFacts DEF FinishMerge
    <2>2. /\ cat'[from] = Fresh /\ log'[from] = <<>> /\ status'[from] = "none"
          /\ \A d \in Cat \ {from} : /\ cat'[d] = cat[d] /\ log'[d] = log[d]
                                     /\ status'[d] = status[d]
      BY <1>4, <2>1 DEF FinishMerge, TypeInv, TypeOK
    <2> QED
      BY <2>1, <2>2, StoreFrame
  <1> QED
    BY <1>1, <1>2, <1>3, <1>4 DEF Merge

\* A step of the merge moves one message and leaves the others where they are.
LEMMA MergeEntryMerge ==
    ASSUME ~EmplaceConsumes, TypeInv, StoreInv, MergeInv,
           merging # NoMerge, NEW key \in merging.todo, MergeEntry(key)
    PROVE  MergeInv'
  <1> DEFINE into == merging.into
             from == merging.from
             target == merging.target
             donor == merging.donor
             todo == merging.todo
             m == cat[from].map[key]
  <1>1. /\ into \in Cat /\ from \in Cat /\ into # from
        /\ CatalogType(cat[into]) /\ CatalogType(cat[from])
        /\ CatalogType(target) /\ CatalogType(donor)
    BY MergingFacts DEF MergeType
  <1>2. merging' = [into |-> into, from |-> from, todo |-> todo \ {key},
                    target |-> target, donor |-> donor]
    BY MergingFacts DEF MergeType, MergeEntry
  <1>3. /\ cat'[into] = [cat[into] EXCEPT !.map = With(cat[into].map, m)]
        /\ cat'[from] = Drained(cat[from], key, cat[into])
    <2>1. cat' = [cat EXCEPT ![into] = InsertMessage(cat[into], m),
                             ![from] = Drained(cat[from], key, cat[into])]
      BY DEF MergeEntry
    <2> QED
      BY <2>1, <1>1, NextMoved DEF TypeInv, TypeOK
  <1>4. m = donor.map[key] /\ key = FormIndex(m)
    BY NextMoved
  <1>5. /\ DOMAIN cat'[from].map = DOMAIN cat[from].map
        /\ \A k \in DOMAIN cat[from].map : k # key => cat'[from].map[k] = cat[from].map[k]
    BY <1>1, <1>3 DEF Drained, CatalogType
  <1>6. Filed(target) /\ Filed(donor) /\ target.num = donor.num
    BY DEF MergeInv
  <1>7. /\ todo \ {key} \subseteq Movable(donor)
        /\ DOMAIN cat'[from].map = DOMAIN donor.map
        /\ \A k \in todo \ {key} : cat'[from].map[k] = donor.map[k]
    BY <1>5 DEF MergeInv, Movable
  <1>8. cat'[into].map = With(cat[into].map, m)
    BY <1>1, <1>3 DEF CatalogType
  <1>9. cat'[into] = [target EXCEPT !.map = cat'[into].map]
    <2>1. cat[into] = [target EXCEPT !.map = cat[into].map]
      BY DEF MergeInv
    <2> DEFINE old == cat[into].map
               new == With(old, m)
    <2> HIDE DEF old, new
    <2>2. [[target EXCEPT !.map = old] EXCEPT !.map = new] = [target EXCEPT !.map = new]
      BY <1>1 DEF CatalogType
    <2>3. cat'[into] = [[target EXCEPT !.map = old] EXCEPT !.map = new]
      BY <1>3, <2>1 DEF new, old
    <2> QED
      BY <1>8, <2>2, <2>3 DEF new, old
  <1> DEFINE moved == Movable(donor) \ (todo \ {key})
  <1>10. moved = Moved(merging) \cup {key}
    BY DEF Moved, MergeInv
  <1>11. /\ DOMAIN cat'[into].map = DOMAIN cat[into].map \cup {key}
         /\ cat'[into].map[key] = donor.map[key]
         /\ \A k \in DOMAIN cat[into].map : k # key => cat'[into].map[k] = cat[into].map[k]
    BY <1>4, <1>8 DEF With
  <1>12. DOMAIN cat'[into].map = DOMAIN target.map \cup moved
    BY <1>10, <1>11 DEF MergeInv
  <1>13. \A k \in DOMAIN cat'[into].map :
            cat'[into].map[k] = IF k \in moved THEN donor.map[k] ELSE target.map[k]
    BY <1>10, <1>11 DEF MergeInv
  <1>14. /\ merging'.into = into /\ merging'.from = from
         /\ merging'.todo = todo \ {key}
         /\ merging'.target = target /\ merging'.donor = donor
    BY <1>2
  <1>15. Moved(merging') = moved
    BY <1>14 DEF Moved
  <1> HIDE DEF into, from, target, donor, todo, moved
  <1>16. (Filed(merging.target) /\ Filed(merging.donor))'
    BY <1>6, <1>14 DEF Filed, Complete
  <1> QED
    BY <1>6, <1>7, <1>9, <1>12, <1>13, <1>14, <1>15, <1>16 DEF MergeInv

\* When a merge begins, nothing has been moved.
LEMMA BeginMergeMerge ==
    ASSUME TypeInv, StoreInv, NEW into \in Cat, NEW from \in Cat, BeginMerge(into, from)
    PROVE  MergeInv'
  <1>1. /\ merging' = [into |-> into, from |-> from, todo |-> Movable(cat[from]),
                       target |-> cat[into], donor |-> cat[from]]
        /\ cat' = cat /\ into # from
        /\ status[into] = "live" /\ status[from] = "live"
        /\ cat[into].num = cat[from].num
    BY DEF BeginMerge, Compatible
  <1>2. /\ Filed(cat[into]) /\ Filed(cat[from])
        /\ CatalogType(cat[into]) /\ CatalogType(cat[from])
    BY <1>1 DEF StoreInv, InUse, Sound, TypeInv, TypeOK
  <1>3. cat[into] = [cat[into] EXCEPT !.map = cat[into].map]
    BY <1>2 DEF CatalogType
  <1>4. Moved(merging') = {}
    BY <1>1 DEF Moved
  <1>5. (Filed(merging.target) /\ Filed(merging.donor))'
    BY <1>1, <1>2 DEF Filed, Complete
  <1>6. \A k \in Movable(cat[from]) : k \in DOMAIN cat[from].map
    BY DEF Movable
  <1> QED
    BY <1>1, <1>3, <1>4, <1>5, <1>6 DEF MergeInv

\* Every step keeps both invariants. Neither step of a merge would do so alone.
LEMMA HistoryStep ==
    ~EmplaceConsumes /\ TypeInv /\ StoreInv /\ MergeInv /\ [Next]_vars
      => StoreInv' /\ MergeInv'
  <1> SUFFICES ASSUME ~EmplaceConsumes, TypeInv, StoreInv, MergeInv, [Next]_vars
               PROVE  StoreInv' /\ MergeInv'
    OBVIOUS
  <1>1. ASSUME NEW c \in Cat, Load(c) \/ Read(c)
        PROVE  StoreInv' /\ MergeInv'
    <2>1. merging' = NoMerge
      <3>1. CASE Load(c)
        BY <3>1 DEF Load, LoadUnparsable, LoadBadHeader, LoadBadPluralForms,
                    LoadBadSingular, LoadHeader, StartLoad, Idle
      <3>2. CASE Read(c)
        <4>1. status[c] = "loading" /\ merging' = merging
          BY <3>2 DEF Read, ReadEntry, ReadSecondHeader, ReadUnparsable, FinishLoad
        <4> QED
          BY <4>1 DEF TypeInv, OneCall
      <3> QED
        BY <1>1, <3>1, <3>2
    <2> QED
      BY <1>1, <2>1, LoadStoreStep, ReadStoreStep DEF MergeInv
  <1>2. ASSUME NEW c \in Cat, NEW w \in BOOLEAN, SetWarningChannel(c, w)
        PROVE  StoreInv' /\ MergeInv'
    <2>1. /\ cat' = [cat EXCEPT ![c] = [cat[c] EXCEPT !.channel = w]]
          /\ UNCHANGED <<status, log>> /\ c \in InUse /\ merging' = NoMerge
      BY <1>2 DEF SetWarningChannel, InUse, Idle
    <2> QED
      BY <2>1, FlagStoreStep DEF MergeInv
  <1>3. CASE Merge
    <2>1. MergeInv'
      BY <1>3, BeginMergeMerge, MergeEntryMerge
         DEF Merge, MergeRejected, FinishMerge, Idle, MergeInv
    <2> QED
      BY <1>3, <2>1, MergeStoreStep
  <1>4. CASE UNCHANGED vars
    BY <1>4 DEF vars, StoreInv, MergeInv, InUse, Sound, Filed, Recorded, LastFor,
                TakesEffect, Complete, Moved
  <1> QED
    BY <1>1, <1>2, <1>3, <1>4 DEF Next

\* No catalog is there in the beginning.
LEMMA HistoryInit == Init => StoreInv /\ MergeInv
  BY DEF Init, StoreInv, MergeInv, InUse

\* The invariant from which the theorems below follow.
LEMMA History ==
    ASSUME ~EmplaceConsumes
    PROVE  Spec => [](TypeInv /\ StoreInv /\ MergeInv)
  BY TypeInit, TypeStep, HistoryInit, HistoryStep, PTL DEF Spec

-----------------------------------------------------------------------------
(* Keys *)

\* A text without the separator.
Bare(t) == \A i \in DOMAIN t : t[i] # EOT

\* The separator is reserved: a context that is given does not contain it, nor
\* does the msgid of a message without one.  The code takes this for granted.
Reserves(ctx, id) == IF ctx = NoContext THEN Bare(id) ELSE Bare(ctx)

FilesReserveSeparator == \A f \in FirstMessages \cup Entries : Reserves(f.context, f.id)

ClientsReserveSeparator == (\A id \in Ids : Bare(id)) /\ \A ctx \in Contexts : Bare(ctx)

\* Where the context, the separator and the msgid stand in a key.
LEMMA KeyElements ==
    ASSUME NEW a \in Text, NEW b \in Text
    PROVE  /\ FormContextIndex(a, b) \in Text
           /\ Len(FormContextIndex(a, b)) = Len(a) + 1 + Len(b)
           /\ DOMAIN FormContextIndex(a, b) = 1..(Len(a) + 1 + Len(b))
           /\ \A i \in 1..Len(a) : FormContextIndex(a, b)[i] = a[i]
           /\ FormContextIndex(a, b)[Len(a) + 1] = EOT
           /\ \A i \in 1..Len(b) : FormContextIndex(a, b)[Len(a) + 1 + i] = b[i]
  BY TextAssumption DEF FormContextIndex, Text

\* The first separator of a key shows where the context ends.
LEMMA SplitUnique ==
    ASSUME NEW a \in Text, NEW b \in Text, NEW c \in Text, NEW d \in Text,
           Bare(a), Bare(c), FormContextIndex(a, b) = FormContextIndex(c, d)
    PROVE  a = c /\ b = d
  <1> DEFINE key == FormContextIndex(a, b)
  <1>1. /\ Len(a) \in Nat /\ Len(b) \in Nat /\ Len(c) \in Nat /\ Len(d) \in Nat
        /\ DOMAIN a = 1..Len(a) /\ DOMAIN c = 1..Len(c)
    BY DEF Text
  <1>2. /\ Len(key) = Len(a) + 1 + Len(b) /\ key[Len(a) + 1] = EOT
        /\ \A i \in 1..Len(a) : key[i] = a[i]
        /\ \A i \in 1..Len(b) : key[Len(a) + 1 + i] = b[i]
    BY KeyElements
  <1>3. /\ Len(key) = Len(c) + 1 + Len(d) /\ key[Len(c) + 1] = EOT
        /\ \A i \in 1..Len(c) : key[i] = c[i]
        /\ \A i \in 1..Len(d) : key[Len(c) + 1 + i] = d[i]
    <2>1. key = FormContextIndex(c, d)
      OBVIOUS
    <2> HIDE DEF key
    <2> QED
      BY <2>1, KeyElements
  <1> HIDE DEF key
  <1>4. ~(Len(a) < Len(c))
    <2>1. Len(a) < Len(c) => Len(a) + 1 \in 1..Len(c)
      BY <1>1
    <2> QED
      BY <1>1, <1>2, <1>3, <2>1 DEF Bare
  <1>5. ~(Len(c) < Len(a))
    <2>1. Len(c) < Len(a) => Len(c) + 1 \in 1..Len(a)
      BY <1>1
    <2> QED
      BY <1>1, <1>2, <1>3, <2>1 DEF Bare
  <1>6. Len(a) = Len(c) /\ Len(b) = Len(d)
    <2>1. Len(a) + 1 + Len(b) = Len(c) + 1 + Len(d)
      BY <1>2, <1>3, Zenon
    <2>2. \A p, q, r, t \in Nat :
             p + 1 + q = r + 1 + t /\ ~(p < r) /\ ~(r < p) => p = r /\ q = t
      OBVIOUS
    <2> QED
      BY <1>1, <1>4, <1>5, <2>1, <2>2, Zenon
  <1>7. \A i \in 1..Len(a) : a[i] = c[i]
    BY <1>2, <1>3, <1>6
  <1>8. \A i \in 1..Len(b) : b[i] = d[i]
    BY <1>2, <1>3, <1>6
  <1>9. ASSUME NEW s \in Text, NEW t \in Text, Len(s) = Len(t),
               \A i \in 1..Len(s) : s[i] = t[i]
        PROVE  s = t
    BY <1>9, SeqEqual DEF Text
  <1> QED
    BY <1>6, <1>7, <1>8, <1>9

Key(ctx, id) == IF ctx = NoContext THEN id ELSE FormContextIndex(ctx, id)

\* No two pairs of a context, or none, and a msgid have the same key.
LEMMA KeyUnique ==
    ASSUME NEW p \in Text \cup {NoContext}, NEW a \in Text, Reserves(p, a),
           NEW q \in Text \cup {NoContext}, NEW b \in Text, Reserves(q, b),
           Key(p, a) = Key(q, b)
    PROVE  p = q /\ a = b
  <1>1. ASSUME NEW r \in Text, NEW c \in Text
        PROVE  ~Bare(FormContextIndex(r, c))
    <2>1. Len(r) + 1 \in DOMAIN FormContextIndex(r, c)
      <3>1. Len(r) + 1 \in 1..(Len(r) + 1 + Len(c))
        BY DEF Text
      <3> QED
        BY <3>1, KeyElements
    <2> QED
      BY <2>1, KeyElements DEF Bare
  <1>2. CASE p = NoContext /\ q = NoContext
    BY <1>2 DEF Key
  <1>3. CASE p = NoContext /\ q # NoContext
    BY <1>1, <1>3 DEF Key, Reserves
  <1>4. CASE p # NoContext /\ q = NoContext
    BY <1>1, <1>4 DEF Key, Reserves
  <1>5. CASE p # NoContext /\ q # NoContext
    BY <1>5, SplitUnique DEF Key, Reserves
  <1> QED
    BY <1>2, <1>3, <1>4, <1>5

\* A given message keeps to the separator if the files do.
LEMMA GivenKeys ==
    ASSUME FilesReserveSeparator, NEW m \in Given
    PROVE  /\ m.context \in Text \cup {NoContext} /\ m.id \in Text
           /\ Reserves(m.context, m.id)
           /\ FormIndex(m) = Key(m.context, m.id)
  <1>1. m \in Message
    BY GivenFacts
  <1>2. PICK f \in FirstMessages \cup Entries, l \in Nat : m = [f EXCEPT !.line = l]
    BY DEF Given
  <1>3. f \in Message
    BY FileAssumption DEF FirstMessages, Entries, Header
  <1>4. m.context = f.context /\ m.id = f.id
    BY <1>2, <1>3 DEF Message
  <1> QED
    BY <1>1, <1>4 DEF Message, FilesReserveSeparator, FormIndex, Key

-----------------------------------------------------------------------------
(* The theorems *)

\* gettext(id) finds the message with that msgid and no context, pgettext(ctx, id)
\* the one with that context and msgid, or none, if nobody uses the separator.
\* Otherwise a context could end in the beginning of another's msgid.
THEOREM QueriesAnswered ==
    ASSUME ~EmplaceConsumes, FilesReserveSeparator, ClientsReserveSeparator
    PROVE  Spec => []AnswersItsQuery
  <1>1. ASSUME TypeInv, StoreInv
        PROVE  AnswersItsQuery
    <2>1. ASSUME NEW c \in InUse, NEW id \in Text, NEW ctx \in Text \cup {NoContext},
                 Reserves(ctx, id), Key(ctx, id) \in DOMAIN cat[c].map
          PROVE  /\ cat[c].map[Key(ctx, id)].id = id
                 /\ cat[c].map[Key(ctx, id)].context = ctx
      <3> DEFINE m == cat[c].map[Key(ctx, id)]
      <3>1. m \in Given /\ FormIndex(m) = Key(ctx, id)
        BY <1>1, <2>1 DEF StoreInv, Sound, Filed
      <3> QED
        BY <2>1, <3>1, GivenKeys, KeyUnique
    <2>2. ASSUME NEW c \in InUse, NEW id \in Ids
          PROVE  id \in DOMAIN cat[c].map => /\ cat[c].map[id].id = id
                                             /\ cat[c].map[id].context = NoContext
      <3>1. id \in Text /\ Reserves(NoContext, id) /\ Key(NoContext, id) = id
        BY TextAssumption DEF ClientsReserveSeparator, Reserves, Key
      <3> QED
        BY <2>1, <3>1
    <2>3. ASSUME NEW c \in InUse, NEW id \in Ids, NEW ctx \in Contexts
          PROVE  LET key == FormContextIndex(ctx, id)
                 IN  key \in DOMAIN cat[c].map => /\ cat[c].map[key].id = id
                                                  /\ cat[c].map[key].context = ctx
      <3>1. /\ id \in Text /\ ctx \in Text /\ Reserves(ctx, id)
            /\ Key(ctx, id) = FormContextIndex(ctx, id)
        BY TextAssumption DEF ClientsReserveSeparator, Reserves, Key
      <3> QED
        BY <2>1, <3>1
    <2> QED
      BY <2>2, <2>3 DEF AnswersItsQuery
  <1> QED
    BY <1>1, History, PTL

\* size() counts what is not the header, if no header has a context; the run
\* header_context shows what it counts otherwise.
THEOREM SizeCorrect ==
    ASSUME ~EmplaceConsumes, \A f \in FirstMessages : f.context = NoContext
    PROVE  Spec => []SizeExcludesHeader
  <1>1. ASSUME NEW m \in Given
        PROVE  FormIndex(m) = <<>> <=> m.id = <<>>
    <2>1. PICK f \in FirstMessages \cup Entries, l \in Nat : m = [f EXCEPT !.line = l]
      BY DEF Given
    <2>2. f \in Message /\ m \in Message
      BY GivenFacts, FileAssumption DEF FirstMessages, Entries, Header
    <2>3. m.id = <<>> => m.context = NoContext
      BY <2>1, <2>2 DEF Entries, Message
    <2>4. m.context # NoContext => FormIndex(m) # <<>>
      <3>1. ASSUME m.context # NoContext
            PROVE  FormIndex(m) # <<>>
        <4>1. m.context \in Text /\ m.id \in Text
          BY <2>2, <3>1 DEF Message
        <4>2. Len(m.context) \in Nat /\ Len(m.id) \in Nat
          BY <4>1 DEF Text
        <4>3. Len(FormIndex(m)) = Len(m.context) + 1 + Len(m.id)
          BY <3>1, <4>1, KeyElements DEF FormIndex
        <4>4. Len(<<>>) = 0 /\ \A p, q \in Nat : p + 1 + q # 0
          OBVIOUS
        <4> QED
          BY <4>2, <4>3, <4>4, Zenon
      <3> QED
        BY <3>1
    <2>5. m.context = NoContext => FormIndex(m) = m.id
      BY DEF FormIndex
    <2> QED
      BY <2>3, <2>4, <2>5
  <1>2. ASSUME TypeInv, StoreInv
        PROVE  SizeExcludesHeader
    <2>1. ASSUME NEW c \in InUse
          PROVE  DOMAIN cat[c].map \ {<<>>} =
                   {k \in DOMAIN cat[c].map : cat[c].map[k].id # <<>>}
      <3>1. \A k \in DOMAIN cat[c].map :
               cat[c].map[k] \in Given /\ k = FormIndex(cat[c].map[k])
        BY <1>2 DEF StoreInv, Sound, Filed
      <3> QED
        BY <1>1, <3>1
    <2> QED
      BY <2>1 DEF SizeExcludesHeader, Size
  <1> QED
    BY <1>2, History, PTL

\* The map of a catalog is determined by its history: the last entry that counts
\* for each key and nothing else, whatever was loaded, failed or merged.
THEOREM LastEntryWins ==
    ASSUME ~EmplaceConsumes
    PROVE  Spec => []LastUsableEntryWins
  <1>1. ASSUME TypeInv, StoreInv
        PROVE  LastUsableEntryWins
    <2> SUFFICES ASSUME NEW c \in InUse
        PROVE  LET Positions(k) == {i \in DOMAIN log[c] :
                      Usable(c, log[c][i]) /\ FormIndex(log[c][i].message) = k}
                   Last(k) == CHOOSE i \in Positions(k) : \A j \in Positions(k) : j <= i
                   Keys == {FormIndex(log[c][i].message) : i \in DOMAIN log[c]}
               IN  /\ DOMAIN cat[c].map = {k \in Keys : Positions(k) # {}}
                   /\ \A k \in DOMAIN cat[c].map :
                        cat[c].map[k] = log[c][Last(k)].message
      BY DEF LastUsableEntryWins
    <2> DEFINE Positions(k) == {i \in DOMAIN log[c] :
                      Usable(c, log[c][i]) /\ FormIndex(log[c][i].message) = k}
               Last(k) == CHOOSE i \in Positions(k) : \A j \in Positions(k) : j <= i
               Keys == {FormIndex(log[c][i].message) : i \in DOMAIN log[c]}
               map == cat[c].map
    <2>1. Recorded(cat[c], log[c]) /\ log[c] \in Seq(LogEntry)
      BY <1>1 DEF StoreInv, Sound, InUse, TypeInv, TypeOK
    <2>2. ASSUME NEW i \in DOMAIN log[c]
          PROVE  Usable(c, log[c][i]) <=> TakesEffect(cat[c], log[c][i])
      <3>1. log[c][i].message.strings # <<>>
        BY <2>1, GivenFacts DEF Recorded
      <3> QED
        BY <3>1 DEF Usable, TakesEffect, Complete
    <2>3. DOMAIN log[c] \subseteq Nat
      BY <2>1
    <2>4. \A k : \A i \in Positions(k) : k \in Keys /\ k \in DOMAIN map
      BY <2>1, <2>2 DEF Recorded
    <2>5. ASSUME NEW k \in DOMAIN map
          PROVE  Positions(k) # {} /\ k \in Keys /\ map[k] = log[c][Last(k)].message
      <3>1. PICK i \in DOMAIN log[c] :
               LastFor(cat[c], log[c], k, i) /\ map[k] = log[c][i].message
        BY <2>1 DEF Recorded
      <3>2. i \in Positions(k) /\ \A j \in Positions(k) : j <= i
        BY <2>2, <3>1 DEF LastFor
      <3>3. Positions(k) \subseteq Nat
        BY <2>3
      <3> HIDE DEF Positions
      <3>4. Last(k) \in Positions(k) /\ \A j \in Positions(k) : j <= Last(k)
        BY <3>2
      <3>5. Last(k) = i
        BY <3>2, <3>3, <3>4
      <3> QED
        BY <2>4, <3>1, <3>2, <3>5
    <2>6. DOMAIN map = {k \in Keys : Positions(k) # {}}
      BY <2>4, <2>5
    <2> QED
      BY <2>5, <2>6
  <1> QED
    BY <1>1, History, PTL

\* A merge gives the union of both catalogs without the other's header, in
\* whatever order it visits the messages, for catalogs of any size.
THEOREM MergesAreUnions ==
    ASSUME ~EmplaceConsumes
    PROVE  Spec => MergeIsUnion
  <1>1. ASSUME TypeInv, StoreInv, MergeInv, [Next]_vars,
               merging # NoMerge, merging' = NoMerge
        PROVE  LET before == merging.target
                   moved  == DOMAIN merging.donor.map \ {<<>>}
                   after  == cat[merging.into]
               IN  /\ DOMAIN after.map = DOMAIN before.map \cup moved
                   /\ \A k \in DOMAIN after.map :
                        after.map[k] = IF k \in moved THEN merging.donor.map[k]
                                       ELSE before.map[k]
                   /\ [after EXCEPT !.map = before.map] = before
    <2>1. merging.todo = {}
      <3>1. CASE FinishMerge
        BY <3>1 DEF FinishMerge
      <3>2. ASSUME NEW key \in merging.todo, MergeEntry(key)
            PROVE  FALSE
        <4>1. merging' = [into |-> merging.into, from |-> merging.from,
                          todo |-> merging.todo \ {key},
                          target |-> merging.target, donor |-> merging.donor]
          BY <1>1, <3>2, MergingFacts DEF MergeType, MergeEntry
        <4> QED
          BY <1>1, <4>1 DEF NoMerge
      <3>3. ASSUME NEW c \in Cat, Load(c) \/ Read(c) \/ \E w \in BOOLEAN : SetWarningChannel(c, w)
            PROVE  FALSE
        <4>1. ~Idle /\ status[c] # "loading"
          BY <1>1 DEF Idle, TypeInv, OneCall
        <4>2. ~Load(c)
          BY <4>1 DEF Load, LoadUnparsable, LoadBadHeader, LoadBadPluralForms,
                      LoadBadSingular, LoadHeader, StartLoad
        <4>3. ~Read(c)
          BY <4>1 DEF Read, ReadEntry, ReadSecondHeader, ReadUnparsable, FinishLoad
        <4> QED
          BY <3>3, <4>1, <4>2, <4>3 DEF SetWarningChannel
      <3>4. \A into, from \in Cat : ~MergeRejected(into, from) /\ ~BeginMerge(into, from)
        BY <1>1 DEF MergeRejected, BeginMerge, Idle
      <3>5. ~UNCHANGED vars
        BY <1>1 DEF vars
      <3> QED
        BY <1>1, <3>1, <3>2, <3>3, <3>4, <3>5 DEF Next, Merge
    <2>2. Moved(merging) = DOMAIN merging.donor.map \ {<<>>}
      BY <2>1 DEF Moved, Movable
    <2>3. [cat[merging.into] EXCEPT !.map = merging.target.map] = merging.target
      <3> DEFINE target == merging.target
                 map == cat[merging.into].map
      <3>1. cat[merging.into] = [target EXCEPT !.map = map] /\ CatalogType(target)
        BY <1>1, MergingFacts DEF MergeInv, MergeType
      <3> HIDE DEF target, map
      <3>2. [[target EXCEPT !.map = map] EXCEPT !.map = target.map] = target
        BY <3>1 DEF CatalogType
      <3> QED
        BY <3>1, <3>2 DEF target
    <2> QED
      BY <1>1, <2>2, <2>3 DEF MergeInv
  <1> QED
    BY <1>1, History, PTL DEF Spec, MergeIsUnion

\* A message that insert_message replaces is named in its warning.
LEMMA InsertWarns ==
    ASSUME ~EmplaceConsumes, FilesReserveSeparator,
           NEW c, CatalogType(c), Filed(c), c.channel, NEW m \in Given,
           NEW k \in DOMAIN c.map, InsertMessage(c, m).map[k] # c.map[k]
    PROVE  InsertWarning(c, m) = [kind |-> "overwrite", id |-> c.map[k].id,
                                  context |-> c.map[k].context]
  <1>1. Complete(c, m) /\ InsertMessage(c, m).map = With(c.map, m)
    BY InsertCases
  <1>2. k = FormIndex(m)
    BY <1>1 DEF With
  <1>3. c.map[k] \in Given /\ FormIndex(c.map[k]) = FormIndex(m)
    BY <1>2 DEF Filed
  <1>4. c.map[k].context = m.context /\ c.map[k].id = m.id
    <2> DEFINE old == c.map[k]
    <2>1. /\ old.context \in Text \cup {NoContext} /\ old.id \in Text
          /\ Reserves(old.context, old.id)
          /\ FormIndex(old) = Key(old.context, old.id)
      BY <1>3, GivenKeys
    <2>2. /\ m.context \in Text \cup {NoContext} /\ m.id \in Text
          /\ Reserves(m.context, m.id)
          /\ FormIndex(m) = Key(m.context, m.id)
      BY GivenKeys
    <2>3. FormIndex(old) = FormIndex(m)
      BY <1>3
    <2> HIDE DEF old
    <2>4. old.context = m.context /\ old.id = m.id
      BY <2>1, <2>2, <2>3, KeyUnique
    <2> QED
      BY <2>4 DEF old
  <1>5. Accepts(c, m) /\ Stored(c, m) = m
    BY <1>1, AcceptsComplete DEF Stored, AfterEmplace
  <1> QED
    BY <1>2, <1>4, <1>5 DEF InsertWarning, Accepts

\* No message is replaced without a warning that names it, if there is a channel
\* to send it to: by an entry with the same context and msgid, in the same file or
\* in the catalog that is merged.
THEOREM ClobbersAreReported ==
    ASSUME ~EmplaceConsumes, FilesReserveSeparator
    PROVE  Spec => NoSilentClobber
  <1>1. ASSUME TypeInv, StoreInv, MergeInv, [Next]_vars,
               NEW c \in InUse \cap InUse', NEW k \in DOMAIN cat[c].map,
               cat[c].channel, cat'[c].map[k] # cat[c].map[k]
        PROVE  warning' = [kind |-> "overwrite", id |-> cat[c].map[k].id,
                           context |-> cat[c].map[k].context]
    <2>1. /\ c \in Cat /\ status[c] \in {"loading", "live"}
          /\ status'[c] \in {"loading", "live"}
          /\ CatalogType(cat[c]) /\ Filed(cat[c])
      BY <1>1 DEF InUse, TypeInv, TypeOK, StoreInv, Sound
    <2>2. ASSUME NEW m \in Given, cat'[c] = InsertMessage(cat[c], m),
                 warning' = InsertWarning(cat[c], m)
          PROVE  warning' = [kind |-> "overwrite", id |-> cat[c].map[k].id,
                             context |-> cat[c].map[k].context]
      BY <1>1, <2>1, <2>2, InsertWarns
    <2>3. \A b \in BOOLEAN : /\ [cat[c] EXCEPT !.error = b].map = cat[c].map
                             /\ [cat[c] EXCEPT !.channel = b].map = cat[c].map
      BY <2>1 DEF CatalogType
    <2>4. ASSUME NEW d \in Cat, Load(d)
          PROVE  FALSE
      <3>1. status[d] = "none" /\ \E object : cat' = [cat EXCEPT ![d] = object]
        BY <2>4 DEF Load, LoadUnparsable, LoadBadHeader, LoadBadPluralForms,
                    LoadBadSingular, LoadHeader, StartLoad, FailLoad
      <3>2. cat'[c] = cat[c]
        BY <2>1, <3>1 DEF TypeInv, TypeOK
      <3> QED
        BY <1>1, <3>2
    <2>5. ASSUME NEW d \in Cat, NEW object, FailLoad(d, object),
                 object = cat[d] \/ d # c
          PROVE  FALSE
      <3>1. CASE d = c /\ NoExceptions
        <4>1. cat' = [cat EXCEPT ![c] = [cat[c] EXCEPT !.error = TRUE]]
          BY <2>5, <3>1 DEF FailLoad
        <4>2. cat'[c] = [cat[c] EXCEPT !.error = TRUE]
          BY <1>1, <2>1, <4>1 DEF TypeInv, TypeOK
        <4> QED
          BY <1>1, <2>3, <4>2
      <3>2. CASE d = c /\ ~NoExceptions
        <4>1. status' = [status EXCEPT ![c] = "none"]
          BY <2>5, <3>2 DEF FailLoad
        <4>2. status'[c] = "none"
          BY <1>1, <2>1, <4>1 DEF TypeInv, TypeOK
        <4> QED
          BY <2>1, <4>2
      <3>3. CASE d # c
        <4>1. cat'[c] = cat[c]
          BY <2>1, <2>5, <3>3 DEF FailLoad, TypeInv, TypeOK
        <4> QED
          BY <1>1, <4>1
      <3> QED
        BY <3>1, <3>2, <3>3
    <2>6. ASSUME NEW d \in Cat, NEW entry \in Messages, NEW fuzzy \in BOOLEAN,
                 ReadEntry(d, entry, fuzzy)
          PROVE  warning' = [kind |-> "overwrite", id |-> cat[c].map[k].id,
                             context |-> cat[c].map[k].context]
      <3> DEFINE m == [entry EXCEPT !.line = line]
      <3>1. /\ cat' = [cat EXCEPT ![d] = ReadInto(d, m, fuzzy)]
            /\ warning' = IF fuzzy THEN NoWarning ELSE InsertWarning(cat[d], m)
            /\ m.id # <<>> /\ m.id = entry.id
        BY <2>6, FileAssumption DEF ReadEntry, Message
      <3>2. m \in Given
        BY <1>1, <3>1, ReadIsGiven DEF TypeInv, TypeOK
      <3> HIDE DEF m
      <3>3. d = c
        BY <1>1, <2>1, <3>1 DEF TypeInv, TypeOK
      <3>4. ~fuzzy
        BY <1>1, <2>1, <3>1, <3>3 DEF TypeInv, TypeOK, ReadInto
      <3>5. cat'[c] = InsertMessage(cat[c], m) /\ warning' = InsertWarning(cat[c], m)
        <4>1. /\ cat' = [cat EXCEPT ![c] = InsertMessage(cat[c], m)]
              /\ warning' = InsertWarning(cat[c], m)
          BY <3>1, <3>3, <3>4, Zenon DEF ReadInto
        <4> QED
          BY <1>1, <2>1, <4>1 DEF TypeInv, TypeOK
      <3> QED
        BY <2>2, <3>2, <3>5
    <2>7. ASSUME NEW d \in Cat, Read(d)
          PROVE  warning' = [kind |-> "overwrite", id |-> cat[c].map[k].id,
                             context |-> cat[c].map[k].context]
      <3>1. ~FinishLoad(d)
        BY <1>1 DEF FinishLoad
      <3>2. \A m \in Messages : ~ReadSecondHeader(d, m)
        BY <2>5 DEF ReadSecondHeader
      <3>3. ~ReadUnparsable(d)
        BY <2>5 DEF ReadUnparsable
      <3> QED
        BY <2>6, <2>7, <3>1, <3>2, <3>3 DEF Read
    <2>8. ASSUME NEW d \in Cat, NEW w \in BOOLEAN, SetWarningChannel(d, w)
          PROVE  FALSE
      <3>1. cat' = [cat EXCEPT ![d] = [cat[d] EXCEPT !.channel = w]]
        BY <2>8 DEF SetWarningChannel
      <3>2. cat'[c].map = cat[c].map
        BY <2>1, <2>3, <3>1 DEF TypeInv, TypeOK
      <3> QED
        BY <1>1, <3>2
    <2>9. ASSUME NEW into \in Cat, NEW from \in Cat, MergeRejected(into, from)
          PROVE  FALSE
      <3> DEFINE b == cat[into].error \/ NoExceptions
      <3>1. cat' = [cat EXCEPT ![into] = [cat[into] EXCEPT !.error = b]] /\ b \in BOOLEAN
        BY <2>9 DEF MergeRejected
      <3> HIDE DEF b
      <3>2. cat'[c].map = cat[c].map
        BY <2>1, <2>3, <3>1 DEF TypeInv, TypeOK
      <3> QED
        BY <1>1, <3>2
    <2>10. ASSUME merging # NoMerge, NEW key \in merging.todo, MergeEntry(key)
           PROVE  warning' = [kind |-> "overwrite", id |-> cat[c].map[k].id,
                              context |-> cat[c].map[k].context]
      <3> DEFINE m == cat[merging.from].map[key]
      <3>1. m \in Given
        BY <1>1, <2>10, NextMoved
      <3>2. /\ cat' = [cat EXCEPT ![merging.into] = InsertMessage(cat[merging.into], m),
                                  ![merging.from] = Drained(cat[merging.from], key,
                                                            cat[merging.into])]
            /\ warning' = InsertWarning(cat[merging.into], m)
        BY <2>10 DEF MergeEntry
      <3> HIDE DEF m
      <3>3. c # merging.from /\ merging.into # merging.from
        BY <1>1, <2>1, <2>10, MergingFacts
      <3>4. c = merging.into
        BY <1>1, <2>1, <3>2, <3>3 DEF TypeInv, TypeOK
      <3>5. cat'[c] = InsertMessage(cat[c], m)
        BY <1>1, <2>1, <3>2, <3>3, <3>4 DEF TypeInv, TypeOK
      <3> QED
        BY <2>2, <3>1, <3>2, <3>4, <3>5
    <2>11. CASE FinishMerge
      <3>1. c # merging.from
        BY <1>1, <2>1, <2>11, MergingFacts DEF FinishMerge
      <3>2. cat'[c] = cat[c]
        BY <1>1, <2>1, <2>11, <3>1 DEF FinishMerge, TypeInv, TypeOK
      <3> QED
        BY <1>1, <3>2
    <2>12. ~UNCHANGED vars /\ \A into, from \in Cat : ~BeginMerge(into, from)
      BY <1>1 DEF vars, BeginMerge
    <2> QED
      BY <1>1, <2>4, <2>7, <2>8, <2>9, <2>10, <2>11, <2>12 DEF Next, Merge
  <1>2. ASSUME TypeInv, StoreInv, MergeInv, [Next]_vars
        PROVE  \A c \in InUse \cap InUse' :
                  \A k \in DOMAIN cat[c].map :
                     LET old == cat[c].map[k]
                     IN  cat[c].channel /\ cat'[c].map[k] # old
                           => warning' = [kind |-> "overwrite", id |-> old.id,
                                          context |-> old.context]
    BY <1>1, <1>2
  <1> QED
    BY <1>2, History, PTL DEF Spec, NoSilentClobber
-----------------------------------------------------------------------------
(* Refinement of Dictionary *)

\* What the refinement mapping of Dict substitutes for store and status.
Stores == [c \in Cat |-> Seen(c)]
Stages == [c \in Cat |-> IF status[c] = "donor" THEN "live" ELSE status[c]]

-----------------------------------------------------------------------------
(* The steps of Dictionary in terms of the mapped variables *)

\* Open, where only the mapped variables are known.
LEMMA MappedOpen ==
    ASSUME NEW c \in Cat,
           Stages[c] = "none", Stages' = [Stages EXCEPT ![c] = "loading"],
           Stores' = [Stores EXCEPT ![c] = Stores'[c]],
           \A j, k \in DOMAIN Stores'[c] : j = k
    PROVE  Dict!Open(c)
  BY DEF Dict!Open, Dict!Becomes, Dict!Only, Stores, Stages, Seen

\* OpenFailed, in the same way.
LEMMA MappedOpenFailed ==
    ASSUME NEW c \in Cat,
           Stages[c] = "none", Stages' = [Stages EXCEPT ![c] = "live"],
           Stores' = Stores
    PROVE  Dict!OpenFailed(c)
  BY DEF Dict!OpenFailed, Dict!Becomes, Stores, Stages, Seen

\* Put, with the key that is put.
LEMMA MappedPut ==
    ASSUME NEW c \in Cat, Stages[c] = "loading", Stages' = Stages,
           Stores' = [Stores EXCEPT ![c] = Stores'[c]],
           NEW k \in DOMAIN Stores'[c] \ {<<>>},
           DOMAIN Stores'[c] = DOMAIN Stores[c] \cup {k},
           \A j \in DOMAIN Stores[c] \ {k} : Stores'[c][j] = Stores[c][j]
    PROVE  Dict!Put(c)
  BY DEF Dict!Put, Dict!Only, Stores, Stages, Seen

\* Publish, in the same way.
LEMMA MappedPublish ==
    ASSUME NEW c \in Cat,
           Stages[c] = "loading", Stages' = [Stages EXCEPT ![c] = "live"],
           Stores' = Stores
    PROVE  Dict!Publish(c)
  BY DEF Dict!Publish, Dict!Becomes, Stores, Stages, Seen

\* Discard, in the same way.
LEMMA MappedDiscard ==
    ASSUME NEW c \in Cat,
           Stages[c] = "loading", Stages' = [Stages EXCEPT ![c] = "none"],
           Stores' = [Stores EXCEPT ![c] = EmptyMap]
    PROVE  Dict!Discard(c)
  BY DEF Dict!Discard, Dict!Becomes, Dict!Nothing, EmptyMap, Stores, Stages, Seen

\* Merge, in the same way.
LEMMA MappedMerge ==
    ASSUME NEW into \in Cat, NEW from \in Cat, into # from,
           Stages[into] = "live", Stages[from] = "live",
           Stages' = [Stages EXCEPT ![from] = "none"],
           Stores' = [Stores EXCEPT ![into] = Dict!United(Stores[into], Stores[from]),
                                    ![from] = EmptyMap]
    PROVE  Dict!Merge(into, from)
  BY DEF Dict!Merge, Dict!Becomes, Dict!Nothing, EmptyMap, Stores, Stages, Seen

\* A step that a client of the dictionaries does not see.
LEMMA MappedStutter ==
    ASSUME Stores' = Stores, Stages' = Stages
    PROVE  UNCHANGED Dict!dictVars
  BY DEF Dict!dictVars, Stores, Stages, Seen

-----------------------------------------------------------------------------
(* What a client sees between merges *)

\* A step, outside of a merge, that changes one catalog at most.
LEMMA StoresChange ==
    ASSUME merging = NoMerge, merging' = NoMerge, NEW c \in Cat,
           \A d \in Cat \ {c} : cat'[d] = cat[d]
    PROVE  /\ Stores[c] = cat[c].map /\ Stores'[c] = cat'[c].map
           /\ Stores' = [Stores EXCEPT ![c] = cat'[c].map]
           /\ cat'[c].map = cat[c].map => Stores' = Stores
  <1>1. Stores = [d \in Cat |-> cat[d].map]
    BY DEF Stores, Seen
  <1>2. Stores' = [d \in Cat |-> cat'[d].map]
    BY DEF Stores, Seen
  <1> QED
    BY <1>1, <1>2

\* A step that changes one status at most.
LEMMA StagesChange ==
    ASSUME TypeInv, NEW c \in Cat, NEW s \in {"none", "loading", "live"},
           status' = [status EXCEPT ![c] = s]
    PROVE  /\ Stages' = [Stages EXCEPT ![c] = s]
           /\ status[c] # "donor" => Stages[c] = status[c]
  BY DEF TypeInv, TypeOK, Stages

\* A step that changes no status changes no stage.
LEMMA StagesSame ==
    ASSUME UNCHANGED status
    PROVE  Stages' = Stages
  BY DEF Stages

\* A constructor that fails publishes what it had, or leaves nothing.
LEMMA FailLoadRefines ==
    ASSUME TypeInv, StoreInv, merging = NoMerge, merging' = NoMerge, NEW c \in Cat,
           NEW object, CatalogType(object), FailLoad(c, object),
           \/ status[c] = "none" /\ object.map = EmptyMap
           \/ status[c] = "loading" /\ object = cat[c]
    PROVE  [Dict!Next]_Dict!dictVars
  <1>1. EmptyMap = Fresh.map
    BY DEF Fresh, Blank, NewObject
  <1>2. status[c] = "none" => cat[c].map = EmptyMap
    BY <1>1 DEF StoreInv
  <1>3. CASE NoExceptions
    <2>1. /\ cat' = [cat EXCEPT ![c] = [object EXCEPT !.error = TRUE]]
          /\ status' = [status EXCEPT ![c] = "live"]
      BY <1>3 DEF FailLoad
    <2>2. [object EXCEPT !.error = TRUE].map = object.map
      BY DEF CatalogType
    <2>3. cat'[c].map = cat[c].map /\ \A d \in Cat \ {c} : cat'[d] = cat[d]
      BY <1>2, <2>1, <2>2 DEF TypeInv, TypeOK
    <2>4. Stores' = Stores
      BY <2>3, StoresChange
    <2>5. Stages' = [Stages EXCEPT ![c] = "live"] /\ Stages[c] = status[c]
      BY <2>1, StagesChange
    <2>6. Dict!OpenFailed(c) \/ Dict!Publish(c)
      BY <2>4, <2>5, MappedOpenFailed, MappedPublish
    <2> QED
      BY <2>6 DEF Dict!Next
  <1>4. CASE ~NoExceptions
    <2>1. /\ cat' = [cat EXCEPT ![c] = Fresh]
          /\ status' = [status EXCEPT ![c] = "none"]
      BY <1>4 DEF FailLoad
    <2>2. cat'[c].map = EmptyMap /\ \A d \in Cat \ {c} : cat'[d] = cat[d]
      BY <1>1, <2>1 DEF TypeInv, TypeOK
    <2>3. /\ Stores' = [Stores EXCEPT ![c] = EmptyMap]
          /\ status[c] = "none" => Stores' = Stores
      BY <1>2, <2>2, StoresChange
    <2>4. Stages' = [Stages EXCEPT ![c] = "none"] /\ Stages[c] = status[c]
      BY <2>1, StagesChange
    <2>5. CASE status[c] = "none"
      <3>1. Stages' = Stages
        BY <2>4, <2>5 DEF Stages
      <3> QED
        BY <2>3, <2>5, <3>1, MappedStutter
    <2>6. CASE status[c] = "loading"
      <3>1. Dict!Discard(c)
        BY <2>3, <2>4, <2>6, MappedDiscard
      <3> QED
        BY <3>1 DEF Dict!Next
    <2> QED
      BY <2>5, <2>6
  <1> QED
    BY <1>3, <1>4

\* insert_message adds one key at most, never the header's for an entry.
LEMMA InsertKeys ==
    ASSUME ~EmplaceConsumes, NEW c, CatalogType(c), NEW m \in Given
    PROVE  \/ InsertMessage(c, m).map = c.map
           \/ /\ DOMAIN InsertMessage(c, m).map = DOMAIN c.map \cup {FormIndex(m)}
              /\ \A k \in DOMAIN c.map \ {FormIndex(m)} :
                   InsertMessage(c, m).map[k] = c.map[k]
  <1>1. ASSUME NEW map
        PROVE  /\ DOMAIN With(map, m) = DOMAIN map \cup {FormIndex(m)}
               /\ \A k \in DOMAIN map \ {FormIndex(m)} : With(map, m)[k] = map[k]
    BY DEF With
  <1>2. CASE Complete(c, m)
    <2>1. InsertMessage(c, m).map = With(c.map, m)
      BY <1>2, InsertCases
    <2> QED
      BY <1>1, <2>1
  <1>3. CASE ~Complete(c, m)
    BY <1>3, InsertCases
  <1> QED
    BY <1>2, <1>3

\* The empty key is the header's: no entry with a msgid has it.
LEMMA EntryKeys ==
    ASSUME NEW m \in Message, m.id # <<>>
    PROVE  FormIndex(m) # <<>>
  <1>1. CASE m.context = NoContext
    BY <1>1 DEF FormIndex
  <1>2. CASE m.context # NoContext
    <2>1. m.context \in Text /\ m.id \in Text
      BY <1>2 DEF Message
    <2>2. Len(FormIndex(m)) = Len(m.context) + 1 + Len(m.id)
      BY <1>2, <2>1, KeyElements DEF FormIndex
    <2>3. Len(m.context) \in Nat /\ Len(m.id) \in Nat
      BY <2>1 DEF Text
    <2>4. Len(<<>>) = 0 /\ \A p, q \in Nat : p + 1 + q # 0
      OBVIOUS
    <2> QED
      BY <2>2, <2>3, <2>4, Zenon
  <1> QED
    BY <1>1, <1>2

-----------------------------------------------------------------------------
(* Every step refines *)

\* A constructor up to its loop opens a dictionary, fails to, or leaves nothing.
LEMMA LoadRefines ==
    ASSUME ~EmplaceConsumes, TypeInv, StoreInv, NEW c \in Cat, Load(c)
    PROVE  [Dict!Next]_Dict!dictVars
  <1>1. merging = NoMerge /\ merging' = NoMerge /\ status[c] = "none"
    BY DEF Load, LoadUnparsable, LoadBadHeader, LoadBadPluralForms,
           LoadBadSingular, LoadHeader, StartLoad, Idle
  <1>2. ASSUME NEW w \in BOOLEAN, NEW h \in Headers, LoadHeader(c, h, w)
        PROVE  [Dict!Next]_Dict!dictVars
    <2> DEFINE m == [h.message EXCEPT !.line = 0]
               object == WithPluralForms(h, w)
    <2>1. /\ cat' = [cat EXCEPT ![c] = InsertMessage(object, m)]
          /\ status' = [status EXCEPT ![c] = "loading"]
          /\ MetadataRead(h)
      BY <1>2 DEF LoadHeader
    <2>2. m \in Given /\ CatalogType(object) /\ DOMAIN object.map = {}
      BY <2>1, ReadIsGiven, HeaderStageTypes, FileAssumption, HeaderStageEmpty
    <2> HIDE DEF m, object
    <2>3. /\ \A d \in Cat \ {c} : cat'[d] = cat[d]
          /\ cat'[c] = InsertMessage(object, m)
      BY <2>1 DEF TypeInv, TypeOK
    <2>4. \A j, k \in DOMAIN cat'[c].map : j = k
      BY <2>2, <2>3, InsertKeys
    <2>5. /\ Stores' = [Stores EXCEPT ![c] = Stores'[c]]
          /\ \A j, k \in DOMAIN Stores'[c] : j = k
      BY <1>1, <2>3, <2>4, StoresChange
    <2>6. Stages[c] = "none" /\ Stages' = [Stages EXCEPT ![c] = "loading"]
      BY <1>1, <2>1, StagesChange
    <2>7. Dict!Open(c)
      BY <2>5, <2>6, MappedOpen
    <2> QED
      BY <2>7 DEF Dict!Next
  <1>3. ASSUME NEW object, CatalogType(object), object.map = EmptyMap, FailLoad(c, object)
        PROVE  [Dict!Next]_Dict!dictVars
    BY <1>1, <1>3, FailLoadRefines
  <1>4. ASSUME NEW w \in BOOLEAN
        PROVE  /\ Blank(w).map = EmptyMap
               /\ \A h \in Headers : /\ WithMetadata(h, w).map = EmptyMap
                                     /\ WithPluralForms(h, w).map = EmptyMap
    BY DEF Blank, WithMetadata, WithPluralForms, NewObject
  <1>5. ASSUME NEW w \in BOOLEAN,
               \/ LoadUnparsable(c, w)
               \/ \E h \in Headers : \/ LoadBadHeader(c, h, w)
                                     \/ LoadBadPluralForms(c, h, w)
                                     \/ LoadBadSingular(c, h, w)
        PROVE  [Dict!Next]_Dict!dictVars
    BY <1>3, <1>4, <1>5, BlankType, HeaderStageTypes, FileAssumption
       DEF LoadUnparsable, LoadBadHeader, LoadBadPluralForms, LoadBadSingular
  <1> QED
    BY <1>2, <1>5 DEF Load

\* A round of the loop puts one entry or none; its end publishes or discards.
LEMMA ReadRefines ==
    ASSUME ~EmplaceConsumes, TypeInv, StoreInv, NEW c \in Cat, Read(c)
    PROVE  [Dict!Next]_Dict!dictVars
  <1>1. status[c] = "loading" /\ merging' = merging
    BY DEF Read, ReadEntry, ReadSecondHeader, ReadUnparsable, FinishLoad
  <1>2. merging = NoMerge /\ merging' = NoMerge /\ CatalogType(cat[c])
    BY <1>1 DEF TypeInv, TypeOK, OneCall
  <1>3. ASSUME NEW entry \in Messages, NEW fuzzy \in BOOLEAN, ReadEntry(c, entry, fuzzy)
        PROVE  [Dict!Next]_Dict!dictVars
    <2> DEFINE m == [entry EXCEPT !.line = line]
    <2>1. /\ cat' = [cat EXCEPT ![c] = ReadInto(c, m, fuzzy)]
          /\ status' = status
          /\ m.id # <<>> /\ m.id = entry.id
      BY <1>3, FileAssumption DEF ReadEntry, Message
    <2>2. m \in Given /\ m \in Message
      BY <2>1, ReadIsGiven, GivenFacts DEF TypeInv, TypeOK
    <2> HIDE DEF m
    <2>3. /\ \A d \in Cat \ {c} : cat'[d] = cat[d]
          /\ cat'[c] = ReadInto(c, m, fuzzy)
      BY <2>1 DEF TypeInv, TypeOK
    <2>4. /\ Stores[c] = cat[c].map /\ Stores'[c] = cat'[c].map
          /\ Stores' = [Stores EXCEPT ![c] = Stores'[c]]
          /\ cat'[c].map = cat[c].map => Stores' = Stores
      BY <1>2, <2>3, StoresChange
    <2>5. Stages' = Stages /\ Stages[c] = "loading"
      BY <1>1, <2>1, StagesSame DEF Stages
    <2>6. CASE cat'[c].map = cat[c].map
      BY <2>4, <2>5, <2>6, MappedStutter
    <2>7. CASE cat'[c].map # cat[c].map
      <3> DEFINE key == FormIndex(m)
      <3>1. cat'[c] = InsertMessage(cat[c], m)
        BY <2>3, <2>7 DEF ReadInto
      <3>2. /\ DOMAIN cat'[c].map = DOMAIN cat[c].map \cup {key}
            /\ \A k \in DOMAIN cat[c].map \ {key} : cat'[c].map[k] = cat[c].map[k]
        BY <1>2, <2>2, <2>7, <3>1, InsertKeys
      <3>3. key # <<>>
        BY <2>1, <2>2, EntryKeys
      <3> HIDE DEF key
      <3>4. Dict!Put(c)
        BY <2>4, <2>5, <3>2, <3>3, MappedPut
      <3> QED
        BY <3>4 DEF Dict!Next
    <2> QED
      BY <2>6, <2>7
  <1>4. CASE (\E m \in Messages : ReadSecondHeader(c, m)) \/ ReadUnparsable(c)
    BY <1>1, <1>2, <1>4, FailLoadRefines DEF ReadSecondHeader, ReadUnparsable
  <1>5. CASE FinishLoad(c)
    <2>1. cat' = cat /\ status' = [status EXCEPT ![c] = "live"]
      BY <1>5 DEF FinishLoad
    <2>2. Stores' = Stores
      BY <1>2, <2>1, StoresChange
    <2>3. Stages[c] = "loading" /\ Stages' = [Stages EXCEPT ![c] = "live"]
      BY <1>1, <2>1, StagesChange
    <2>4. Dict!Publish(c)
      BY <2>2, <2>3, MappedPublish
    <2> QED
      BY <2>4 DEF Dict!Next
  <1> QED
    BY <1>3, <1>4, <1>5 DEF Read

\* A flag is nothing a client sees in the dictionary.
LEMMA FlagRefines ==
    ASSUME TypeInv, merging = NoMerge, merging' = NoMerge, NEW c \in Cat, NEW b \in BOOLEAN,
           \/ cat' = [cat EXCEPT ![c] = [cat[c] EXCEPT !.error = b]]
           \/ cat' = [cat EXCEPT ![c] = [cat[c] EXCEPT !.channel = b]],
           UNCHANGED status
    PROVE  [Dict!Next]_Dict!dictVars
  <1>1. /\ [cat[c] EXCEPT !.error = b].map = cat[c].map
        /\ [cat[c] EXCEPT !.channel = b].map = cat[c].map
    BY DEF TypeInv, TypeOK, CatalogType
  <1>2. cat'[c].map = cat[c].map /\ \A d \in Cat \ {c} : cat'[d] = cat[d]
    BY <1>1 DEF TypeInv, TypeOK
  <1> QED
    BY <1>2, StoresChange, StagesSame, MappedStutter

\* Of the steps of a merge the last one is the abstract merge.
LEMMA MergeRefines ==
    ASSUME ~EmplaceConsumes, TypeInv, StoreInv, MergeInv, Merge
    PROVE  [Dict!Next]_Dict!dictVars
  <1>1. ASSUME NEW into \in Cat, NEW from \in Cat, MergeRejected(into, from)
        PROVE  [Dict!Next]_Dict!dictVars
    <2> DEFINE b == cat[into].error \/ NoExceptions
    <2>1. /\ cat' = [cat EXCEPT ![into] = [cat[into] EXCEPT !.error = b]]
          /\ UNCHANGED status /\ merging = NoMerge /\ merging' = NoMerge /\ b \in BOOLEAN
      BY <1>1 DEF MergeRejected, Idle
    <2> HIDE DEF b
    <2> QED
      BY <2>1, FlagRefines
  <1>2. ASSUME NEW into \in Cat, NEW from \in Cat, BeginMerge(into, from)
        PROVE  [Dict!Next]_Dict!dictVars
    <2>1. /\ merging = NoMerge /\ cat' = cat /\ into # from /\ status[from] = "live"
          /\ merging' = [into |-> into, from |-> from, todo |-> Movable(cat[from]),
                         target |-> cat[into], donor |-> cat[from]]
          /\ status' = [status EXCEPT ![from] = "donor"]
      BY <1>2 DEF BeginMerge, Idle
    <2>2. Stores' = Stores
      <3>1. /\ merging'.into = into /\ merging'.from = from
            /\ merging'.target = cat[into] /\ merging'.donor = cat[from]
        BY <2>1
      <3> QED
        BY <2>1, <3>1 DEF Stores, Seen
    <2>3. Stages' = Stages
      BY <2>1 DEF Stages, TypeInv, TypeOK
    <2> QED
      BY <2>2, <2>3, MappedStutter
  <1>3. ASSUME merging # NoMerge, NEW key \in merging.todo, MergeEntry(key)
        PROVE  [Dict!Next]_Dict!dictVars
    <2>1. /\ \A d \in Cat \ {merging.into, merging.from} : cat'[d] = cat[d]
          /\ status' = status
      BY <1>3, MergingFacts DEF MergeEntry, TypeInv, TypeOK
    <2>2. merging' = [into |-> merging.into, from |-> merging.from,
                      todo |-> merging.todo \ {key},
                      target |-> merging.target, donor |-> merging.donor]
      BY <1>3, MergingFacts DEF MergeType, MergeEntry
    <2>3. /\ merging'.into = merging.into /\ merging'.from = merging.from
          /\ merging'.target = merging.target /\ merging'.donor = merging.donor
          /\ merging' # NoMerge
      BY <2>2 DEF NoMerge
    <2>4. Stores' = Stores
      BY <1>3, <2>1, <2>3 DEF Stores, Seen
    <2> QED
      BY <2>1, <2>4, StagesSame, MappedStutter
  <1>4. CASE FinishMerge
    <2> PICK into \in Cat, from \in Cat : into = merging.into /\ from = merging.from
      BY <1>4, MergingFacts DEF FinishMerge
    <2> DEFINE target == merging.target.map
               donor == merging.donor.map
    <2>1. /\ merging # NoMerge /\ merging.todo = {} /\ merging' = NoMerge
          /\ cat' = [cat EXCEPT ![from] = Fresh]
          /\ status' = [status EXCEPT ![from] = "none"]
      BY <1>4 DEF FinishMerge
    <2>2. /\ into \in Cat /\ from \in Cat /\ into # from
          /\ status[into] = "live" /\ status[from] = "donor"
          /\ CatalogType(cat[into])
      BY <2>1, MergingFacts
    <2>3. Stores[into] = target /\ Stores[from] = donor
      BY <2>1, <2>2 DEF Stores, Seen
    <2>4. cat[into].map = Dict!United(target, donor)
      <3>1. Moved(merging) = DOMAIN donor \ {<<>>}
        BY <2>1 DEF Moved, Movable
      <3>2. /\ DOMAIN cat[into].map = DOMAIN target \cup (DOMAIN donor \ {<<>>})
            /\ \A k \in DOMAIN cat[into].map :
                 cat[into].map[k] = IF k \in DOMAIN donor \ {<<>>} THEN donor[k]
                                    ELSE target[k]
        BY <2>1, <3>1 DEF MergeInv
      <3>3. cat[into].map = [k \in DOMAIN cat[into].map |-> cat[into].map[k]]
        BY <2>2 DEF CatalogType
      <3> HIDE DEF target, donor
      <3> QED
        BY <3>2, <3>3 DEF Dict!United
    <2>5. Stores' = [Stores EXCEPT ![into] = Dict!United(target, donor), ![from] = EmptyMap]
      <3>1. Fresh.map = EmptyMap
        BY DEF Fresh, Blank, NewObject
      <3>2. Stores' = [d \in Cat |-> cat'[d].map]
        BY <2>1 DEF Stores, Seen
      <3>3. /\ cat'[into] = cat[into] /\ cat'[from] = Fresh
            /\ \A d \in Cat \ {into, from} : cat'[d] = cat[d] /\ Stores[d] = cat[d].map
        BY <2>1, <2>2 DEF TypeInv, TypeOK, Stores, Seen
      <3>4. Stores = [d \in Cat |-> Stores[d]]
        BY DEF Stores
      <3> HIDE DEF target, donor
      <3> QED
        BY <2>2, <2>4, <3>1, <3>2, <3>3, <3>4
    <2>6. /\ Stages[into] = "live" /\ Stages[from] = "live"
          /\ Stages' = [Stages EXCEPT ![from] = "none"]
      <3>1. Stages[into] = "live" /\ Stages[from] = "live"
        BY <2>2 DEF Stages
      <3>2. Stages' = [Stages EXCEPT ![from] = "none"]
        BY <2>1, <2>2, StagesChange
      <3> QED
        BY <3>1, <3>2
    <2>7. Dict!Merge(into, from)
      <3>1. Stores' = [Stores EXCEPT ![into] = Dict!United(Stores[into], Stores[from]),
                                     ![from] = EmptyMap]
        BY <2>3, <2>5
      <3> QED
        BY <2>2, <2>6, <3>1, MappedMerge
    <2> QED
      BY <2>2, <2>7 DEF Dict!Next
  <1> QED
    BY <1>1, <1>2, <1>3, <1>4 DEF Merge

-----------------------------------------------------------------------------
(* The refinement *)

\* No catalog, no dictionary.
LEMMA RefinementInit == Init => Dict!Init
  BY DEF Init, Dict!Init, Dict!Nothing, Seen, Fresh, Blank, NewObject, EmptyMap

\* Every step of the catalogs is a step of the dictionaries or a stutter.
LEMMA RefinementStep ==
    ~EmplaceConsumes /\ TypeInv /\ StoreInv /\ MergeInv /\ [Next]_vars
      => [Dict!Next]_Dict!dictVars
  <1> SUFFICES ASSUME ~EmplaceConsumes, TypeInv, StoreInv, MergeInv, [Next]_vars
               PROVE  [Dict!Next]_Dict!dictVars
    OBVIOUS
  <1>1. ASSUME NEW c \in Cat, NEW w \in BOOLEAN, SetWarningChannel(c, w)
        PROVE  [Dict!Next]_Dict!dictVars
    <2>1. /\ merging = NoMerge /\ merging' = NoMerge /\ UNCHANGED status
          /\ cat' = [cat EXCEPT ![c] = [cat[c] EXCEPT !.channel = w]]
      BY <1>1 DEF SetWarningChannel, Idle
    <2> QED
      BY <2>1, FlagRefines
  <1>2. CASE UNCHANGED vars
    <2>1. Stores' = Stores /\ Stages' = Stages
      BY <1>2 DEF vars, Stores, Stages, Seen
    <2> QED
      BY <2>1, MappedStutter
  <1> QED
    BY <1>1, <1>2, LoadRefines, ReadRefines, MergeRefines DEF Next

\* To a client that does not look into a merge, the catalogs are dictionaries:
\* entries are added one at a time while one is opened and never replace its
\* header, and merging is one step, whatever the files and in either build.
THEOREM Refinement ==
    ASSUME ~EmplaceConsumes
    PROVE  Spec => ImplementsDictionary
  BY History, RefinementInit, RefinementStep, PTL DEF Spec, ImplementsDictionary, Dict!Spec
=============================================================================
