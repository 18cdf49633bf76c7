------------------------------ MODULE Catalog ------------------------------
(***************************************************************************)
(* The message catalog of spirit-po: include/spirit_po/catalog.hpp.        *)
(*                                                                         *)
(* A client loads PO files into catalogs, asks them for translations,      *)
(* changes their warning channel and merges one into another.  A load and  *)
(* a merge are sequences of steps here, one per message, because what they *)
(* leave behind when they stop half way is visible to the client.  What is *)
(* read from a file is abstract: a header or an entry is a record of what  *)
(* the parser hands to the constructor.                                    *)
(***************************************************************************)
EXTENDS Naturals, Sequences, FiniteSets

CONSTANTS
    Cat,              \* catalog objects of the client
    Atom,             \* pieces of text; a msgid, context or translation is a
                      \* sequence of them, the empty string is <<>>
    EOT,              \* the separator character, ASCII 4
    NoContext,        \* the disengaged optional<string> of a message
    Undefined,        \* what indexing past the end of a vector returns
    Counts,           \* the numbers n clients ask plural forms for
    Ids, Contexts,    \* the msgids and contexts clients ask for
    Headers,          \* first messages a file can start with
    Messages,         \* messages an entry of a file can hold
    MaxEntries,       \* bound: entries after the header in one file
    MaxLoads,         \* bound: number of loads
    NoExceptions,     \* build: is SPIRIT_PO_NO_EXCEPTIONS defined?
    EmplaceConsumes   \* library: does emplace move from its argument even
                      \* when the key is present?  The C++ standard allows
                      \* both; libstdc++ does, libc++ does not.

Text == Seq(Atom)

Message == [context : Text \cup {NoContext}, id : Text, idPlural : Text,
            strings : Seq(Text), line : Nat]

\* A header is the first message together with what parse_header and the
\* plural-forms compiler make of its text.
Header == [message : Message, accepted : BOOLEAN, num : Nat,
           compiles : BOOLEAN, plural : [Counts -> Nat]]

ASSUME TextAssumption ==
    /\ EOT \in Atom
    /\ NoContext \notin Text
    /\ Undefined \notin Text
    /\ Ids \subseteq Text
    /\ Contexts \subseteq Text

ASSUME CountsAssumption == Counts \subseteq Nat /\ 1 \in Counts

\* The grammar yields at least one msgstr for every message it accepts.
ASSUME FileAssumption ==
    /\ Messages \subseteq Message
    /\ \A m \in Messages : m.strings # <<>>
    /\ Headers \subseteq Header
    /\ \A h \in Headers : h.message.strings # <<>>

ASSUME BoundAssumption == MaxEntries \in Nat /\ MaxLoads \in Nat

ASSUME BuildAssumption ==
    NoExceptions \in BOOLEAN /\ EmplaceConsumes \in BOOLEAN

VARIABLES
    cat,      \* the fields of each catalog object
    status,   \* "none", "loading" in its constructor, "live", or "donor"
    line,     \* where the constructor's iterator stands, counted in entries
    merging,  \* the merge call in progress, or NoMerge
    warning,  \* what the last step sent to a warning channel
    loads,    \* number of constructor calls so far
    log       \* history: the entries each catalog was given, in order

vars == <<cat, status, line, merging, warning, loads, log>>
-----------------------------------------------------------------------------
(* Messages and keys *)

IsPlural(m) == m.idPlural # <<>>

\* Mutant: the separator left out.
FormContextIndexNoSeparator(ctx, id) == ctx \o id

FormContextIndex(ctx, id) == ctx \o <<EOT>> \o id

FormIndex(m) ==
    IF m.context = NoContext THEN m.id ELSE FormContextIndex(m.context, m.id)

\* A po_message whose members were moved from.
MovedFrom(m) ==
    [m EXCEPT !.context = IF @ = NoContext THEN NoContext ELSE <<>>,
              !.id = <<>>, !.idPlural = <<>>, !.strings = <<>>]

\* What is left of the argument of an emplace that did not insert.
AfterEmplace(m) == IF EmplaceConsumes THEN MovedFrom(m) ELSE m

(* The catalog object *)

EmptyMap == [k \in {} |-> k]

\* The members while the header is read: no message yet.
NewObject(num, plural, singular, channel) ==
    [error |-> FALSE, num |-> num, plural |-> plural, singular |-> singular,
     map |-> EmptyMap, channel |-> channel]

\* A default-constructed plural function computes the constant 0.
NoForms == [n \in Counts |-> 0]

Blank(channel) == NewObject(0, NoForms, 0, channel)

Fresh == Blank(FALSE)

\* No merge is in progress.
NoMerge == [none |-> TRUE]

NoWarning == [kind |-> "none", id |-> <<>>, context |-> NoContext]

Translated(m) == m.strings # <<>> /\ m.strings[1] # <<>>

CountFits(c, m) == Len(m.strings) > 1 => Len(m.strings) = c.num

\* Mutants of the test below: either half of it forgotten.
AcceptsUntranslated(c, m) == CountFits(c, m)
AcceptsAnyCount(c, m) == Translated(m)

Accepts(c, m) == Translated(m) /\ CountFits(c, m)

\* The message that insert_message leaves under the key of m.
Stored(c, m) == IF FormIndex(m) \in DOMAIN c.map THEN AfterEmplace(m) ELSE m

\* Mutant: an emplace alone, which keeps the entry that is already there.
KeepingInsert(c, m) ==
    LET key == FormIndex(m)
    IN  IF key \in DOMAIN c.map \/ ~Accepts(c, m) THEN c
        ELSE [c EXCEPT !.map = [k \in DOMAIN c.map \cup {key} |->
                                  IF k = key THEN m ELSE c.map[k]]]

InsertMessage(c, m) ==
    LET key == FormIndex(m)
    IN  IF ~Accepts(c, m) THEN c
        ELSE [c EXCEPT !.map = [k \in DOMAIN c.map \cup {key} |->
                                  IF k = key THEN Stored(c, m) ELSE c.map[k]]]

\* Mutant: the warning about an overwrite is dropped.
NoOverwriteWarning(c, m) ==
    IF c.channel /\ Translated(m) /\ ~CountFits(c, m)
    THEN [kind |-> "count", id |-> m.id, context |-> NoContext]
    ELSE NoWarning

InsertWarning(c, m) ==
    CASE ~c.channel \/ ~Translated(m) -> NoWarning
      [] c.channel /\ Translated(m) /\ ~CountFits(c, m) ->
            [kind |-> "count", id |-> m.id, context |-> NoContext]
      [] OTHER ->
            IF FormIndex(m) \in DOMAIN c.map
            THEN [kind |-> "overwrite", id |-> Stored(c, m).id,
                  context |-> Stored(c, m).context]
            ELSE NoWarning
-----------------------------------------------------------------------------
(* Lookups: the const member functions of a catalog object c *)

\* strings()[i]: operator[] does not check the index.
StringAt(m, i) == IF i < Len(m.strings) THEN m.strings[i + 1] ELSE Undefined

\* Mutant: the cached index is used for a message with one string, too.
GetUnguarded(c, m) == StringAt(m, c.singular)

Get(c, m) ==
    IF Len(m.strings) = 1 THEN StringAt(m, 0) ELSE StringAt(m, c.singular)

\* Mutant: an index past the last string is not replaced by 0.
GetPluralUnclamped(c, m, n) ==
    StringAt(m, IF n = 1 THEN c.singular ELSE c.plural[n])

GetPlural(c, m, n) ==
    LET i == IF n = 1 THEN c.singular ELSE c.plural[n]
    IN  StringAt(m, IF i >= Len(m.strings) THEN 0 ELSE i)

Find(c, key, missing) ==
    IF key \in DOMAIN c.map THEN Get(c, c.map[key]) ELSE missing

FindPlural(c, key, n, id, idPlural) ==
    IF key \in DOMAIN c.map /\ IsPlural(c.map[key])
    THEN GetPlural(c, c.map[key], n)
    ELSE IF n = 1 THEN id ELSE idPlural

Gettext(c, id) == Find(c, id, id)
NGettext(c, id, idPlural, n) == FindPlural(c, id, n, id, idPlural)
PGettext(c, ctx, id) == Find(c, FormContextIndex(ctx, id), id)
NPGettext(c, ctx, id, idPlural, n) ==
    FindPlural(c, FormContextIndex(ctx, id), n, id, idPlural)

\* Where the message found stands in its file, 0 if there is none.
LineNo(c, key) == IF key \in DOMAIN c.map THEN c.map[key].line ELSE 0

GettextLineNo(c, id) == LineNo(c, id)
PGettextLineNo(c, ctx, id) == LineNo(c, FormContextIndex(ctx, id))

\* Mutant: the header is taken for granted.
SizeMinusOne(c) == Cardinality(DOMAIN c.map) - 1

\* A hashmap entry with the empty key is taken for the header.
Size(c) == Cardinality(DOMAIN c.map \ {<<>>})
-----------------------------------------------------------------------------
(* Steps *)

Init ==
    /\ cat = [c \in Cat |-> Fresh]
    /\ status = [c \in Cat |-> "none"]
    /\ line = 0
    /\ merging = NoMerge
    /\ warning = NoWarning
    /\ loads = 0
    /\ log = [c \in Cat |-> <<>>]

\* Every call runs to its end before the client makes the next one.
Idle == merging = NoMerge /\ \A c \in Cat : status[c] # "loading"

StartLoad(c) ==
    /\ Idle
    /\ status[c] = "none"
    /\ loads < MaxLoads
    /\ loads' = loads + 1
    /\ UNCHANGED merging

\* SPIRIT_PO_CATALOG_FAIL in the constructor: the exception destroys the
\* object, or the error is noted and the object stays as it is by now.
FailLoad(c, object) ==
    /\ cat' = [cat EXCEPT ![c] = IF NoExceptions
                                 THEN [object EXCEPT !.error = TRUE] ELSE Fresh]
    /\ status' = [status EXCEPT ![c] = IF NoExceptions THEN "live" ELSE "none"]
    /\ log' = [log EXCEPT ![c] = IF NoExceptions THEN @ ELSE <<>>]
    /\ line' = 0
    /\ warning' = NoWarning

MetadataRead(h) == h.message.id = <<>> /\ h.accepted /\ h.num > 0

WithMetadata(h, w) == NewObject(h.num, NoForms, 0, w)

\* Mutant: the index of the first plural form is cached, not that of n = 1.
WithFirstForm(h, w) == NewObject(h.num, h.plural, 0, w)

WithPluralForms(h, w) == NewObject(h.num, h.plural, h.plural[1], w)

\* The first message cannot be parsed.
LoadUnparsable(c, w) == StartLoad(c) /\ FailLoad(c, Blank(w))

\* The first message is not a header, or parse_header rejects its text.
LoadBadHeader(c, h, w) ==
    /\ StartLoad(c)
    /\ ~MetadataRead(h)
    /\ FailLoad(c, Blank(w))

\* The plural-forms function does not compile.
LoadBadPluralForms(c, h, w) ==
    /\ StartLoad(c)
    /\ MetadataRead(h)
    /\ ~h.compiles
    /\ FailLoad(c, WithMetadata(h, w))

\* Mutant of the next test.
SingularOffByOne(h) == h.plural[1] <= h.num

SingularFits(h) == h.plural[1] < h.num

\* The plural-forms function has no form for n = 1.
LoadBadSingular(c, h, w) ==
    /\ StartLoad(c)
    /\ MetadataRead(h)
    /\ h.compiles
    /\ ~SingularFits(h)
    /\ FailLoad(c, WithPluralForms(h, w))

\* The header is in order and is inserted like any message, at line 0.
LoadHeader(c, h, w) ==
    LET m == [h.message EXCEPT !.line = 0]
        object == WithPluralForms(h, w)
    IN  /\ StartLoad(c)
        /\ MetadataRead(h)
        /\ h.compiles
        /\ SingularFits(h)
        /\ cat' = [cat EXCEPT ![c] = InsertMessage(object, m)]
        /\ status' = [status EXCEPT ![c] = "loading"]
        /\ log' = [log EXCEPT ![c] = <<[message |-> m, fuzzy |-> FALSE]>>]
        /\ line' = 1
        /\ warning' = InsertWarning(object, m)

\* Mutant: fuzzy entries are inserted like the others.
ReadFuzzyEntry(c, m, fuzzy) == InsertMessage(cat[c], m)

ReadInto(c, m, fuzzy) == IF fuzzy THEN cat[c] ELSE InsertMessage(cat[c], m)

\* One round of the loop: an entry is parsed and, unless fuzzy, inserted.
ReadEntry(c, entry, fuzzy) ==
    LET m == [entry EXCEPT !.line = line]
    IN  /\ status[c] = "loading"
        /\ line <= MaxEntries
        /\ m.id # <<>>
        /\ cat' = [cat EXCEPT ![c] = ReadInto(c, m, fuzzy)]
        /\ warning' = IF fuzzy THEN NoWarning ELSE InsertWarning(cat[c], m)
        /\ log' = [log EXCEPT ![c] = Append(@, [message |-> m, fuzzy |-> fuzzy])]
        /\ line' = line + 1
        /\ UNCHANGED <<status, merging, loads>>

\* An entry that cannot be parsed.
ReadUnparsable(c) ==
    /\ status[c] = "loading"
    /\ line <= MaxEntries
    /\ FailLoad(c, cat[c])
    /\ UNCHANGED <<merging, loads>>

\* An entry with the msgid of the header, in whatever context.
ReadSecondHeader(c, m) ==
    /\ status[c] = "loading"
    /\ line <= MaxEntries
    /\ m.id = <<>>
    /\ FailLoad(c, cat[c])
    /\ UNCHANGED <<merging, loads>>

\* The iterator is at the end of the file.
FinishLoad(c) ==
    /\ status[c] = "loading"
    /\ status' = [status EXCEPT ![c] = "live"]
    /\ line' = 0
    /\ warning' = NoWarning
    /\ UNCHANGED <<cat, merging, loads, log>>

SetWarningChannel(c, w) ==
    /\ Idle
    /\ status[c] = "live"
    /\ cat' = [cat EXCEPT ![c].channel = w]
    /\ warning' = NoWarning
    /\ UNCHANGED <<status, line, merging, loads, log>>

\* Mutant: any two catalogs can be merged.
AnyCompatible(c, d) == TRUE

\* check_compatibility: nothing but the number of plural forms is compared.
Compatible(c, d) == c.num = d.num

\* merge rejects the other catalog: an error is noted, or an exception leaves
\* both objects as they were.
MergeRejected(into, from) ==
    /\ Idle
    /\ into # from
    /\ status[into] = "live" /\ status[from] = "live"
    /\ ~Compatible(cat[into], cat[from])
    /\ cat' = [cat EXCEPT ![into].error = @ \/ NoExceptions]
    /\ warning' = NoWarning
    /\ UNCHANGED <<status, line, merging, loads, log>>

\* Mutants: the header of the other catalog is moved like any entry; it is
\* moved on the assumption that it was stored.
MovableAll(c) == DOMAIN c.map
MovableWithHeader(c) == DOMAIN c.map \cup {<<>>}

Movable(c) == DOMAIN c.map \ {<<>>}

\* The client gives up the catalog it merges from.
BeginMerge(into, from) ==
    /\ Idle
    /\ into # from
    /\ status[into] = "live" /\ status[from] = "live"
    /\ Compatible(cat[into], cat[from])
    /\ status' = [status EXCEPT ![from] = "donor"]
    /\ merging' = [into |-> into, from |-> from, todo |-> Movable(cat[from]),
                   target |-> cat[into], donor |-> cat[from]]
    /\ warning' = NoWarning
    /\ UNCHANGED <<cat, line, loads, log>>

\* The other catalog, when the message under key was moved to object c, if it was.
Drained(other, key, c) ==
    [other EXCEPT !.map = [k \in DOMAIN other.map |->
                             IF k = key /\ Accepts(c, other.map[k])
                             THEN MovedFrom(other.map[k]) ELSE other.map[k]]]

\* One round of the loop over the other hashmap, whose order is arbitrary.
MergeEntry(key) ==
    LET into == merging.into
        from == merging.from
        m    == cat[from].map[key]
    IN  /\ cat' = [cat EXCEPT ![into] = InsertMessage(cat[into], m),
                              ![from] = Drained(cat[from], key, cat[into])]
        /\ warning' = InsertWarning(cat[into], m)
        /\ log' = [log EXCEPT ![into] = Append(@, [message |-> m, fuzzy |-> FALSE])]
        /\ merging' = [merging EXCEPT !.todo = @ \ {key}]
        /\ UNCHANGED <<status, line, loads>>

\* merge returns, and the client lets go of what is left of the donor.
FinishMerge ==
    /\ merging # NoMerge
    /\ merging.todo = {}
    /\ cat' = [cat EXCEPT ![merging.from] = Fresh]
    /\ status' = [status EXCEPT ![merging.from] = "none"]
    /\ log' = [log EXCEPT ![merging.from] = <<>>]
    /\ merging' = NoMerge
    /\ warning' = NoWarning
    /\ UNCHANGED <<line, loads>>

Load(c) ==
    \E w \in BOOLEAN :
        \/ LoadUnparsable(c, w)
        \/ \E h \in Headers :
              \/ LoadBadHeader(c, h, w)
              \/ LoadBadPluralForms(c, h, w)
              \/ LoadBadSingular(c, h, w)
              \/ LoadHeader(c, h, w)

Read(c) ==
    \/ \E m \in Messages :
          \/ \E fuzzy \in BOOLEAN : ReadEntry(c, m, fuzzy)
          \/ ReadSecondHeader(c, m)
    \/ ReadUnparsable(c)
    \/ FinishLoad(c)

Merge ==
    \/ \E into, from \in Cat : MergeRejected(into, from) \/ BeginMerge(into, from)
    \/ merging # NoMerge /\ \E key \in merging.todo : MergeEntry(key)
    \/ FinishMerge

Next ==
    \/ \E c \in Cat : Load(c) \/ Read(c) \/ \E w \in BOOLEAN : SetWarningChannel(c, w)
    \/ Merge

Spec == Init /\ [][Next]_vars
-----------------------------------------------------------------------------
(* Properties *)

LogEntry == [message : Message, fuzzy : BOOLEAN]

CatalogType(c) ==
    /\ c = [error |-> c.error, num |-> c.num, plural |-> c.plural,
            singular |-> c.singular, map |-> c.map, channel |-> c.channel]
    /\ c.error \in BOOLEAN /\ c.channel \in BOOLEAN
    /\ c.num \in Nat /\ c.singular \in Nat
    /\ c.plural \in [Counts -> Nat]
    /\ c.map = [k \in DOMAIN c.map |-> c.map[k]]
    /\ DOMAIN c.map \subseteq Text
    /\ \A k \in DOMAIN c.map : c.map[k] \in Message

MergeType(m) ==
    /\ m = [into |-> m.into, from |-> m.from, todo |-> m.todo,
            target |-> m.target, donor |-> m.donor]
    /\ m.into \in Cat /\ m.from \in Cat /\ m.into # m.from
    /\ m.todo \subseteq DOMAIN cat[m.from].map
    /\ CatalogType(m.target) /\ CatalogType(m.donor)

\* Every variable holds a value the source's types allow; a merge has two
\* different catalogs and never visits a key that is not there.
TypeOK ==
    /\ cat = [c \in Cat |-> cat[c]] /\ \A c \in Cat : CatalogType(cat[c])
    /\ status \in [Cat -> {"none", "loading", "live", "donor"}]
    /\ line \in Nat /\ loads \in Nat
    /\ merging # NoMerge => MergeType(merging)
    /\ warning \in [kind : {"none", "count", "overwrite"}, id : Text,
                    context : Text \cup {NoContext}]
    /\ log \in [Cat -> Seq(LogEntry)]

\* The catalogs a client may query, the one under construction included: its
\* warning channel can.
InUse == {c \in Cat : status[c] \in {"loading", "live"}}

\* What the SPIRIT_PO_DEBUG build checks at the end of a load, for every
\* catalog at every step: a stored message has its first string, and one string
\* or as many as the catalog has plural forms (get() relies on it).
StoredWellFormed ==
    \A c \in InUse : \A k \in DOMAIN cat[c].map :
        LET strings == cat[c].map[k].strings
        IN  Len(strings) \in {1, cat[c].num} /\ strings # <<>> /\ strings[1] # <<>>

\* gettext and pgettext never index past the strings of the message they find.
GettextDefined ==
    \A c \in InUse : \A id \in Ids :
        /\ Gettext(cat[c], id) # Undefined
        /\ \A ctx \in Contexts : PGettext(cat[c], ctx, id) # Undefined

\* Nor do ngettext and npgettext, for any n, after whatever loads and merges.
PluralLookupDefined ==
    \A c \in InUse : \A id \in Ids, n \in Counts :
        /\ NGettext(cat[c], id, id, n) # Undefined
        /\ \A ctx \in Contexts : NPGettext(cat[c], ctx, id, id, n) # Undefined

\* The cached singular_index_ is the plural form of n = 1, also in a catalog
\* whose constructor failed: ngettext(.., 1) and gettext answer alike.
SingularIsFormOfOne ==
    \A c \in InUse : cat[c].singular = cat[c].plural[1]

\* The message found for a msgid, or for a context and a msgid, is the one with
\* exactly that context and msgid: no two queries share a key.
AnswersItsQuery ==
    \A c \in InUse : \A id \in Ids :
        LET map == cat[c].map
            Asked(key, ctx) == key \in DOMAIN map =>
                                 map[key].id = id /\ map[key].context = ctx
        IN  /\ Asked(id, NoContext)
            /\ \A ctx \in Contexts : Asked(FormContextIndex(ctx, id), ctx)

\* size() counts the messages that are not the header.
SizeExcludesHeader ==
    \A c \in InUse :
        Size(cat[c]) = Cardinality({k \in DOMAIN cat[c].map : cat[c].map[k].id # <<>>})

\* The entries of a catalog's history that should be in it.
Usable(c, e) ==
    LET n == Len(e.message.strings)
    IN  ~e.fuzzy /\ n \in {1, cat[c].num} /\ e.message.strings[1] # <<>>

\* A catalog holds exactly the last usable entry given for each key, in file
\* order and then in the order of merging, with its line number; in a catalog
\* whose load failed, of the entries before the failure.
LastUsableEntryWins ==
    \A c \in InUse :
        LET Positions(k) == {i \in DOMAIN log[c] :
                               Usable(c, log[c][i]) /\ FormIndex(log[c][i].message) = k}
            Last(k) == CHOOSE i \in Positions(k) : \A j \in Positions(k) : j <= i
            Keys == {FormIndex(log[c][i].message) : i \in DOMAIN log[c]}
        IN  /\ DOMAIN cat[c].map = {k \in Keys : Positions(k) # {}}
            /\ \A k \in DOMAIN cat[c].map : cat[c].map[k] = log[c][Last(k)].message

\* A merge that returns has moved every message of the other catalog but its
\* header, whatever the order of the hashmap: the target has the union of both,
\* the other catalog's message where they collide, and its own metadata.
MergeIsUnion ==
    [][merging # NoMerge /\ merging' = NoMerge =>
         LET before == merging.target
             moved  == DOMAIN merging.donor.map \ {<<>>}
             after  == cat[merging.into]
         IN  /\ DOMAIN after.map = DOMAIN before.map \cup moved
             /\ \A k \in DOMAIN after.map :
                  after.map[k] = IF k \in moved THEN merging.donor.map[k]
                                 ELSE before.map[k]
             /\ [after EXCEPT !.map = before.map] = before]_vars

\* A message in a catalog is never replaced without a warning that names it,
\* while the catalog has a warning channel.
NoSilentClobber ==
    [][\A c \in InUse \cap InUse' :
         \A k \in DOMAIN cat[c].map :
            LET old == cat[c].map[k]
            IN  cat[c].channel /\ cat'[c].map[k] # old
                  => warning' = [kind |-> "overwrite", id |-> old.id,
                                 context |-> old.context]]_vars

\* What a client sees of the catalogs: both as they were until a merge returns.
Seen(c) ==
    IF merging # NoMerge /\ c = merging.into THEN merging.target.map
    ELSE IF merging # NoMerge /\ c = merging.from THEN merging.donor.map
    ELSE cat[c].map

\* The catalogs are dictionaries: a load adds one entry at a time and never
\* replaces the header, a failed one is gone or stays as it is, and a merge of
\* many steps is one step to a client that does not look in between.
Dict == INSTANCE Dictionary WITH
    HeaderKey <- <<>>,
    store <- [c \in Cat |-> Seen(c)],
    status <- [c \in Cat |-> IF status[c] = "donor" THEN "live" ELSE status[c]]
ImplementsDictionary == Dict!Spec
=============================================================================
