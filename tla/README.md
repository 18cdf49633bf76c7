# A verification of spirit-po in TLA+

spirit-po is a header-only C++ library: it parses gettext `.po` files into
message catalogs and answers `gettext`, `ngettext`, `pgettext` and `npgettext`.
This directory models it in TLA+, model-checks the models with TLC and proves
theorems about them with TLAPS. Paths below are relative to
`include/spirit_po/` unless they say otherwise.

## 1. The system

| component | files | state | operations |
|---|---|---|---|
| catalog | `catalog.hpp`, `po_message.hpp`, `exceptions.hpp` | `hashmap_`, `metadata_`, `pf_function_object_`, `singular_index_`, `warning_channel_`, `error_message_` | the constructor (load a file), `merge`, `set_warning_channel`; lookups and `size()` read only |
| header metadata | `catalog_metadata.hpp` | `num_plural_forms`, `plural_forms_function_string`, `charset`, ... | `parse_header`, `check_compatibility` |
| PO grammar | `po_grammar.hpp` | the iterator into the file | one rule per kind of line and of string, `ignored_comments`, `fuzzy`, `message_preamble`, `message` |
| plural-forms grammar | `default_plural_forms_expressions.hpp:179-244` | none | text to expression tree |
| plural-forms compiler and stack machine | the rest of that file, `default_plural_forms_compiler.hpp` | instructions, stack, `n_value_`, program counter | emit; `compute(n)` |
| error texts | `exceptions.hpp` | none | compose messages |
| inspector, tests | `src/util`, `src/test`, `src/test_libintl` | none | clients of the library |

How they interact. The client constructs a catalog from a file. The constructor
runs the PO grammar on the first message, which must have an empty msgid, gives
its text to `parse_header`, and the `Plural-Forms` expression in it to the
compiler. The function object it gets back is called with 1 and the answer
cached in `singular_index_`. Then it alternates between skipping comments and
parsing entries, and passes each entry that is not fuzzy to `insert_message`.
Everything is a direct call. The only callback is the warning channel. `merge`
moves the messages of another catalog into this one, through `insert_message`
again. A lookup calls the function object, whose stack machine is `mutable`.

Where it is hard:

- *Failure half way.* Each of six checks can end a load. With exceptions the
  object is gone; with `SPIRIT_PO_NO_EXCEPTIONS` it stays in use, with what it
  held at that moment, and can be merged.
- *Cached values.* `singular_index_` is assigned before it is checked and used
  unchecked by every `gettext` of a plural message.
- *Moves.* A message is passed to `emplace` with `std::move` and, if the key was
  there, used again. What is left of it depends on the standard library.
- *Order.* Later entries replace earlier ones; a merge visits the other hashmap
  in an unspecified order.
- *Key space.* The header, messages and messages in a context share one map.
- *Generated code.* Jump distances are computed by hand, the shorter branch of
  `?:` goes first, and results that "obviously" are boolean are not normalised.
- *Shared machine.* `operator() const` of the plural-forms function writes.
- *Nullable rules and ordered choice.* Two of the three parsers of the loop match
  nothing too; which of four rules takes a comment decides whether an entry is
  fuzzy, what its line is, and whether the end of the file is reached.
- *Lines found by text.* A header field is whatever follows the first occurrence of
  its label; the tests on it are skipped when a small grammar does not match.

What makes each part correct:

- catalog: it holds the last usable entry for each key and nothing else, a merge
  gives the union, nothing is replaced silently, a lookup is answered by the
  message with that context and msgid and never reads past its strings;
- compiler and machine: every call is answered with the value of the expression
  as C defines it, and division by zero is met only where C meets it;
- PO grammar: an entry is fuzzy exactly when its comments say so, a load consumes
  the file or fails, no text between entries makes it stop early;
- header metadata: the number of plural forms and the expression are those of
  the header, and the defaults apply only where the header is silent.

`PROJECT.json` lists the hazards one by one with their lines and the properties
that cover them.

## 2. The modules

| module | what it is |
|---|---|
| `Catalog` | catalogs: load, lookup, size, warning channel, merge |
| `Dictionary` | abstract: what a catalog is to its client |
| `PoGrammar` | the rules of `po_grammar.hpp` over sequences of tokens |
| `PoCatalog` | composes both: the constructor of `Catalog` reading a file with `PoGrammar` |
| `HeaderMetadata` | `parse_header` |
| `PluralGrammar` | `op_grammar`, the compiler's acceptance, and C to compare with |
| `PluralForms` | composes both: from the text of a header to a function object |
| `LookupThreads` | threads of a client over one stack machine |
| `MCCatalog`, `MCPoCatalog`, `MCPluralForms`, `MCLookupThreads` | inputs for TLC |
| `CatalogProofs` | theorems about `Catalog`: types, and that lookups are defined |
| `CatalogHistoryProofs` | theorems about what a catalog holds after a history of loads and merges; `Catalog` implements `Dictionary` |
| `PluralOps` | C operators and instruction set |
| `PluralExpr` | expressions; evaluator, `is_boolean` and emitter of one node, given those of its parts |
| `PluralCompiler` | the recursion that applies them to a whole expression |
| `StackMachine` | the machine, for any instructions |
| `PluralFunction` | abstract: what a compiled function promises |
| `MCStackMachine` | the machine with the emitter's programs |
| `StackMachineProofs` | theorems about `StackMachine` and about what is emitted for it |
| `HeaderMetadataProofs` | theorems about `HeaderMetadata` |
| `PoCatalogProofs` | theorems about `PoCatalog`: rules, rounds, types, and that it implements `Catalog` |
| `PoFileProofs` | theorems about what a load makes of a file: flags, completeness, line numbers, success |
| `Descent` | lemmas: first positions, functions defined by recursion on positions |
| `LookupThreadsProofs` | theorems about `LookupThreads` |

### Catalog

`cat[c]` is the object of catalog `c`: `map` is `hashmap_`, `num` is
`metadata_.num_plural_forms`, `plural` the function object as a function on the
numbers clients ask for, `singular` is `singular_index_`, `channel` says whether
there is a warning channel, `error` whether `error_message_` is set. `status[c]`
says whether the client has the object (`live`), its constructor is running
(`loading`), it is being merged from (`donor`), or there is none. `line` is the
iterator of the running constructor: entries are counted, not lines, which keeps
what the code uses line numbers for (telling two entries apart). `merging` is the
merge in progress, with copies of both catalogs as they were when it began, which
only `MergeIsUnion` and the refinement mapping read. `log[c]` is a history of the entries given to `c`, read by
properties and never by an action. `warning` is what the step said on the
channel.

| action | code |
|---|---|
| `LoadUnparsable`, `LoadBadHeader`, `LoadBadPluralForms`, `LoadBadSingular` | the four ways the constructor fails before its loop, `catalog.hpp:157-197` |
| `LoadHeader` | header accepted and inserted, 157-201 |
| `ReadEntry`, `ReadUnparsable`, `ReadSecondHeader` | one round of the loop, 203-235 |
| `FinishLoad` | end of the file, 203-246 |
| `SetWarningChannel` | 442-445 |
| `MergeRejected`, `BeginMerge`, `MergeEntry`, `FinishMerge` | `merge`, 447-461, one `MergeEntry` per message in any order |

`InsertMessage` and `InsertWarning` are `insert_message` (92-124). Lookups are
operators on a catalog, so that the properties ask them in every state: the
warning channel is called in the middle of loads and merges.

Text is a sequence of atoms, so that contexts and msgids are concatenated with
the separator as the code does it. What the parser makes of a file is an input:
a header comes with what `parse_header` and the compiler make of it, an entry is
a message and whether it was fuzzy.

Two constants are the build: `NoExceptions` is `SPIRIT_PO_NO_EXCEPTIONS`, and
`EmplaceConsumes` says whether `unordered_map::emplace` moves from its argument
when the key is already there. The standard allows both. libstdc++ builds the
node before it looks for the key, libc++ looks first for a key and value of this
form. `AfterEmplace` and `MovedFrom` are external in the map.

`Dictionary` is a catalog seen from outside: it is opened with no entry but a
header, entries are put into it one at a time, it is published or discarded, and
a merge is a single step that gives the union and leaves the header alone.
`ImplementsDictionary` is the refinement. A merge in progress is mapped to the two
maps as they were when it began, so that all its steps but the last stutter.

### Files

A file is a sequence of tokens: the characters that the rules name (`#`, `,`, the
quote, white characters), the keywords, the escapes, and pieces of any other text.
A rule of `PoGrammar` is a function from a position to the position behind its
match or to `Fail`; a rule with an attribute returns a record. The ordered choices,
the kleene stars and the list operator are those of the source. The recursive rules
are recursive functions on positions. The keywords of plural strings are the constant
`StrKeys`, one for each index that files use; `KeysAssumption` says that they differ from
each other and from what else the rules tell apart.

`PoCatalog` extends `Catalog` with `file` and `pos`, the iterator. Each of its
actions runs the rules at `pos`, and is conjoined with the action of `Catalog` that
the result leads to:

| action | code | action of `Catalog` |
|---|---|---|
| `ReadHeader` | `catalog.hpp:157-201` | `LoadUnparsable` or one of `LoadFrom` |
| `ReadLastComments` | a round that comments exhaust, 203-213 | none |
| `ReadMessage` | any other round, 203-235 | `ReadUnparsable`, `ReadSecondHeader` or `ReadEntry` |
| `Finish` | the end of the loop | `FinishLoad` |

`Catalog` assumes of its files that a message has at least one string
(`FileAssumption`); here the grammar has to provide it (`PoTypeOK`). What becomes
of a header's text is the constant `Meaning`; `MeaningAssumption` gives it a type, and
`TokensAssumption` says that texts are made of what tokens stand for. `rounds` and `starts` are history.

### Header and plural forms

`HeaderMetadata` has one action per group of lines of `parse_header`, in its order,
because what was assigned before an error is what a failed catalog keeps. Labels
like `Language:` are tokens, found wherever they stand.

`PluralGrammar` has the levels of `op_grammar` over tokens, each with its operators
and the level of its right operand. `CRead` is the reference: a text is split at the
operator that binds least, the last one of its level, outside of all parentheses. An
accepted text is evaluated with the evaluator of `PluralCompiler`. `PluralForms` runs the
compiler on what `parse_header` leaves in the metadata (`catalog.hpp:171-189`).

### Threads

`LookupThreads` gives each thread a call with its own program counter, and all of
them one machine, as `mutable stack_machine machine_` does. Nothing in the library
says that lookups may run concurrently, so the client of the model holds a lock of
its own, but not around calls with n = 1, which the cache answers
(`catalog.hpp:87`). `MayCall`, `Taken` and `Released` are that lock, external in the map. The
model shows that such a lock is enough, and that it would not be if the cached form went
through the function. Lookups without any lock disturb each other's stack; no document of
the library promises otherwise, and they are not modelled.

`Program` is any code and `LoneStack(n)` says which stack a call with `n` has at each
position it comes by when it has the machine to itself. `LoneCallAssumption` says that
such a call is right (`Computes`): it finds its operands at each position and ends with
the form of `n`. TLC computes the stacks of an emitted program and evaluates the
assumption; `LoneCallsCompute` proves that the emitted program of any expression has such
stacks for every `n` at which it is defined. What is left for `LookupThreads` to show is
that a call which is right alone is right among others.

### The plural-forms function

`PluralExpr` has the expression tree, the evaluator that the tests of the
repository compare the machine with, `is_boolean` and the emitter. Each says what a
visitor makes of one node, given what it makes of the parts: `Evaluated`,
`BooleanByShape`, `Emitted`. `PluralCompiler` has the recursive operators `Eval`,
`IsBoolean` and `Emit`, which TLC runs. A module with a recursive operator cannot be
proved about, so the theorems are about any functions on a set of expressions, closed
under parts, that satisfy these equations (`Visits`).

`StackMachine` has one action per kind of instruction; its instructions are the constant
`Program(source)`. `Height(source)` gives the stack height before every
instruction and `ProgramAssumption` says that the heights add up: TLC evaluates
it for every emitted program, with the heights computed in
`PluralCompiler!Heights`. `CompilerAssumption` is `Visits` for the sources, with
`Value`, `ZeroOne` and `Program` for evaluator, `is_boolean` and emitter; TLC evaluates
it for the recursive operators, on all sources and their parts. A division by zero leads to phase `undefined`, from which
nothing follows. `PluralFunction` promises an answer to each call, equal to the
evaluator's, whatever was called before; `ImplementsFunction` is the refinement
(`Function == INSTANCE PluralFunction`: source, `n`, phase and result are the
same, program counter and stack are the machine's own).

`uint` is a natural number here: no operator yields more than its operands, so
no width can be exceeded. A constant that does not fit is not parsed by `qi::uint_`
and is, in `PluralGrammar`, like any other token that is not a number.

## 3. The runs

| run | instance | what it shows |
|---|---|---|
| `catalog_default` | 2 catalogs, 7 headers; one file of up to 3 of 7 entries, or two of up to 2 of 3 and merges | all ways a load can end; storage, lookups, size, order and warnings; merges after any two loads, in any order of the hashmap, the channel set and cleared in between |
| `catalog_no_exceptions` | 2 catalogs, 5 headers, 3 entries, files of up to 2, `NoExceptions` | failed catalogs stay usable: their plural lookups are defined, their cached index is right, and a merge into or from them is a union too |
| `stack_machine` | 1605 expressions, 4 numbers | emitter and machine implement the evaluator |
| `po_files` | a header and up to 4 of 8 comments, flags, white lines and entries, with 4 ends of the file; a header and up to 4 of 9, or up to 5 of 6 lines of messages in any order | the loop ends; layout never fails a load; fuzzy markers and line numbers belong to the right entry; what loads was read completely |
| `plural_forms` | header texts of up to 3 of 22 lines in any order; a `Plural-Forms` line with every text of up to 4 of 13 tokens, and 5 operands with every choice of 4 operators, flat and grouped | fields, defaults, what a rejected header leaves; acceptance and meaning of expressions against C |
| `lookup_threads` | 3 threads, 4 numbers, an expression with `?:`, `&&`, `!`, `%` | each thread gets its own answer |
| `duplicate_msgid`, `failed_target`, `header_context`, `white_tail` | small, or as above | violations, section 6 |
| `foreign_label` | header texts of up to 2 of the 22 lines | violation, section 6 |
| `chained_operators` | a `Plural-Forms` line with every text of 5 of the tokens `n 2 % < ==` | violation, section 6 |

Properties of the catalog: `TypeOK`; `StoredWellFormed`, the check of the debug
build (`catalog.hpp:237-244`) in every state; `GettextDefined` and
`PluralLookupDefined`, no lookup reads past the strings; `SingularIsFormOfOne`,
the cache is right; `AnswersItsQuery`, no two queries share a key;
`SizeExcludesHeader`; `LastUsableEntryWins`, the map is determined by the
history; `MergeIsUnion`, over a whole merge; `ImplementsDictionary`, the refinement;
`NoSilentClobber`, a step never replaces a message without naming it. `GettextDefined` and `StoredWellFormed` are
not among the properties of the builds in which they fail.

Properties of the machine: `TypeOK`; `HeightByPosition`, the stack height depends
only on the program counter; `OperandsPresent` and `EndsBalanced`, the assertions
of the debug build; `ImplementsFunction`, the refinement with its liveness.

Properties of a file being read: `PoTypeOK`, with the promise that `Catalog` relies
on; `RoundsConsume`, no round of the loop leaves the iterator where it was;
`LegibleLoads`, layout is never the reason that a load fails; `FuzzyAsMarked`, which
compares what the rules decide with a reading of the comment lines directly before
the entry; `LineNumbersFindEntries`; `NothingLost`, the messages written down again
are the file without its layout and comments. Which files have to load is said without
the rules: `Legible` reads a file item by item (a keyword with its string, a further
piece, a comment, a white line) and asks only that keywords come in order (`Order`),
that comments and white lines stand between items and not inside them, that the first
msgid is empty and no other is, and that the header makes sense.

Properties of the header: `RejectedHasNoForms`, which keeps a failed catalog from
being compatible with one that was loaded; `NamesFromOwnLines`, a name whose label
stands nowhere but at the start of a line is what the first such line says, whatever else
the header has; `FieldsFromOwnLines`, for what is parsed further, compared by positions in
the text with what its line declares. `NamesAreDeclared` drops the condition on the place of
the label, and is violated. Of the expression
grammar: `AcceptsUnchainedC`, C without chains compiles and nothing but C does, and
`MeansWhatCMeans`; `AcceptsC`, all of C compiles, is violated. Of threads:
`AnswersTheirOwnN` and `NobodyTakesOperands`.

Bounds and why they are enough:

- `MaxEntries`: `insert_message` depends on the presence of the key only, so
  three entries give an insertion, a replacement and another one after it, with
  fuzzy and unusable ones before, between and after; a merge adds two more.
- `SecondFileIsShort`, the constraint of `catalog_default`: a second file is loaded only if
  the first is short and of ordinary entries, and is such a file itself. What a merge does
  depends on keys and numbers of strings, which those entries have all kinds of: a
  message that both files may have, one beside it, and one that is not stored.
- `MaxLoads = 2` and two catalogs: a merge has two sides and is a single call at
  a time; a catalog merged twice would receive entries as one merged once does.
- `Counts = {0, 1, 2}`: 1 is special in the code, one number on each side is not.
- Entries: one message with one string, with two, with three where the header
  says two, untranslated, in a context, in an empty context, and with the msgid
  of the header. Headers: one for each way to fail, and plural functions that
  choose form 0 or 1 for n = 1 or a form that does not exist for n = 2.
- Expressions: one operator over eleven parts, which are boolean by shape or
  not, long or short, constant or not, undefined for some n or not. The emitter
  looks only at the lengths of its parts' code and at `is_boolean`, and the parts
  have all combinations. The tests of `?:` are four: the test's code stands
  before the skip and its shape plays no part. The Polish header of the library's
  README adds depth, and 12 is a number on which `n % 10` and `n` differ.
- Files: four pieces put every kind of piece before, between and after two others
  of any kind; the rules look at one comment block and the line behind it. Four or
  five lines are the longest message (context, id, plural, two strings) or two
  short ones. The run has three keywords in `StrKeys`: a first, one between, and a last one.
- Header lines: a field, a repetition of it and a line between them.
- Tokens: four operators with five operands have every pair of levels next to each
  other and every nesting of three; texts of four tokens are every way to be
  incomplete.
- Threads: one in the machine, one that waits for it, one that needs no lock.
- The passing runs have an `emplace` that leaves its argument alone; `duplicate_msgid` has
  one that does not. The theorems `TypeCorrect`, `PluralLookupsDefined` and
  `SingularCacheCorrect` are about both.

Catalogs are symmetric in `Catalog`: no action tells them apart but by their
state, and no liveness is checked there, so `Permutations(Cat)` is sound.
`CHECK_DEADLOCK` is `FALSE` because a client may stop making calls (`Catalog`)
and a division by zero ends the program (`StackMachine`). Everywhere else deadlock
is checked: in `PoCatalog` it says that a round of the loop is possible until the
load is over (`Over` is the client that has its catalog).

Fairness. `Catalog` states none: a client need not finish anything it
began, and all its properties are safety. `StackMachine` assumes
`WF_vars(Step)`: `compute` is a loop that runs until it returns. Nothing says
that a client calls it. `LookupThreads` states none: what could keep a thread waiting in it
is the client's own lock, from which nothing about the library follows. That the loop of
the constructor ends is shown without fairness and without liveness: `RoundsConsume` bounds its rounds by
the length of the file, and there is no deadlock.

## 4. What is proved

`CatalogProofs`, for any sets of catalogs, texts, headers and entries, any
bounds, and under the assumptions stated in `Catalog` (in particular
`FileAssumption`: the grammar yields at least one msgstr per message):

- `TypeCorrect`: `Spec => []TypeOK`. `TypeOK` alone is not inductive:
  `OneCall` adds that no constructor runs during a merge and that the two catalogs
  of a merge are `live` and `donor`. Without it a load could fail in the donor and
  take away keys that the merge has yet to visit.
- `StoredMessagesWellFormed` (if not `EmplaceConsumes`): `Spec => []StoredWellFormed`.
- `SingularCacheCorrect`, `PluralLookupsDefined`: in every build.
- `LookupsDefined` (if neither `EmplaceConsumes` nor `NoExceptions`):
  `Spec => []GettextDefined`. The two runs that violate it show that neither
  assumption can be dropped.

The invariant behind the last four is `UseInv`, which says of every catalog in
use (`ObjectInv`): a plural message has strings, in any build; every message is
`Complete`, if `emplace` leaves its argument alone; the cache is `plural[1]`; and
it is less than `num`, unless a failed constructor may have left it otherwise.
Each of the properties is too weak alone: `GettextDefined` needs the bound on the
cache and the number of strings together. A donor is not in use, and the proof
needs nothing of the messages in it: `insert_message` tests again whatever a merge
hands it.

`StackMachineProofs`, for any instructions that satisfy `ProgramAssumption`, any
numbers and any sequence of calls: `TypesKept`, `HeightsKept`, `OperandsAlwaysPresent`
and `AlwaysEndsBalanced`. The inductive invariant is `TypeOK /\ HeightByPosition`:
that operands are there at one instruction says nothing about the next, the
height at each position does.

In the same module, about the compiler. The first two are about any `E`, `value`,
`boolean` and `emit` with `Visits(E, N, value, boolean, emit)`:

- `EmittedCodeBalances`: for every expression in `E` there are heights with which what is
  emitted for it satisfies `Balances`. The part of `ProgramAssumption` that says so
  follows from `CompilerAssumption`; only that `Height` is such heights does not.
- `EmittedCodeComputes`: what is emitted for `e` pushes the evaluator's value of `e` at
  `n` onto any stack, for any `n`, and divides by zero only if the evaluator does; and
  what `is_boolean` accepts is 0 or 1, if defined.
- `AnswersAreValues`: `Spec` implies the initial condition and the steps of
  `PluralFunction`, the safety half of `ImplementsFunction`. The machine answers each call
  with the value of its expression, whatever it was called with before, and a division by
  zero is the expression's own. Nothing is said of the expressions but that
  they have the parts they have: constants of any size, any depth, any `n`.
- `LoneCallsCompute`: a call that has the machine to itself comes from the empty stack to
  the value of its expression, the second half of `LoneCallAssumption` for emitted
  programs. Its stacks are read off the same outline: from each position a call goes on
  at a later one, so that it visits a position at most once.

The argument has three layers. An *outline* of a piece of code gives, for each position
from the first to just behind the last, the states that the machine may be in there: heights
for the first theorem, stacks for the second. `Leads(c, K, A, B)` says that
there is an outline of `c` which begins with every state of `A` and ends within `B`. Outlines of two pieces can be joined (`Joined`), and
two branches behind a conditional skip can be laid out one after the other
(`BranchesLayout`, `LeadsApart`) because the distances in the two skips are the lengths of
the branches; these lemmas are about skips only and serve both theorems, for `&&`, `||` and
both orders of `?:`. The second layer says of each kind of expression that it has an outline if
its parts have. The third is the induction: a part's code is shorter than the
whole's, so `ByParts` reduces it to a least counterexample (`Descent!ByRank`). No induction over data is
needed, because what is emitted is a finite sequence.
`AnswersAreValues` then follows from the invariant `Course`: the stack of the running machine is
one that the outline of its program has at its position for this `n`.

`CatalogHistoryProofs`, for the same constants and `~EmplaceConsumes`: the run
`duplicate_msgid` shows that with a consuming `emplace` the catalog holds a message
that no file contains. With and without exceptions:

- `LastEntryWins`: `Spec => []LastUsableEntryWins`. What is stored under a key is the
  last usable entry read for it, by a load or handed over by a merge.
- `MergesAreUnions`: `Spec => MergeIsUnion`, a property of the first and the last step
  of a merge with any number of steps between them.
- `QueriesAnswered`: `Spec => []AnswersItsQuery`, if neither files nor callers use the
  separator character in a context, or in a msgid without one. The gettext format
  reserves it; the code relies on that and tests it nowhere.
- `SizeCorrect`: `Spec => []SizeExcludesHeader`, if no first message has a context. The
  run `header_context` shows why.
- `ClobbersAreReported`: `Spec => NoSilentClobber`, under the same hypothesis on files:
  the warning names context and msgid of the message that is replaced, and two
  messages with one key would otherwise be possible.

The inductive invariant is `TypeInv /\ StoreInv /\ MergeInv`. `StoreInv` says of each
catalog in use that every message is under its own key, that it is the last in the log
for it, and that every entry that took effect is under its key; and that a catalog that
is not there is blank. That a merge step keeps it needs to know what the donor still has,
which is `MergeInv`: what is still to be moved is in the donor as it was at the start,
and the target is what it was together with what has been moved.
`KeyUnique` is the lemma under the queries: the first separator in a key shows where the
context ends.

In the same module, under the same hypothesis: `Refinement`,
`Spec => ImplementsDictionary`. The proof has one lemma per kind of step of `Catalog`
(`LoadRefines`, `ReadRefines`, `FlagRefines`, `MergeRefines`): the constructor's failures before
the loop and its first message are `Open` or nothing, a round of the loop is `Put` or a
stutter, and the steps of a merge stutter but for the last, which is
`Merge` of the two maps as they were at the beginning, by `MergeInv`.

`HeaderMetadataProofs`, for any header texts and numbers:

- `RejectedHeadersHaveNoForms`. The inductive invariant says that the members for
  plural forms are untouched until the last step, whichever of the steps before
  returned an error.
- `NamesAreRead`: `Spec => []NamesFromOwnLines`, for every sequence of tokens, accepted or
  not. It is about the labels that stand nowhere but at the start of a line (`StartsLines`);
  the run `foreign_label` shows what becomes of another. The lemmas `FirstFacts` and `FirstNotFacts` say what the
  searches of `find_header_line` return, `LineOfLabel` what it makes of them.
- `FieldsAreRead`: `Spec => []FieldsFromOwnLines`, for every text in which each label
  starts a line and stands there once (`Orderly`; `X-Poedit-Language:` breaks it). The
  invariant `FieldsInv` says when each member is assigned. `OneLine` and `OwnLine` show that the first
  occurrence of a label is then the line, and `CharsetRead` and `FormsRead` compare the two small
  grammars, which go from word to word (`NextWordFacts`), with the positions in the text.

`LookupThreadsProofs`, for any number of threads, any numbers and strings, and any
program that satisfies `LoneCallAssumption`: `OwnAnswers` and `OperandsKept`. The
inductive invariant adds to the types that a thread with a call that needs the machine
has the lock (`LockHeld`), and that the stack of the shared machine is then the one that
its call would have if it were alone (`MachineIsMine`).

`PoCatalogProofs`, for any files with any number of plural strings, under the assumptions
of `PoCatalog` on keywords, tokens and meanings:

- `RoundsAlwaysConsume`: `PoSpec => []RoundsConsume`. `RoundsConsume` is not inductive:
  a round that cannot parse its message may consume nothing. `RoundsInv` adds that the
  iterator is one token further than the rounds while a constructor is in its loop
  (the header has at least one), that only one constructor is, and that a round which
  fails is the last.
- `FileLoadsWellTyped`: `PoSpec => []PoTypeOK`, with the strings that `Catalog` takes
  for granted. The invariant is `PoTypeInv`, which has the invariant of `TypeCorrect`
  as a part: the lemmas of `CatalogProofs` on the steps of a load are about any messages.
- `FilesAreEntries`: `PoSpec => Spec`, if `Catalog` is used for all messages and headers
  that have a string (`AnyFile`). Reading tokens is reading entries, and each theorem
  about `Catalog` holds for the load of a file.

Below them is a lemma for each rule of the grammar that says where a match ends and what
its attribute is: the rules that skip lines match nothing or something, a message at
least one token, and has a string. Stars, the list operator, the preamble and the strings
of a plural message are functions defined by recursion on positions, of which nothing is
known before they are shown to exist. `Descent` does that once (`Recursion`, and
`Iteration` for a star): positions only grow, so a least position without a value is a
contradiction.

`PoFileProofs`, for any files and the same assumptions, about what the matches of the
rules have to do with what stands in the file:

- `MarkersDecide`: `PoSpec => FuzzyAsMarked`, in every build. The lemmas follow a block of
  comments through the four alternatives that may take it: the last one, directly before
  the entry, is `message_preamble`'s, no earlier comment is, and a flag is found at
  whichever place in its list it stands.
- `NothingIsLost`: `PoSpec => []NothingLost`, with exceptions, since without them the
  catalog of a failed load is used too, and if no `msgid_plural` is empty
  (`PluralsNamed`), since an empty one leaves no trace in the message. The inductive
  invariant `SaidInv` says that, at every iteration, what was read so far and what
  stands behind the iterator (`Rest`) are together what the file says.
- `LineNumbersAreRight`: `PoSpec => []LineNumbersFindEntries`, for one catalog, as
  `starts` remembers the places of one constructor; with an `emplace` that leaves its
  argument alone, as what is stored could otherwise be the remains of a duplicate, which is
  no entry of the file; and with the separator reserved by files and clients, as for `QueriesAnswered`.
  The inductive invariant `StandInv` says that the line of the loop is the number of places in
  `starts`, and that each stored message is what is read at the place of its number.
- `LegibleFilesLoad`: `PoSpec => []LegibleLoads`, in every build. `LegibleInv` says that
  the iterator is behind the header and `Between` messages: the file is in order
  from there, white lines and comments lead to the next message or the end, and
  the block there is one that the rules take. It is kept by the header (`LegibleHeader`), by a round that
  reads a message (`LegibleMessage`), and by one that comments exhaust (`EndIsBetween`).

Below `NothingIsLost` and `LegibleFilesLoad` is again a lemma for each rule: what its
attribute holds and what the file says behind the match are together what the file says from
where the rule began, and in a file in order the rule matches where its first token
stands. Properties of what is left of a file are shown from its end (`Backwards` of
`Descent`).

Only model-checked:

- that `Eval`, `IsBoolean` and `Emit` satisfy `Visits`, by which the theorems know them:
  they are recursive operators, whose definition is that equation (TLC evaluates
  `CompilerAssumption`);
- that `LoneStack` of the run of `LookupThreads` is such stacks for its program: it is
  computed by a recursive operator, and TLC evaluates `LoneCallAssumption`;
- `AcceptsUnchainedC` and `MeansWhatCMeans`, for the texts of the run: grammar and
  reference are recursive operators;
- the liveness of `ImplementsFunction`: fairness and `ENABLED`.

## 5. What is not modelled

- `merge(std::move(self))`: the loop would insert into the map it iterates over.
- A warning channel that throws or calls back into the catalog.
- What is left of a donor after a merge: the client gave it up by moving it.
- The `_str` and `const char *` variants of lookups: they call the same two
  functions.
- Attributes that Spirit does not roll back when a string fails half way. Such a load
  fails, so only a failed catalog without exceptions can show them; `PoCatalog` is
  run with exceptions.
- Text below the token: which characters a keyword, a number or a label consists of.
- `merge` and lookups at the same time in two threads: nothing in the library or its
  documents allows it.
- Other clients: the inspector and the test programs.
- The wording of error messages and `iterator_context`.
- Client-supplied plural-forms compilers: `plural` is any function, but one
  without state.

## 6. What the models found

1. `duplicate_msgid`: with libstdc++ a second entry for a msgid leaves a message
   without strings in the catalog, and the warning about it names an empty msgid
   (`catalog.hpp:113-122`).
2. `failed_target`: without exceptions, a catalog whose plural-forms function had
   no form for n = 1 stays in use with `singular_index_` too large; `gettext` of a
   plural message merged into it reads past its strings (`catalog.hpp:192`).
3. `header_context`: a header with a msgctxt is accepted, stored under another
   key than the empty one, and counted by `size()` (`catalog.hpp:167, 434`).
4. `white_tail`: a file whose last line is white but not ended by a newline does not
   load, though a comment says that the rules consume it (`po_grammar.hpp:104, 116`).
5. `foreign_label`: a header with a field like `X-Poedit-Language:`, which real files
   have (`test_libintl/po/wesnoth-utbs-cs.po:24`), and no `Language:` line, or a later one,
   is accepted with the language of that other field: the first occurrence of the label
   is taken wherever it is (`catalog_metadata.hpp:48`). The same holds for each label.
6. `chained_operators`: `2 < 2 < 2` and `n % 2 % 2` do not compile although they are C.
   `%`, the relations, and `==`, `!=` cannot be chained with their like
   (`default_plural_forms_expressions.hpp:218-229`), though the compiler is to support
   "the standard gettext pseudo-C language" (`default_plural_forms_compiler.hpp:41`). The
   arithmetic operators `+ - * /` are not in the grammar at all, and not in the model's C.

A limit of the library that the models show without a run of its own: a charset other
than UTF-8 and ASCII is accepted where the content type has no semicolon, or another
parameter before the charset (`catalog_metadata.hpp:99`). `FieldsFromOwnLines` leaves
`charset` open between a supported one and none then.

## 7. What is left

Every part of the library that keeps state or decides something is modelled. Of the safety
properties that the runs check, all are proved but two, with both refinements as far as
they are safety. Not proved are `AcceptsUnchainedC` and `MeansWhatCMeans`, the properties of
the expression grammar: grammar and reference would have to be functions on positions, like
those of `PoGrammar`, instead of recursive operators. Without exceptions, what a string
that fails half way leaves in its attribute is not modelled (section 5).
