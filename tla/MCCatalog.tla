----------------------------- MODULE MCCatalog -----------------------------
(***************************************************************************)
(* Values for the constants of Catalog.                                    *)
(***************************************************************************)
EXTENDS Catalog, TLC

MCAtom == {"i", "c", "t", "u", "EOT"}
MCEOT == "EOT"
MCCounts == {0, 1, 2}

Id == <<"i">>
Ctx == <<"c">>
T == <<"t">>
U == <<"u">>

\* Clients ask with an ordinary and with an empty context.
MCIds == {Id}
MCContexts == {Ctx, <<>>}

Msg(ctx, id, idPlural, strings) ==
    [context |-> ctx, id |-> id, idPlural |-> idPlural, strings |-> strings,
     line |-> 0]

\* Two messages for one key, a third in a context, one with three strings, one
\* untranslated, and one with the msgid of the header.
Single == Msg(NoContext, Id, <<>>, <<T>>)
Plural == Msg(NoContext, Id, Id, <<T, U>>)
InContext == Msg(Ctx, Id, Id, <<U, T>>)
InEmptyContext == Msg(<<>>, Id, <<>>, <<U>>)
ThreeForms == Msg(NoContext, Id, Id, <<U, T, T>>)
Untranslated == Msg(NoContext, Id, <<>>, <<<<>>>>)
Headerless == Msg(NoContext, <<>>, <<>>, <<T>>)

FormOf(n0, n1, n2) == (0 :> n0) @@ (1 :> n1) @@ (2 :> n2)

Hdr(message, accepted, num, compiles, plural) ==
    [message |-> message, accepted |-> accepted, num |-> num,
     compiles |-> compiles, plural |-> plural]

Germanic == Hdr(Headerless, TRUE, 2, TRUE, FormOf(1, 0, 1))
Reversed == Hdr(Headerless, TRUE, 2, TRUE, FormOf(0, 1, 0))
OneForm == Hdr(Headerless, TRUE, 1, TRUE, FormOf(0, 0, 0))
\* The form of n = 2 does not exist.
Overflowing == Hdr(Headerless, TRUE, 2, TRUE, FormOf(1, 0, 2))
\* A header with an empty text: the defaults apply, it is not inserted.
EmptyHeader == Hdr(Msg(NoContext, <<>>, <<>>, <<<<>>>>), TRUE, 2, TRUE, FormOf(1, 0, 1))
NotAHeader == Hdr(Single, TRUE, 2, TRUE, FormOf(1, 0, 1))
Rejected == Hdr(Headerless, FALSE, 0, TRUE, FormOf(0, 0, 0))
Uncompilable == Hdr(Headerless, TRUE, 2, FALSE, FormOf(0, 0, 0))
NoSingular == Hdr(Headerless, TRUE, 2, TRUE, FormOf(0, 2, 1))
\* A header with a context is accepted: only its msgid is looked at.
HeaderInContext == Hdr(Msg(Ctx, <<>>, <<>>, <<T>>), TRUE, 2, TRUE, FormOf(1, 0, 1))

GoodHeaders == {Reversed, OneForm, EmptyHeader}
BadHeaders == {NotAHeader, Rejected, Uncompilable, NoSingular}

LoadHeaders == GoodHeaders \cup BadHeaders
LoadMessages == {Single, Plural, InContext, InEmptyContext, ThreeForms,
                 Untranslated, Headerless}

MergeHeaders == {Germanic, Reversed, Overflowing, OneForm, NoSingular}
MergeMessages == {Plural, InContext, ThreeForms}

\* A single file may be of anything and have three entries.  Of two files, the
\* entries are those of merges, and no more than two behind each header.
Short(entries) ==
    /\ Len(entries) <= 3
    /\ \A i \in 2..Len(entries) : [entries[i].message EXCEPT !.line = 0] \in MergeMessages
SecondFileIsShort ==
    loads > 1 /\ (\E c \in Cat : status[c] = "loading") => \A c \in Cat : Short(log[c])

ContextHeaders == {Germanic, HeaderInContext}

CatSymmetry == Permutations(Cat)
=============================================================================
