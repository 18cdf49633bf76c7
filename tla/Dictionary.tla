----------------------------- MODULE Dictionary -----------------------------
(***************************************************************************)
(* What a message catalog is to its client: a dictionary that is filled    *)
(* while it is opened, and that changes afterwards only when another is    *)
(* merged into it, as a whole.  See ImplementsDictionary in Catalog.       *)
(***************************************************************************)
CONSTANTS
    Cat,        \* dictionaries
    HeaderKey   \* the key that merging leaves alone

VARIABLES
    store,      \* what each holds: a function from keys to entries
    status      \* "none", "loading", or "live"

dictVars == <<store, status>>

Nothing == [k \in {} |-> k]

Init ==
    /\ store = [c \in Cat |-> Nothing]
    /\ status = [c \in Cat |-> "none"]

Becomes(c, from, to) == status[c] = from /\ status' = [status EXCEPT ![c] = to]

\* Only dictionary c changes.
Only(c) == store' = [store EXCEPT ![c] = store'[c]]

\* A dictionary is opened: it has no entry but a header, one at most.
Open(c) ==
    /\ Becomes(c, "none", "loading")
    /\ Only(c)
    /\ \A j, k \in DOMAIN store'[c] : j = k

\* It could not be opened, and can be used nevertheless.
OpenFailed(c) == Becomes(c, "none", "live") /\ UNCHANGED store

\* An entry is added or replaced, and no other; the header stays.
Put(c) ==
    /\ status[c] = "loading"
    /\ Only(c)
    /\ \E k \in DOMAIN store'[c] \ {HeaderKey} :
          /\ DOMAIN store'[c] = DOMAIN store[c] \cup {k}
          /\ \A j \in DOMAIN store[c] \ {k} : store'[c][j] = store[c][j]
    /\ UNCHANGED status

\* It is complete, or what there was before reading it failed.
Publish(c) == Becomes(c, "loading", "live") /\ UNCHANGED store

\* Reading it failed, and nothing of it can be seen.
Discard(c) ==
    /\ Becomes(c, "loading", "none")
    /\ store' = [store EXCEPT ![c] = Nothing]

United(s, t) ==
    [k \in DOMAIN s \cup (DOMAIN t \ {HeaderKey}) |->
        IF k \in DOMAIN t \ {HeaderKey} THEN t[k] ELSE s[k]]

\* One gives its entries to another, in one step, and is gone.
Merge(into, from) ==
    /\ into # from
    /\ status[into] = "live"
    /\ Becomes(from, "live", "none")
    /\ store' = [store EXCEPT ![into] = United(store[into], store[from]),
                              ![from] = Nothing]

Next ==
    \/ \E c \in Cat : Open(c) \/ OpenFailed(c) \/ Put(c) \/ Publish(c) \/ Discard(c)
    \/ \E into, from \in Cat : Merge(into, from)

Spec == Init /\ [][Next]_dictVars
=============================================================================
