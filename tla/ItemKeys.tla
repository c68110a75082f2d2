------------------------------ MODULE ItemKeys ------------------------------
(***************************************************************************)
(* How the CXXRTL client turns the simulator's names into cache keys       *)
(* (cxxrtl_container.rs).  The wire names a scope or an item by its path   *)
(* segments joined with ' '.                                               *)
(*   - get_scopes' callback keys each scope by name.split(' ');            *)
(*   - item_list_to_hash_map keys each item by a VariableRef whose path is *)
(*     every segment but the last and whose name is the last;              *)
(*   - child_scopes, root_modules and module_exists answer from the        *)
(*     scope table alone.                                                  *)
(* A string is a sequence of characters over a small alphabet that         *)
(* contains the separator.  A CxxrtlItem is abstracted to the key it was   *)
(* listed under, a CxxrtlScope to its name.                                *)
(*                                                                         *)
(* The state is the list_scopes and list_items answers and the tables     *)
(* decoded from them; each cache is filled once, by any answer.            *)
(***************************************************************************)
EXTENDS Naturals, FiniteSets, Sequences, SequencesExt

CONSTANTS
    Chars,      \* the characters names are made of, the separator included
    MaxLen,     \* bound on the length of a name
    MaxNames    \* bound on the names in one answer

Sep == " "

ASSUME Sep \in Chars /\ MaxLen \in Nat /\ MaxNames \in Nat

\* The names the simulator may send, and the answers made of them (a
\* HashMap<String, _>: names are distinct).
Names == SeqOf(Chars, MaxLen)
Answers == {a \in SUBSET Names : Cardinality(a) <= MaxNames}

\* Separator-free strings: what a segment of a key should be.
Segments == {s \in Names : Sep \notin ToSet(s)}

\* A split that keeps each separator at the start of the next piece.
SplitInclusive(s) ==
    FoldRight(LAMBDA c, acc : IF c = Sep THEN Cons(<<c>>, acc)
                              ELSE Cons(Cons(c, Head(acc)), Tail(acc)),
              s, <<<<>>>>)

\* str::split(' '): the pieces between separators, empty ones included;
\* "" splits into one empty piece, never into none.
Split(s) ==
    FoldRight(LAMBDA c, acc : IF c = Sep THEN Cons(<<>>, acc)
                              ELSE Cons(Cons(c, Head(acc)), Tail(acc)),
              s, <<<<>>>>)

\* get_scopes' callback: ScopeRef { strs: name.split(' ') }.
ScopeRefOf(name) == Split(name)

\* The path as &sp[1..sp.len() - 1].
ItemKeyPathFrom2(k) ==
    LET sp == Split(k)
    IN [path |-> SubSeq(sp, 2, Len(sp) - 1), name |-> Last(sp)]

\* item_list_to_hash_map for one key.  The sp.is_empty() branch, which
\* would drop the item, is never taken: split yields at least one piece.
ItemKey(k) ==
    LET sp == Split(k)
    IN [path |-> Front(sp), name |-> Last(sp)]

\* .collect() into a HashMap: when two keys give the same VariableRef, the
\* one collected last stays, and the iteration order of the input map is
\* unspecified.  The set of tables the call may return.
ItemListToHashMap(items) ==
    LET refs == {ItemKey(k) : k \in items}
    IN {t \in [refs -> items] : \A r \in refs : ItemKey(t[r]) = r}

\* The scope table get_scopes' callback collects, with the same rule.
ScopeTables(names) ==
    LET refs == {ScopeRefOf(n) : n \in names}
    IN {t \in [refs -> names] : \A r \in refs : ScopeRefOf(t[r]) = r}

\* child_scopes without the length check.
ChildScopesAnyDepth(scopes, parent) ==
    {s \in scopes : Len(s) >= Len(parent)
                    /\ SubSeq(s, 1, Len(parent)) = parent}

\* child_scopes: the scopes one segment longer than parent that start with
\* parent's segments.
ChildScopes(scopes, parent) ==
    {s \in scopes : Len(s) = Len(parent) + 1
                    /\ SubSeq(s, 1, Len(parent)) = parent}

\* root_modules: scopes() is always Some, so always the one empty ScopeRef.
RootModules == {<<>>}

\* module_exists: the scope table has the key.
ModuleExists(scopes, m) == m \in scopes

-----------------------------------------------------------------------------
(* The reference: the wire convention read as joining.                     *)

\* The segments of a path joined with the separator.
JoinKey(segs) ==
    IF segs = <<>> THEN <<>>
    ELSE FoldLeft(LAMBDA acc, seg : acc \o <<Sep>> \o seg, Head(segs), Tail(segs))

\* cn names a direct child of the listed, non-root scope with segments p:
\* p's name, the separator, then one separator-free segment.
IsChildName(cn, p) ==
    LET pre == JoinKey(p) \o <<Sep>>
    IN /\ IsPrefix(pre, cn)
       /\ SubSeq(cn, Len(pre) + 1, Len(cn)) \in Segments

-----------------------------------------------------------------------------
VARIABLES
    items,       \* the names of the last list_items answer
    itemTable,   \* all_items_cache's table decoded from it
    scopes,      \* the names of the last list_scopes answer
    scopeTable,  \* scopes_cache's table decoded from it
    filled       \* the caches filled so far: "items", "scopes"

vars == <<items, itemTable, scopes, scopeTable, filled>>

Init ==
    /\ items = {} /\ itemTable = <<>>
    /\ scopes = {} /\ scopeTable = <<>>
    /\ filled = {}

\* fetch_all_items' callback: list_items { items } decoded by
\* item_list_to_hash_map and stored.  all_items_cache is never made
\* Uncached again, so it is filled once.
ListItemsAnswer ==
    /\ "items" \notin filled
    /\ \E a \in Answers :
        /\ items' = a
        /\ itemTable' \in ItemListToHashMap(a)
    /\ filled' = filled \cup {"items"}
    /\ UNCHANGED <<scopes, scopeTable>>

\* get_scopes' callback: list_scopes { scopes } keyed by split names;
\* scopes_cache too is filled once.
ListScopesAnswer ==
    /\ "scopes" \notin filled
    /\ \E a \in Answers :
        /\ scopes' = a
        /\ scopeTable' \in ScopeTables(a)
    /\ filled' = filled \cup {"scopes"}
    /\ UNCHANGED <<items, itemTable>>

\* Both caches filled: nothing more changes.
Done == filled = {"items", "scopes"} /\ UNCHANGED vars

Next == ListItemsAnswer \/ ListScopesAnswer \/ Done

Spec == Init /\ [][Next]_vars

-----------------------------------------------------------------------------
(* Properties.                                                             *)

\* Every path segment and item name the client keys by is free of the
\* separator.
TypeOK ==
    /\ items \in Answers /\ scopes \in Answers
    /\ \A r \in DOMAIN itemTable :
         r.path \in Seq(Segments) /\ r.name \in Segments
    /\ DOMAIN scopeTable \subseteq Seq(Segments)
    /\ filled \subseteq {"items", "scopes"}

\* item_list_to_hash_map loses no item and keys each by the name it was
\* listed under: the table has one entry per listed name, and every key's
\* path and name, joined as on the wire, give back that name.  Two items
\* keyed alike would make .collect() keep only one of them.
ItemTableInvertsKeys ==
    /\ Cardinality(DOMAIN itemTable) = Cardinality(items)
    /\ \A r \in DOMAIN itemTable : JoinKey(Append(r.path, r.name)) = itemTable[r]

\* child_scopes(p), for every listed scope p, returns exactly the listed
\* scopes whose name is p's name extended by one segment (spec: "top cpu"
\* is the only child of "top").  The root is not a listed key (see
\* RootNotOwnChild), so it is not a parent here.
ChildScopesOneLevelDown ==
    \A p \in DOMAIN scopeTable :
        \A c \in DOMAIN scopeTable :
            c \in ChildScopes(DOMAIN scopeTable, p) <=> IsChildName(scopeTable[c], p)

\* A malformed key, one without a name, is dropped from the table (spec,
\* error handling): no item is keyed by an empty name.
NoEmptyItemNames == \A r \in DOMAIN itemTable : r.name # <<>>

\* The root module root_modules returns exists once the scopes are known.
RootModuleExists ==
    "scopes" \in filled => \A m \in RootModules : ModuleExists(DOMAIN scopeTable, m)

\* In the protocol the root scope is named "" (root_modules' comment), and
\* child_scopes of the root must not return the root again: no child of
\* root_modules' scope is the scope listed under the name "".
RootNotOwnChild ==
    \A r \in RootModules :
        \A c \in ChildScopes(DOMAIN scopeTable, r) : scopeTable[c] # <<>>

=============================================================================
