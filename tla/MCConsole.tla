----------------------------- MODULE MCConsole -----------------------------
(***************************************************************************)
(* Three requests over two plugins, one of them without settings in the    *)
(* file, one access configuration, the image hosts, two message options    *)
(* and prefixes, the key that applyCoreKey does not know; or one request   *)
(* and a reply of two parts and a keyboard, of eight kinds of parts.       *)
(***************************************************************************)
EXTENDS Reply, TLC

CONSTANTS imagegen, other, access, assets, markdown, retry, prefixes
CONSTANTS note, all, table, link, photo, gone, voice, empty

MCPatches == {{markdown}, {retry}, {markdown, prefixes}}

MCKind == note :> "text" @@ empty :> "blank" @@ all :> "everyone" @@ table :> "panel"
          @@ link :> "public" @@ photo :> "file" @@ gone :> "unreadable" @@ voice :> "upload"

Item(n, e, p, s) == [name |-> n, enabled |-> e, priority |-> p, sound |-> s]

MCProviders == << Item("a", "unset", 1, TRUE), Item("b", "off", 9, TRUE),
                  Item("c", "on", 5, FALSE), Item("d", "on", 2, TRUE) >>

\* NewHost on every assets.json of two providers, and some of four.
Items == {Item(n, e, p, s) : n \in {"a", "b"}, e \in {"unset", "on", "off"}, p \in 0..2, s \in BOOLEAN}

ASSUME \A n \in 0..2 : \A items \in [1..n -> Items] : NewHostCorrect(items)
ASSUME \A items \in [1..4 -> {Item("a", "on", p, TRUE) : p \in 0..2} \cup {Item("b", "on", 1, TRUE)}] :
           NewHostCorrect(items)

\* Nothing tells requests apart.
MCSymmetry == Permutations(Requests)
=============================================================================
