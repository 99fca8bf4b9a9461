----------------------------- MODULE MCStartup -----------------------------
(***************************************************************************)
(* Small instances of Startup: two clusters of one customer and one that   *)
(* kept the default name, LoadBalancers tagged for each of them, and       *)
(* prefixes of every length.                                               *)
(***************************************************************************)
EXTENDS StartupInv, TLC, Bitwise

Unset == [cluster |-> None, tagPrefix |-> None, auto |-> None, lb |-> None, prefixes |-> None]

Start(file, env, flag) == [file |-> file, env |-> env, flag |-> flag]

\* A LoadBalancer of ours under either prefix, one of each other cluster, and
\* something else with our tag.
TaggedHere ==
    {<<"lb1", <<"anxkube-ccm-lb", "ours">>>>, <<"lb2", <<"anxkube-ccm-lb", "ours">>>>,
     <<"lb2", <<"custom", "ours">>>>, <<"vm", <<"anxkube-ccm-lb", "ours">>>>,
     <<"lb3", <<"anxkube-ccm-lb", "theirs">>>>, <<"lb3", <<"anxkube-ccm-lb", "kubernetes">>>>}

\* Every source may name a cluster or not.
Naming ==
    {Start([Unset EXCEPT !.cluster = f, !.auto = TRUE], [Unset EXCEPT !.cluster = e, !.tagPrefix = p], flag) :
        f \in {None, "ours", "theirs"}, e \in {None, "ours"}, p \in {None, "custom"},
        flag \in {"kubernetes", "ours"}}

Fixed(auto, prefixes) ==
    Start([Unset EXCEPT !.cluster = "ours", !.auto = auto, !.lb = "lb1", !.prefixes = prefixes],
          Unset, "kubernetes")

\* Only the first len bits of a network may be set.
Masked(bytes, len) ==
    [ip |-> [i \in DOMAIN bytes |-> bytes[i] & bitMaskForN(len - (i - 1) * 8)], len |-> len]

V4 == {<<10, 0, 0, 0>>, <<172, 20, 239, 128>>, <<255, 255, 255, 255>>}
V6 == {<<32, 1, 13, 184, 0, 66, 0, 52, 0, 0, 0, 0, 0, 0, 0, 0>>, [i \in 1..16 |-> 255]}

Networks ==
    {Masked(b, n) : b \in V4, n \in 0..32} \cup {Masked(b, n) : b \in V6, n \in 0..128}

StartsAll ==
    Naming
    \cup {Fixed(TRUE, <<net>>) : net \in Networks}
    \cup {Fixed(auto, <<Masked(<<10, 1, 2, 192>>, 26), net>>) :
            auto \in BOOLEAN, net \in {Masked(b, 64) : b \in V6}}
    \cup {Fixed(None, None)}

StartsIdentifier == {Fixed(None, None)}

\* orNot is the | of the code, for every byte and every mask.
ASSUME \A byte \in 0..255, n \in -1..9 :
           orNot(byte, bitMaskForN(n)) = (byte | (255 - bitMaskForN(n)))
=============================================================================
