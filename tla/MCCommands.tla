------------------------------ MODULE MCCommands -----------------------------
(***************************************************************************)
(* Small instances of Commands for TLC.                                    *)
(***************************************************************************)
EXTENDS Commands

SessionSymmetry == Permutations(Reloaders)

TextVip(v, addrs) == [spec |-> v, flags |-> 0,
                      reals |-> [i \in DOMAIN addrs |-> [addr |-> addrs[i], weight |-> 1]]]
Text(i, vs, hash, hop, settings, timeout) ==
    [n |-> i, vips |-> vs, hash |-> hash, next_hop |-> hop, health |-> TRUE,
     settings |-> settings, interval |-> 2, timeout |-> timeout]

\* Addrs are the reals that calls of other sessions name; the texts have more.
\* As many reals as there are ids; one too many; one real; and another one, with
\* every setting changed.
ReloadTexts ==
    <<Text(1, <<TextVip(1, <<1, 2, 3>>)>>, 0, 0, 1, 1),
      Text(2, <<TextVip(1, <<1, 2, 3, 4>>)>>, 0, 0, 1, 1),
      Text(3, <<TextVip(1, <<1>>)>>, 0, 0, 1, 1),
      Text(4, <<TextVip(1, <<2>>)>>, 1, 9, 2, 2)>>

\* One VIP, then no VIP.
VipTexts == <<Text(1, <<TextVip(1, <<1>>)>>, 0, 0, 1, 1), Text(2, <<>>, 0, 0, 1, 1)>>

\* --no-health-check; the texts have the checks on.
NoHealthCheck == [health |-> FALSE]
==============================================================================
