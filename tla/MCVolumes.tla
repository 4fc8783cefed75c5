----------------------------- MODULE MCVolumes -----------------------------
(* Instances of Volumes for TLC.                                           *)
EXTENDS Volumes, TLC

CONSTANTS conf, token, extra, a, b

OneConfigMap == {conf}
TwoSecrets == {token, extra}

\* conf changes, token and extra are written once, now, later or never.
TheKeys == conf :> <<{a}, {a}>> @@ token :> <<{b}>> @@ extra :> <<{a}>>

From(kind, ref, optional) ==
    [kind |-> kind, ref |-> ref, optional |-> optional, items |-> {a}]

TheVols ==
    <<[type |-> "emptyDir", sources |-> <<>>],
      [type |-> "configMap", sources |-> <<From("configMap", conf, "no")>>],
      [type |-> "secret", sources |-> <<From("secret", token, "unset")>>],
      [type |-> "projected", sources |-> <<From("token", token, "unset"),
                                           From("configMap", conf, "yes"),
                                           From("secret", extra, "yes")>>],
      [type |-> "projected", sources |-> <<>>],
      [type |-> "hostPath", sources |-> <<>>]>>

TheMounts == {[volume |-> 1, readOnly |-> FALSE], [volume |-> 2, readOnly |-> TRUE],
              [volume |-> 3, readOnly |-> FALSE], [volume |-> 4, readOnly |-> TRUE],
              [volume |-> 5, readOnly |-> TRUE], [volume |-> 6, readOnly |-> FALSE]}
=============================================================================
