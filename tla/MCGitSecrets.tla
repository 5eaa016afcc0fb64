---------------------------- MODULE MCGitSecrets ----------------------------
(* What the users of the runs of GitSecrets write.                         *)
EXTENDS GitSecrets

Https(name, namespace, lock) ==
  [kind |-> "https", name |-> name, namespace |-> namespace, lock |-> lock]
Ssh(name, namespace, lock) == [Https(name, namespace, lock) EXCEPT !.kind = "ssh"]

Plain(methods) == [methods |-> methods, tunnel |-> {}, ignoreDelete |-> FALSE]

Tunneled(methods, key) == [Plain(methods) EXCEPT !.tunnel = {key}]

AllInDefault == [r \in Resources |-> "default"]
OwnKey == [r \in Resources |-> r]

(* One resource locks a key and reads a token, and is edited to the other  *)
(* way round; the other locks the same key and has a tunnel.               *)
SharedKey ==
  [r \in Resources |->
     IF r = "one" THEN {Plain(<<Ssh("key", "", TRUE), Https("token", "", FALSE)>>),
                        Plain(<<Https("token", "", TRUE), Ssh("key", "", FALSE)>>)}
     ELSE {Tunneled(<<Ssh("key", "default", TRUE)>>, Ssh("token", "", TRUE))}]
=============================================================================
