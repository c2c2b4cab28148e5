-------------------------- MODULE MCSecretDelivery --------------------------
(***************************************************************************)
(* Instances of SecretDelivery for TLC: the items clients ask to create    *)
(* and the configurations administrators choose, for each of the runs.     *)
(***************************************************************************)
EXTENDS SecretDelivery

CONSTANTS r1, r2, r3, k1, k2, w0, w1, w2

RequestSymmetry == Permutations(Requests)
KeySymmetry == RequestSymmetry \union Permutations(Keys)

Text(w, d) == [word |-> w, depth |-> d]
Plain(b, k, t) == [backend |-> b, keyName |-> k, clearText |-> t]

Config(none, local, vault) == [none |-> none, local |-> local, vault |-> vault]

\* A token with a storage directory.
VaultConfigs == {Config(FALSE, FALSE, "teamA")}
VaultItems == {Plain("vault", k1, Text(w1, 0))}
VaultBulkItems ==
    {Plain("vault", k1, Text(w1, 0)), Plain("vault", k2, Text(w2, 0)),
     Plain("vault", k1, EmptyText), Plain("vault", BadKeyName, Text(w1, 0)), Null}

\* Key files only.
LocalConfigs == {Config(FALSE, TRUE, "off")}
LocalItems == {Plain("localkey", k1, Text(w1, 0)), Plain("localkey", k1, Text(w2, 1))}

\* A text that is valid base64 itself, given plain.
LookalikeItems == {Plain("localkey", k1, Text(w2, 0))}

\* All three backends, with a token without a storage directory, or the token alone;
\* with items for backends that are unknown or not configured.
MixedConfigs == {Config(all, all, NoDir) : all \in BOOLEAN}
MixedItems ==
    {Plain("localkey", k1, Text(w1, 0)), Plain("vault", k1, Text(w2, 0)),
     Plain("none", BadKeyName, Text(w1, 1)), Plain("other", k1, EmptyText)}

\* Everything at once, for liveness.
AnsweredConfigs == {Config(TRUE, TRUE, "teamA")}
AnsweredItems == {Plain(b, k1, Text(w1, 0)) : b \in Backends}

\* The token is replaced by one without a storage directory, and back.
RestartConfigs == {Config(FALSE, FALSE, "teamA"), Config(FALSE, FALSE, NoDir)}
=============================================================================
