------------------------------ MODULE StateMap ------------------------------
(***************************************************************************)
(* A state as a map from keys of 31 octets to what is encoded, the trie    *)
(* over the map whose root is the state root, and the way back, by which   *)
(* the fuzzer's target takes over a state.  The map does not say what a    *)
(* key stands for: reading recognises services by the shape of their keys, *)
(* and what belongs to a service by four octets that are its index.        *)
(*                                                                         *)
(* A key is those four octets as a number, and the other 27 under h, a     *)
(* constructor of what they hold or hash.  A value is a tuple that begins  *)
(* with its kind; hashes collide nowhere.                                  *)
(***************************************************************************)
EXTENDS Integers, Sequences, SequencesExt

CONSTANT Bits(_)     \* the bits of a key

\* stateKey, in its three forms.
ChapterKey(i) == [n |-> i, h |-> <<"zeros">>]
AccountKey(s) == [n |-> 255, h |-> <<"index", s>>]
ItemKey(s, item) == [n |-> s, h |-> item]

computeStorageKey(s, key) == ItemKey(s, <<"storage", key>>)
computeRequestKey(s, hash, length) == ItemKey(s, <<"request", hash, length>>)
preimageKey(s, hash) == ItemKey(s, <<"preimage", hash>>)

HashOf(value) == IF value[1] = "preimage" THEN value[2] ELSE value

(* fromState: the chapters, then of each service its data, its preimages   *)
(* and what its storage holds; what comes later overwrites.                *)
AccountEntries(s, a) ==
  LET preimages == {preimageKey(s, hash) : hash \in a.preimages}
      own == {AccountKey(s)}
  IN  [k \in DOMAIN a.merkleStorage \cup preimages \cup own |->
         CASE k \in DOMAIN a.merkleStorage -> a.merkleStorage[k]
           [] k \in preimages \ DOMAIN a.merkleStorage -> <<"preimage", k.h[2]>>
           [] OTHER -> <<"account", a.data>>]

Overwrite(f, g) == [k \in DOMAIN f \cup DOMAIN g |-> IF k \in DOMAIN g THEN g[k] ELSE f[k]]

fromState(state) ==
  LET chapterKeys == {ChapterKey(i) : i \in DOMAIN state.chapters}
  IN  FoldLeft(LAMBDA map, s : Overwrite(map, AccountEntries(s, state.accounts[s])),
               [k \in chapterKeys |-> <<"chapter", state.chapters[k.n]>>],
               SetToSeq(DOMAIN state.accounts))

(* fromMerkleMap: an account wherever key and value have the shape of one; *)
(* its preimages are the values stored under the key of their own hash,    *)
(* the rest of what has its index is its storage.                          *)
IsAccount(map, k) == k.n = 255 /\ k.h[1] \in {"zeros", "index"} /\ map[k][1] = "account"

KeepingPreimages(related, preimages) == related
Remaining(related, preimages) == related \ preimages

ReadAccount(map, s) ==
  LET related == {k \in DOMAIN map : k.n = s}
      preimages == {k \in related : k = preimageKey(s, HashOf(map[k]))}
  IN  [data |-> map[AccountKey(s)][2],
       preimages |-> {HashOf(map[k]) : k \in preimages},
       merkleStorage |-> [k \in Remaining(related, preimages) |-> map[k]]]

fromMerkleMap(map, n) ==
  [chapters |-> [i \in 1..n |-> map[ChapterKey(i)][2]],
   accounts |-> [s \in {k.h[2] : k \in {k \in DOMAIN map : IsAccount(map, k)}} |->
                   ReadAccount(map, s)]]

(* buildTrie, over the bits of the keys: a leaf as soon as one key is      *)
(* left.  The identifier of a leaf holds the key and the value or its hash,*)
(* that of a branch the hashes of both sides.                              *)
EMPTYNODE == <<"empty">>
leaf(key, value) == <<"leaf", key, HashOf(value)>>
branch(left, right) == <<"branch", left, right>>

RECURSIVE buildTrie(_, _, _)
buildTrie(map, keys, depth) ==
  IF keys = {} THEN EMPTYNODE
  ELSE IF \E k \in keys : keys = {k}
  THEN LET k == CHOOSE k \in keys : TRUE IN leaf(k, map[k])
  ELSE LET side(b) == {k \in keys : Bits(k)[depth] = b}
       IN  branch(buildTrie(map, side(0), depth + 1), buildTrie(map, side(1), depth + 1))

root(map) == buildTrie(map, DOMAIN map, 1)

\* What a root commits to.
RECURSIVE Committed(_)
Committed(node) ==
  CASE node[1] = "empty" -> {}
    [] node[1] = "leaf" -> {<<node[2], node[3]>>}
    [] node[1] = "branch" -> Committed(node[2]) \cup Committed(node[3])

-----------------------------------------------------------------------------
(* A state is read back from its map as it was, and the root of its trie   *)
(* commits to every entry of the map (jam-state-impl.ts:427-590,           *)
(* merkle-state.ts:54-153).                                                *)
ReadsBack(state) ==
  LET map == fromState(state)
  IN  /\ fromMerkleMap(map, Len(state.chapters)) = state
      /\ Committed(root(map)) = {<<k, HashOf(map[k])>> : k \in DOMAIN map}
=============================================================================
