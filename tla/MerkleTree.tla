------------------------------- MODULE MerkleTree -------------------------------
(***************************************************************************)
(* The Merkle tree of pkg/audit/merkle.go: append of a leaf, the root,     *)
(* inclusion proofs and their verification.                                *)
(*                                                                         *)
(* A hash is the sequence that was hashed, prefix byte first: two hashes   *)
(* are equal exactly when they hash the same bytes.  This is the collision *)
(* resistance of SHA-256, and nothing more: that leaves and nodes cannot   *)
(* be confused is up to their prefixes.                                    *)
(***************************************************************************)
EXTENDS Integers, Sequences

CONSTANTS
    Data,        \* what leaves are made of: sequences
    MaxLeaves,   \* bound: leaves of the tree
    MaxCompared  \* bound: leaves of the trees whose roots are compared

\* Leaves are hashes of bytes.
ASSUME TreeAssumption ==
    /\ \A data \in Data : data \in Seq({data[i] : i \in DOMAIN data})
    /\ MaxLeaves \in Nat /\ MaxCompared \in Nat

VARIABLES
    leaves,    \* t.leaves
    root,      \* t.root
    roots      \* history: the root after each append, as the log lines record it

treeVars == <<leaves, root, roots>>

-------------------------------------------------------------------------------
leafPrefix == 0
\* Mutant: no domain separation.
noSeparation == leafPrefix

nodePrefix == 1

HashLeaf(data) == <<leafPrefix>> \o data

HashNode(left, right) == <<nodePrefix, left, right>>

\* [32]byte{}, the root of an empty tree.
ZeroHash == <<>>

\* Mutant: an odd element is hashed with itself.
NextLevelDuplicating(hashes) ==
    [i \in 1..(Len(hashes) + 1) \div 2 |->
        HashNode(hashes[2 * i - 1], IF 2 * i <= Len(hashes) THEN hashes[2 * i] ELSE hashes[2 * i - 1])]

\* One level up: pairs are hashed, an odd element at the end is promoted.
NextLevel(hashes) ==
    [i \in 1..(Len(hashes) + 1) \div 2 |->
        IF 2 * i <= Len(hashes) THEN HashNode(hashes[2 * i - 1], hashes[2 * i])
        ELSE hashes[2 * i - 1]]

\* The slices computeRoot is called with, and the levels GenerateProof goes
\* through: both stop when a single hash is left.
Up(hashes) == IF Len(hashes) <= 1 THEN hashes ELSE NextLevel(hashes)

Levels(hashes) ==
    LET level[k \in Nat] == IF k = 0 THEN hashes ELSE Up(level[k - 1])
    IN  level

\* There are fewer levels than leaves.
ComputeRoot(hashes) ==
    IF hashes = <<>> THEN ZeroHash ELSE Levels(hashes)[Len(hashes)][1]

\* The sibling of the element at index (counted from 0), with the side it is on;
\* a promoted element has none.
Sibling(hashes, index) ==
    IF index % 2 = 1 THEN <<[hash |-> hashes[index], right |-> FALSE]>>
    ELSE IF index + 1 < Len(hashes) THEN <<[hash |-> hashes[index + 2], right |-> TRUE]>>
    ELSE <<>>

\* One level of the loop of GenerateProof: currentLevel, currentIndex, auditPath.
Step(s) == [level |-> Up(s.level), index |-> s.index \div 2,
            path |-> s.path \o Sibling(s.level, s.index)]

Steps(hashes, index) ==
    LET step[k \in Nat] == IF k = 0 THEN [level |-> hashes, index |-> index, path |-> <<>>]
                           ELSE Step(step[k - 1])
    IN  step

AuditPath(hashes, index) == Steps(hashes, index)[Len(hashes)].path

GenerateProof(index) ==
    [leafIndex |-> index, leafHash |-> leaves[index + 1], auditPath |-> AuditPath(leaves, index),
     rootHash |-> root, treeSize |-> Len(leaves)]

Join(current, sibling) ==
    IF sibling.right THEN HashNode(current, sibling.hash) ELSE HashNode(sibling.hash, current)

\* current, after each element of the path.
Climbing(leaf, path) ==
    LET current[k \in Nat] == IF k = 0 THEN leaf ELSE Join(current[k - 1], path[k])
    IN  current

Climb(leaf, path) == Climbing(leaf, path)[Len(path)]

\* Mutant: the proof is checked against the current root, not its own.
VerifyProofAtRoot(proof) == Climb(proof.leafHash, proof.auditPath) = root

VerifyProof(proof) == Climb(proof.leafHash, proof.auditPath) = proof.rootHash

-------------------------------------------------------------------------------
TreeInit ==
    /\ leaves = <<>>
    /\ root = ZeroHash
    /\ roots = <<>>

AppendLeafHash(leaf) ==
    /\ Len(leaves) < MaxLeaves
    /\ leaves' = Append(leaves, leaf)
    /\ root' = ComputeRoot(leaves')
    /\ roots' = Append(roots, root')

\* The other operations of the tree take t.mu for reading and change nothing.
TreeNext == \E data \in Data : AppendLeafHash(HashLeaf(data))

TreeSpec == TreeInit /\ [][TreeNext]_treeVars

-------------------------------------------------------------------------------
\* The leaves are hashes of data, one root is recorded for each, the last one
\* is the root of the tree.
TreeTypeOK ==
    /\ leaves \in Seq({HashLeaf(data) : data \in Data})
    /\ Len(roots) = Len(leaves)
    /\ root = IF roots = <<>> THEN ZeroHash ELSE roots[Len(roots)]

\* The tree hash of RFC 6962: a list is split at the largest power of two smaller
\* than its length.
Power[j \in Nat] == IF j = 0 THEN 1 ELSE 2 * Power[j - 1]

SplitPoint(n) == CHOOSE k \in {Power[j] : j \in 0..n} : k < n /\ n <= 2 * k

\* The lists from position s[1] to position s[2].
Spans(n) == {s \in (1..n) \X (1..n) : s[1] <= s[2]}

Split(s) == s[1] + SplitPoint(s[2] - s[1] + 1) - 1

TreeHashes(hashes) ==
    LET hash[s \in Spans(Len(hashes))] ==
          IF s[1] = s[2] THEN hashes[s[1]]
          ELSE HashNode(hash[<<s[1], Split(s)>>], hash[<<Split(s) + 1, s[2]>>])
    IN  hash

TreeHash(hashes) == TreeHashes(hashes)[<<1, Len(hashes)>>]

\* The level-by-level computation with promoted odd elements gives the recursive
\* tree hash of RFC 6962, which the package claims to follow (computeRoot).
RootIsTreeHash == leaves # <<>> => root = TreeHash(leaves)

\* Every leaf has a proof that verifies, whatever the shape of the tree, and it
\* shows this leaf and no other: with another leaf, with another sibling on the
\* path, or against the root of an earlier size of the tree it fails
\* (GenerateProof, VerifyProof).
Hashes == {HashLeaf(data) : data \in Data}

ProofsBindLeaf ==
    \A i \in 0..Len(leaves) - 1 :
        LET p == GenerateProof(i) IN
        /\ VerifyProof(p)
        /\ \A h \in Hashes \ {p.leafHash} : ~VerifyProof([p EXCEPT !.leafHash = h])
        /\ \A k \in DOMAIN p.auditPath : \A h \in Hashes \ {p.auditPath[k].hash} :
              ~VerifyProof([p EXCEPT !.auditPath[k].hash = h])
        /\ \A n \in 1..Len(roots) - 1 : ~VerifyProof([p EXCEPT !.rootHash = roots[n]])

\* Two logs with different events have different roots: a root stands for the
\* sequence of leaves below it, which is what makes a change of the log show.
Logs == UNION {[1..n -> Hashes] : n \in 0..MaxCompared}

RootsDiffer ==
    Len(leaves) <= MaxCompared => \A log \in Logs : log # leaves => ComputeRoot(log) # root

===============================================================================
