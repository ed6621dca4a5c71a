------------------------------- MODULE MCFat12 -------------------------------
(***************************************************************************)
(* Volumes for TLC: sectors of 4 bytes, directory entries of 1, clusters   *)
(* of one sector, a FAT cache of 2 sectors.  FAT sector s holds the bytes  *)
(* 4s .. 4s+3, so the entries of 2 | 3 4 | 6 7 | 8 9 lie in sectors        *)
(* 0 | 1 | 2 | 3, and those of 5, 10 and 13 lie across two sectors.        *)
(***************************************************************************)
EXTENDS Fat12Properties, TLC

File(n, c, s) == [name |-> n, dir |-> FALSE, cluster |-> c, size |-> s]
Dir(n, c) == [name |-> n, dir |-> TRUE, cluster |-> c, size |-> 0]

SomeNames == {".", "..", "KERNEL", "DIR", "OLD", "NIL", "DATA", "NONE", "X", "A", "B", "C", "D"}

(* A kernel whose fragmented chain moves the cache back and forth, and a   *)
(* directory of two clusters with a file of exactly two in the second.     *)
SmallRoot == <<File("KERNEL", 2, 10), Dir("DIR", 4)>>
SmallDirs ==
  (4 :> <<Dir(".", 4), Dir("..", 0), File("OLD", 3, 3), File("NIL", 0, 0),
          File("DATA", 7, 8)>>)
SmallChain ==
  (2 :> <<2, 6, 9>>) @@ (4 :> <<4, 8>>) @@ (7 :> <<7, 12>>) @@ (3 :> <<3>>)

SmallPaths ==
  {<<"KERNEL">>, <<"DIR", "DATA">>, <<"DIR", "NONE">>, <<"KERNEL", "X">>}

(* Clusters of two sectors: a kernel of four sectors in two clusters, a    *)
(* directory of two sectors whose file is named in the second.             *)
PairRoot == <<File("KERNEL", 2, 13), Dir("DIR", 4)>>
PairDirs ==
  (4 :> <<Dir(".", 4), Dir("..", 0), File("OLD", 3, 3), File("NIL", 0, 0),
          File("DATA", 7, 8)>>)
PairChain ==
  (2 :> <<2, 6>>) @@ (4 :> <<4>>) @@ (7 :> <<7>>) @@ (3 :> <<3>>)
PairPaths == {<<"KERNEL">>, <<"DIR", "DATA">>, <<"DIR", "NIL">>, <<"DIR", "NONE">>}

(* A chain through cluster 5, whose entry lies across two FAT sectors.     *)
StraddleRoot == <<File("KERNEL", 2, 10)>>
StraddleChain == 2 :> <<2, 5, 18>>
OnlyKernel == {<<"KERNEL">>}

(* A root directory of two sectors, the file in the second.                *)
WideRoot ==
  <<File("A", 2, 1), File("B", 3, 1), File("C", 4, 1), File("D", 6, 1), File("KERNEL", 7, 4)>>
WideChain == (2 :> <<2>>) @@ (3 :> <<3>>) @@ (4 :> <<4>>) @@ (6 :> <<6>>) @@ (7 :> <<7>>)
NoDirs == [c \in {} |-> << >>]
=============================================================================
