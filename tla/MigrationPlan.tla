--------------------------- MODULE MigrationPlan ---------------------------
(***************************************************************************)
(* The tasks the migrator builds when it starts (test-migrate.cpp), from   *)
(* the tables of config.h: for each temperature the share of the footage   *)
(* in each of its three tiers, before and after, and each tier's format.   *)
(* Shares are percentages; TEMP_NUM is counted in chunks.                  *)
(***************************************************************************)
EXTENDS Integers, Sequences, SequencesExt

CONSTANT Tables  (* the tables that may be compiled in *)

Temps == 0..2
Tiers == 0..8

UpTo(share, base, n) ==
  CASE n = 0 -> share[base]
    [] n = 1 -> share[base] + share[base + 1]
    [] n = 2 -> share[base] + share[base + 1] + share[base + 2]

(* chunks: TEMP_NUM / CHUNK_LENGTH.  share, shareNew: stagePer and         *)
(* stagePerNew of stage 0.  raw, rawNew: stage and stageNew.  getTier       *)
(* falls off its end when the shares do not cover the footage.             *)
ASSUME TablesAssumption ==
  \A T \in Tables :
    /\ T.chunks \in [Temps -> Nat]
    /\ T.share \in [Tiers -> 0..100] /\ T.shareNew \in [Tiers -> 0..100]
    /\ T.raw \in [Tiers -> BOOLEAN] /\ T.rawNew \in [Tiers -> BOOLEAN]
    /\ \A temp \in Temps : /\ UpTo(T.share, 3 * temp, 2) >= 100
                           /\ UpTo(T.shareNew, 3 * temp, 2) >= 100

(* The tier of chunk number "count" of a temperature, by cumulated shares. *)
GetTier(T, count, temp, share) ==
  LET base == 3 * temp
      fits(n) == (count + 1) * 100 <= UpTo(share, base, n) * T.chunks[temp]
  IN  base + (CHOOSE n \in 0..2 : fits(n) /\ \A m \in 0..(n - 1) : ~fits(m))

(* An int minus a float product, stored back into the int. *)
Truncated(a) == IF a >= 0 THEN a \div 100 ELSE -((-a) \div 100)

(* The chunk's number within its tier.  The code scales the shares by the  *)
(* hot footage, TEMP_NUM[stageNum], whatever the temperature.              *)
ChunkInTier(T, count, temp, tier) ==
  FoldLeft(LAMBDA c, n : Truncated(100 * c - T.share[3 * temp + n - 1] * T.chunks[0]),
           count, [n \in 1..(tier % 3) |-> n])

(* The directory of a tier and a format; those of a tier differ by format. *)
DirOf(tier, raw) == [tier |-> tier, raw |-> raw]
Dirs == [tier : Tiers, raw : BOOLEAN]

(* mode 0: no codec, 1: decode first, 2: encode first. *)
Task(T, temp, count) ==
  LET old == GetTier(T, count, temp, T.share)
      new == GetTier(T, count, temp, T.shareNew)
      mode == CASE T.raw[old] = T.rawNew[new] -> 0
                [] ~T.raw[old] /\ T.rawNew[new] -> 1
                [] T.raw[old] /\ ~T.rawNew[new] -> 2
  IN  [mode |-> mode, src |-> DirOf(old, T.raw[old]), dst |-> DirOf(new, T.rawNew[new]),
       chunk |-> IF mode = 0 THEN ChunkInTier(T, count, temp, old) ELSE count]

TasksOf(T, temp) ==
  SelectSeq([i \in 1..T.chunks[temp] |-> Task(T, temp, i - 1)], LAMBDA t : t.src # t.dst)

(* The queue as main builds it, for stage 0: the loop breaks after it. *)
Tasks(T) == TasksOf(T, 0) \o TasksOf(T, 1) \o TasksOf(T, 2)
=============================================================================
