----------------------------- MODULE MCMigrate -----------------------------
(* Instances of Migrate for TLC: the tables of config.h, over less footage. *)
EXTENDS Migrate, MigrationPlan

Table(row) == [i \in Tiers |-> row[i + 1]]
Formats(row) == [i \in Tiers |-> row[i + 1] = 1]

(* "short": how many frames of the last chunk of each tier are missing. *)
MakeTables(chunks, share, shareNew, raw, rawNew, short) ==
  [chunks |-> [t \in Temps |-> chunks[t + 1]], share |-> Table(share), shareNew |-> Table(shareNew),
   raw |-> Formats(raw), rawNew |-> Formats(rawNew), short |-> short]

(* stagePer, stagePerNew, stage and stageNew for stage 0: the tables under *)
(* "#if 0", with raw moves of hot footage, and the active ones.            *)
Before0(chunks) ==
  MakeTables(chunks, <<25, 25, 50, 0, 0, 100, 50, 50, 0>>, <<100, 0, 0, 0, 50, 50, 50, 50, 0>>,
             <<1, 1, 1, 1, 0, 1, 0, 1, 1>>, <<1, 0, 1, 1, 0, 0, 1, 1, 1>>, 0)
Active ==
  MakeTables(<<8, 2, 2>>, <<100, 25, 50, 0, 0, 100, 50, 50, 0>>, <<100, 0, 0, 0, 50, 50, 50, 50, 0>>,
             <<1, 1, 1, 1, 0, 1, 0, 1, 1>>, <<1, 0, 1, 1, 0, 0, 1, 1, 1>>, 0)

(* Tables whose other moves find what they look for: an encoded chunk      *)
(* between tiers and then an encoding; a decoding, which finds its chunk   *)
(* when the chunk's number happens to be a key.                            *)
ChunkThenEncode ==
  MakeTables(<<4, 8, 2>>, <<100, 0, 0, 50, 13, 37, 100, 0, 0>>, <<100, 0, 0, 100, 0, 0, 100, 0, 0>>,
             <<1, 1, 1, 0, 0, 1, 1, 1, 1>>, <<1, 1, 1, 0, 0, 0, 1, 1, 1>>, 0)
Decoding(warm) ==
  MakeTables(<<2, warm, 2>>, <<100, 0, 0, 50, 50, 0, 100, 0, 0>>, <<100, 0, 0, 100, 0, 0, 100, 0, 0>>,
             <<1, 1, 1, 1, 0, 1, 1, 1, 1>>, <<1, 1, 1, 1, 0, 0, 1, 1, 1>>, 0)

(* All footage is raw and moves to the first tier. *)
HotOnly(short) ==
  MakeTables(<<4, 0, 0>>, <<50, 50, 0, 100, 0, 0, 100, 0, 0>>, <<100, 0, 0, 100, 0, 0, 100, 0, 0>>,
             <<1, 1, 1, 1, 1, 1, 1, 1, 1>>, <<1, 1, 1, 1, 1, 1, 1, 1, 1>>, short)

AllTables ==
  {Before0(<<8, 2, 2>>), Before0(<<16, 2, 2>>), Active, ChunkThenEncode, Decoding(4), Decoding(2),
   HotOnly(0), HotOnly(1)}

MCRawDirs == {d \in Dirs : d.raw}

(* The chunks of a tier, and its database as the builder leaves it. *)
InTier(T, tier) == SelectSeq([i \in 1..T.chunks[tier \div 3] |-> i - 1],
                             LAMBDA c : GetTier(T, c, tier \div 3, T.share) = tier)
Encoded(tier, s) ==
  [k \in {2 * i : i \in 1..Len(s)} |-> [temp |-> tier \div 3, chunk |-> s[k \div 2], frame |-> 0]]
Frames(T, tier, s) ==
  [k \in {2 * i : i \in 1..(ChunkLength * Len(s) - T.short)} |->
    [temp |-> tier \div 3, chunk |-> s[((k \div 2 - 1) \div ChunkLength) + 1],
     frame |-> ((k \div 2 - 1) % ChunkLength) + 1]]
StoreOf(T) ==
  [d \in Dirs |-> IF T.raw[d.tier] # d.raw THEN Empty
                  ELSE IF d.raw THEN Frames(T, d.tier, InTier(T, d.tier))
                  ELSE Encoded(d.tier, InTier(T, d.tier))]

MCBuilds == {[store |-> StoreOf(T), tasks |-> Tasks(T)] : T \in Tables}
MCItems == [temp : Temps, chunk : 0..15, frame : 0..ChunkLength]

(* These tables are as MovedAsNamed and OrderKept need them.               *)
ASSUME TablesInOrder == TasksInOrder /\ InFootageOrder
=============================================================================
