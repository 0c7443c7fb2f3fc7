------------------------------ MODULE Signing ------------------------------
(***************************************************************************)
(* aesCMAC of internal/smb/crypto.go, which signs SMB 3.x messages, beside *)
(* the definition of RFC 4493 it implements.  The code runs all blocks but *)
(* the last through a CBC encrypter a chunk at a time, carrying the chain  *)
(* state from one chunk to the next, where the RFC goes block by block.    *)
(*                                                                         *)
(* AES and xor are left uninterpreted: a block is a term, written in       *)
(* prefix notation as a sequence of numbers, so two results are equal only *)
(* if they are computed in the same way.  A message is a sequence of       *)
(* units, a block takes BlockUnits of them (16 bytes in the code).         *)
(***************************************************************************)
EXTENDS Integers, Sequences

CONSTANTS
  BlockUnits,   \* units of a block
  ChunkBlocks   \* blocks of a chunk, cmacChunk = 64 KiB in the code

ASSUME SigningAssumption == BlockUnits \in Nat \ {0} /\ ChunkBlocks \in Nat \ {0}

Zero == <<0>>
Encrypt(x) == <<1>> \o x
Xor(x, y) == <<2>> \o x \o y
SubKey(k) == <<3, k>>
\* The units of a block; a short one is followed by a one bit and zeros.
Whole(units) == <<4>> \o units
Partial(units) == <<5, Len(units)>> \o units

\* The units of block i of m, counted from 1.
BlockOf(m, i) == SubSeq(m, (i - 1) * BlockUnits + 1, i * BlockUnits)

\* CryptBlocks: CBC over blocks first .. last, from the given chain state; the
\* result is the last ciphertext block.
CryptBlocks(m, iv, first, last) ==
  LET x[i \in (first - 1)..last] ==
        IF i < first THEN iv ELSE Encrypt(Xor(x[i - 1], Whole(BlockOf(m, i))))
  IN  x[last]

\* Mutant: every chunk starts from zero.
ChainStateForgotten(m, full) ==
  LET chunks == (full + ChunkBlocks - 1) \div ChunkBlocks
      end(j) == IF j * ChunkBlocks < full THEN j * ChunkBlocks ELSE full
      x[j \in 0..chunks] == IF j = 0 THEN Zero ELSE CryptBlocks(m, Zero, (j - 1) * ChunkBlocks + 1, end(j))
  IN  x[chunks]

\* The chain state after the first full blocks of m, a chunk at a time.
ChainState(m, full) ==
  LET chunks == (full + ChunkBlocks - 1) \div ChunkBlocks
      end(j) == IF j * ChunkBlocks < full THEN j * ChunkBlocks ELSE full
      x[j \in 0..chunks] == IF j = 0 THEN Zero ELSE CryptBlocks(m, x[j - 1], (j - 1) * ChunkBlocks + 1, end(j))
  IN  x[chunks]

\* The last block, whole or not, is left out of the chain and tweaked by a subkey.
aesCMAC(m) ==
  LET exact == Len(m) % BlockUnits = 0 /\ Len(m) > 0
      full == IF exact THEN Len(m) \div BlockUnits - 1 ELSE Len(m) \div BlockUnits
      rest == SubSeq(m, full * BlockUnits + 1, Len(m))
      last == IF exact THEN Xor(Whole(rest), SubKey(1)) ELSE Xor(Partial(rest), SubKey(2))
  IN  Encrypt(Xor(ChainState(m, full), last))

\* RFC 4493, section 2.4: n blocks, at least one, the last of them M_last.
CMAC(m) ==
  LET n == IF m = <<>> THEN 1 ELSE (Len(m) + BlockUnits - 1) \div BlockUnits
      units(i) == IF i * BlockUnits <= Len(m) THEN BlockUnits ELSE Len(m) - (i - 1) * BlockUnits
      block(i) == [k \in 1..units(i) |-> m[(i - 1) * BlockUnits + k]]
      mLast == IF Len(block(n)) = BlockUnits THEN Xor(Whole(block(n)), SubKey(1))
               ELSE Xor(Partial(block(n)), SubKey(2))
      x[i \in 0..(n - 1)] == IF i = 0 THEN Zero ELSE Encrypt(Xor(x[i - 1], Whole(block(i))))
  IN  Encrypt(Xor(x[n - 1], mLast))
=============================================================================
