----------------------------- MODULE MCAlgorithms -----------------------------
(***************************************************************************)
(* The smaller components in one instance: a behaviour is a showdown's  *)
(* payout or a hand's rank, or a life of the lobby's list, of the trie or  *)
(* of a connection's frames.                                               *)
(***************************************************************************)
EXTENDS ShowdownCases, SessionList, Trie, Frames

VARIABLE subject

ShufflesUsed == {<<1, 2, 3, 4, 5, 6, 7>>, <<4, 1, 7, 2, 6, 3, 5>>}
Tokens == {<<"a">>, <<"a", "b">>, <<"a", "b", "a">>, <<"a", "b", "b">>, <<"b">>}
PacketsSent == {<<1, 1, 0, 1, 0>>, <<1, 0>>}
KeysUsed == {<<0, 1, 1, 0>>}

NoCase ==
  /\ ranking = << >> /\ contenders = {} /\ bet = << >> /\ result = NoResult
  /\ seven = << >> /\ rank = 0

AnyInit ==
  /\ ListInit /\ TrieInit /\ FramesInit
  /\ \/ subject = "cards" /\ CasesInit
     \/ subject \in {"list", "trie", "frames"} /\ NoCase

AnyNext ==
  /\ UNCHANGED subject
  /\ \/ subject = "cards" /\ CasesNext /\ UNCHANGED <<listVars, trieVars, frameVars>>
     \/ subject = "list" /\ ListNext /\ UNCHANGED <<payout, hand, trieVars, frameVars>>
     \/ subject = "trie" /\ TrieNext /\ UNCHANGED <<payout, hand, listVars, frameVars>>
     \/ subject = "frames" /\ FramesNext /\ UNCHANGED <<payout, hand, listVars, trieVars>>

AnySpec == AnyInit /\ [][AnyNext]_<<payout, hand, listVars, trieVars, frameVars, subject>>
=============================================================================
