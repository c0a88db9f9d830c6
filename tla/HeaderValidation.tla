-------------------------- MODULE HeaderValidation --------------------------
(***************************************************************************)
(* The checks that send_one_get_header makes on a relay's header           *)
(* (crates/pbs/src/mev_boost/get_header.rs and crates/pbs/src/utils.rs).   *)
(***************************************************************************)
EXTENDS Integers

CONSTANTS
  ParentHash,     \* params.parent_hash of the request
  Slot,           \* params.slot
  GenesisTime,    \* chain.genesis_time_sec()
  SlotTime,       \* chain.slot_time_sec()
  MinBid,         \* min_bid_wei
  SkipSigverify,  \* skip_sigverify
  RelayPubkey,    \* relay -> the key of its entry in the config
  ParentBlock     \* the block the execution client knows: [number, gas_limit]

ZeroHash == "zero"
EmptyTxRoot == "empty"

HeaderType ==
  [block_hash : STRING, parent_hash : STRING, tx_root : STRING, value : Nat,
   timestamp : Nat, pubkey : STRING, signer : STRING, number : Nat,
   gas_limit : Nat]

TimestampOfSlotStart(slot) == GenesisTime + slot * SlotTime

ValidateHeaderData(h) ==
  /\ h.block_hash # ZeroHash
  /\ h.parent_hash = ParentHash
  /\ h.tx_root # EmptyTxRoot
  /\ h.value >= MinBid
  /\ h.timestamp = TimestampOfSlotStart(Slot)

\* BLS verification: a signature verifies under the key that made it.
VerifySignedMessage(pubkey, h) == h.signer = pubkey

ValidateSignature(relay, h) ==
  /\ h.pubkey = RelayPubkey[relay]
  /\ VerifySignedMessage(h.pubkey, h)

GasLimitAdjustmentFactor == 1024
GasLimitMinimum == 5000

CheckGasLimitInclusive(gas_limit, parent_gas_limit) ==
  LET delta == parent_gas_limit \div GasLimitAdjustmentFactor
  IN  /\ gas_limit <= parent_gas_limit + delta
      /\ gas_limit >= parent_gas_limit - delta
      /\ gas_limit >= GasLimitMinimum

CheckGasLimit(gas_limit, parent_gas_limit) ==
  LET delta == parent_gas_limit \div GasLimitAdjustmentFactor
  IN  /\ gas_limit < parent_gas_limit + delta
      /\ gas_limit > parent_gas_limit - delta
      /\ gas_limit >= GasLimitMinimum

ExtraValidation(parent, h) ==
  /\ h.number = parent.number + 1
  /\ CheckGasLimit(h.gas_limit, parent.gas_limit)

\* The checks that do not depend on when the header arrives.
Accepts(relay, h) ==
  ValidateHeaderData(h) /\ (SkipSigverify \/ ValidateSignature(relay, h))
=============================================================================
