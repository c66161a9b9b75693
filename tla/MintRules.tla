----------------------------- MODULE MintRules -----------------------------
(***************************************************************************)
(* When a token can be paid with offline: evaluateMint of                  *)
(* packages/core/src/validate.ts, over mints reduced to what it looks at.  *)
(*                                                                         *)
(* An extension is its kind, whether it is active (a hook is set, a fee is *)
(* not zero, accounts start frozen, transfers are paused, a delegate is    *)
(* set), and whether its own authority is set.  "unreadable" is a field    *)
(* that is missing or of another shape.                                    *)
(***************************************************************************)

TokenPrograms == {"spl-token", "token-2022"}
ExtensionKinds ==
  {"transferHook", "transferFeeConfig", "nonTransferable", "defaultAccountState",
   "permanentDelegate", "pausableConfig", "confidentialTransferMint",
   "mintCloseAuthority", "tokenMetadata", "other"}

Extensions == [kind : ExtensionKinds, active : {"yes", "no", "unreadable"},
               authority : BOOLEAN]
RawMints == [tokenProgram : TokenPrograms, freezeAuthority : BOOLEAN,
             extensions : SUBSET Extensions]

Blockers == {"transfer-hook-active", "transfer-fee-nonzero", "non-transferable",
             "default-account-state-frozen", "paused"}
Warnings == {"permanent-delegate", "pausable", "confidential-transfer",
             "freeze-authority", "mint-close-authority", "unknown-extension"}
MintRecords == [tokenProgram : TokenPrograms, compatible : BOOLEAN,
                blockers : SUBSET Blockers, warnings : SUBSET Warnings,
                mutable : BOOLEAN]

\* What cannot be read blocks, except that a pause has to be observed.
BlockerFor == [transferHook        |-> "transfer-hook-active",
               transferFeeConfig   |-> "transfer-fee-nonzero",
               defaultAccountState |-> "default-account-state-frozen"]

BlockersOf(e) ==
  CASE e.kind \in DOMAIN BlockerFor ->
         IF e.active = "no" THEN {} ELSE {BlockerFor[e.kind]}
    [] e.kind = "nonTransferable" -> {"non-transferable"}
    [] e.kind = "pausableConfig"  -> IF e.active = "yes" THEN {"paused"} ELSE {}
    [] OTHER                      -> {}

WarningsOf(e) ==
  CASE e.kind = "permanentDelegate"  -> IF e.active = "no" THEN {} ELSE {"permanent-delegate"}
    [] e.kind = "mintCloseAuthority" -> IF e.authority THEN {"mint-close-authority"} ELSE {}
    [] e.kind = "pausableConfig"     -> {"pausable"}
    [] e.kind = "confidentialTransferMint" -> {"confidential-transfer"}
    [] e.kind = "other"              -> {"unknown-extension"}
    [] OTHER                         -> {}

\* Mutant: every extension goes by its own authority.
MutableByAuthority(raw, e) ==
  CASE e.kind \in {"transferHook", "transferFeeConfig"} -> e.authority
    [] e.kind = "pausableConfig"      -> e.authority
    [] e.kind = "defaultAccountState" -> e.authority
    [] OTHER                          -> FALSE

\* The default account state is changed by the freeze authority; a pause can come
\* at any time.
MutableBy(raw, e) ==
  CASE e.kind \in {"transferHook", "transferFeeConfig"} -> e.authority
    [] e.kind = "pausableConfig"      -> TRUE
    [] e.kind = "defaultAccountState" -> raw.freezeAuthority
    [] OTHER                          -> FALSE

EvaluateMint(raw) ==
  LET blockers == UNION {BlockersOf(e) : e \in raw.extensions}
      warnings == UNION {WarningsOf(e) : e \in raw.extensions}
  IN  [tokenProgram |-> raw.tokenProgram,
       compatible   |-> blockers = {},
       blockers     |-> blockers,
       warnings     |-> warnings \cup
                        (IF raw.freezeAuthority THEN {"freeze-authority"} ELSE {}),
       mutable      |-> \E e \in raw.extensions : MutableBy(raw, e)]
------------------------------------------------------------------------------
(* The token programs *)

\* An extension is changed by whoever holds its authority, and the default state
\* by the freeze authority.  An authority can be given up, never taken up again.
Changed(raw, e) ==
  LET held == IF e.kind = "defaultAccountState" THEN raw.freezeAuthority
                                                ELSE e.authority
  IN  IF held /\ e.kind # "nonTransferable"
      THEN {[e EXCEPT !.active = a, !.authority = h] :
              a \in {"yes", "no"}, h \in {FALSE, e.authority}}
      ELSE {e}

MintSuccessors(raw) ==
  ({[raw EXCEPT !.freezeAuthority = FALSE]} \cup
   UNION {{[raw EXCEPT !.extensions = (@ \ {e}) \cup {changed}] :
             changed \in Changed(raw, e)} : e \in raw.extensions})
  \ {raw}
==============================================================================
