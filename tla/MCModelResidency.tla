--------------------------- MODULE MCModelResidency ---------------------------
EXTENDS ModelResidency, TLC

CONSTANTS m1, m2, v1, v2

W(load, use, evict, update, pin, edit, lora) ==
  [load |-> load, use |-> use, evict |-> evict, update |-> update, pin |-> pin,
   edit |-> edit, lora |-> lora]

\* The adapter of m1 takes LoRAs while it runs, and two come with its profiles.
MCProfile == m1 :> <<"a", "b">> @@ m2 :> <<>>

MCInitialDisk == {m1 :> v1 @@ m2 :> v1}

\* Loads and evictions against pins; against config updates; against edits of
\* the files; two edits of a file; a model reloaded under its LoRA loads; LoRAs
\* that evict one another; a pinned model reconfigured; a file edited during an
\* update.
MCWorkloads ==
  {W(2, 1, 1, 0, 1, 0, 0), W(2, 1, 0, 1, 0, 0, 0), W(1, 1, 1, 1, 0, 0, 0),
   W(2, 0, 1, 0, 0, 1, 0), W(1, 1, 0, 0, 0, 2, 0), W(2, 0, 1, 0, 0, 0, 2),
   W(1, 0, 0, 0, 0, 0, 3),
   W(1, 0, 0, 1, 1, 0, 0), W(1, 0, 0, 1, 0, 1, 0)}
=============================================================================
