----------------------------- MODULE MCDevices -----------------------------
(* The drives with their driver, the file system's start on them, the        *)
(* handles through which processes reach files and devices, and the sound    *)
(* device.  They share no state of the models, so each is walked on its own  *)
(* while the others rest: `part` says which.                                 *)
EXTENDS Ata, Handles, FsBoot, SoundCard

VARIABLE part

vars == <<part, ataVars, handlesVars, bootVars, soundVars>>

MCSeeds == <<"usr", "home", "bienvenida.txt", "manual.txt">>

OfAta(step) == part = "ata" /\ step /\ UNCHANGED <<part, handlesVars, bootVars, soundVars>>
OfHandles(step) == part = "handles" /\ step /\ UNCHANGED <<part, ataVars, bootVars, soundVars>>
OfBoot(step) == part = "boot" /\ step /\ UNCHANGED <<part, ataVars, handlesVars, soundVars>>
OfSound(step) == part = "sound" /\ step /\ UNCHANGED <<part, ataVars, handlesVars, bootVars>>

Init ==
  /\ AtaInit /\ HandlesInit /\ BootInit /\ SoundInit
  /\ part \in {"ata", "handles", "boot", "sound"}
  /\ part # "ata" => present = {}
  /\ part # "sound" => AC97
  /\ part # "boot" => disk = [d \in Place |-> Unformatted]

Next == OfAta(AtaNext) \/ OfHandles(HandlesNext) \/ OfBoot(BootNext) \/ OfSound(SoundNext)

Spec ==
  /\ Init /\ [][Next]_vars /\ WF_vars(OfAta(Driver))
  /\ WF_vars(OfSound(PlayBlock)) /\ WF_vars(OfSound(handle_interrupt))
=============================================================================
