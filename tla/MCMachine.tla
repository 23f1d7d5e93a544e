----------------------------- MODULE MCMachine -----------------------------
(* The machine's input, its clocks and the cache of its drive.  They share   *)
(* no state, so each is walked on its own while the others rest: `part` says *)
(* which.                                                                    *)
(* The keyboard has a letter, Enter, Delete, Control and Alt; the serial     *)
(* line sends backspaces.  Four blocks of the drive are over three slots, so *)
(* that addresses share a slot; a window of two, so that read-ahead evicts   *)
(* and is cut short at the last block.                                       *)
EXTENDS Keyboard, Clock, BlockCache, TLC

VARIABLE part

machineVars == <<part, keyboardVars, clockVars, vars>>

MCDecode(k, mods) ==
  CASE k = "c" -> IF mods \cap CtrlKeys # {} THEN ETX_KEY ELSE "c"
    [] k \in Modifiers -> "raw"
    [] OTHER -> k

OfKeyboard(step) == part = "keyboard" /\ step /\ UNCHANGED <<part, clockVars, vars>>
OfClock(step) == part = "clock" /\ step /\ UNCHANGED <<part, keyboardVars, vars>>
OfCache(step) == part = "cache" /\ step /\ UNCHANGED <<part, keyboardVars, clockVars>>

MachineInit ==
  /\ KeyboardInit /\ ClockInit /\ Init
  /\ part \in {"keyboard", "clock", "cache"}
  /\ part # "clock" => time = Never.time
  /\ part # "cache" => disk = [a \in Addr |-> Zero]

MachineNext == OfKeyboard(KeyboardNext) \/ OfClock(ClockNext) \/ OfCache(Next)

(* KeyboardFairness and ClockFairness *)
Fairness ==
  /\ WF_machineVars(OfKeyboard(Handler)) /\ SF_machineVars(OfKeyboard(Reader))
  /\ WF_machineVars(OfKeyboard(Unmask)) /\ WF_machineVars(OfKeyboard(Tick))
  /\ WF_machineVars(OfClock(pit_interrupt_handler)) /\ WF_machineVars(OfClock(UpdateEnds))
  /\ WF_machineVars(OfClock(rtc_interrupt_handler))
  /\ WF_machineVars(OfClock(Reading)) /\ WF_machineVars(OfClock(Look))

MachineSpec == MachineInit /\ [][MachineNext]_machineVars /\ Fairness
=============================================================================
