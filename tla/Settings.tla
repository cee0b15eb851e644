------------------------------ MODULE Settings ------------------------------
(***************************************************************************)
(* The settings of the radio, in memory and in the flash: the requests of  *)
(* the config server that change them (parseCommand in                     *)
(* src/mp3/user/webserver.c, with the setters of channel.c and wifi.c),    *)
(* saving and loading them (src/mp3/user/flash.c), what tskconnect makes   *)
(* of them at start-up, and the loss of power at any moment.               *)
(*                                                                         *)
(* A text stands for what the properties tell apart: how often it is still *)
(* percent-escaped and whether it fits the loader's buffer.  The flash is  *)
(* a row of records; a text that was cut off while it was written reads    *)
(* like an erased one (no end within MAX_CHAR_LEN characters) and is       *)
(* modelled as one.  Assumed: the flash driver reports no error, malloc    *)
(* finds memory, a request names a channel from 1 on.                      *)
(*                                                                         *)
(* A definition that stands right before another one, without a comment of *)
(* its own, is that other one with a plausible bug in it: the properties   *)
(* below are checked to notice it.                                         *)
(***************************************************************************)
EXTENDS Integers, Sequences

CONSTANTS Texts,      \* texts a browser sends
          Ports,      \* ports a browser sends
          Counts,     \* what a browser's number of channels comes to: ten times
                      \* the first character and the second (":0" makes 100)
          Capacity,   \* records that fit the flash sectors
          MaxCmds     \* bound: requests handled

AllTexts == {"", "plain", "esc", "escesc", "long"}

ASSUME InputAssumption == /\ Texts \subseteq AllTexts \ {""}
                          /\ Ports \subseteq Nat /\ Counts \subseteq Int
ASSUME BoundAssumption == Capacity \in Nat /\ Capacity > 4 /\ MaxCmds \in Nat

VARIABLES
  ssid, pass,   \* wifi_ssid and wifi_pass, "" before they are set
  chans,        \* streamHost, streamPath, streamPort; its length is streamCount
  flash,        \* the records of the settings' flash sectors
  spc,          \* what the radio is doing
  w, ret,       \* flash_writeConfig: records gone through, and its result
  cmds,         \* requests handled so far
  saving,       \* history: the settings when the last save began
  lastSave      \* history: how the last save went

ram == <<ssid, pass, chans>>
history == <<saving, lastSave>>
vars == <<ram, flash, spc, w, ret, cmds, history>>

MaxCount == 99
Junk == -2       \* a port whose memory was never written
ErasedInt == -1  \* four erased bytes read as an int

Erased == [kind |-> "erased"]
Header == [kind |-> "header"]
Text(x) == [kind |-> "text", text |-> x]
Number(x) == [kind |-> "number", number |-> x]
-----------------------------------------------------------------------------
\* copyFromUnicode: every %XX becomes its character.
Decode(x) == IF x = "escesc" THEN "esc" ELSE IF x = "esc" THEN "plain" ELSE x

ValidCountZero(count) == 0 <= count /\ count <= MaxCount
ValidCountAny(count) == 0 < count
ValidCount(count) == 0 < count /\ count <= MaxCount

\* channel_setStreamCount: empty texts, ports in memory not written yet.
Fresh(count) ==
  [i \in 1..count |-> [host |-> "", path |-> "", port |-> Junk]]

Defaults ==
  [ssid |-> "plain", pass |-> "plain",
   chans |-> <<[host |-> "plain", path |-> "plain", port |-> 80]>>]
-----------------------------------------------------------------------------
(* flash.c                                                                 *)

\* The records of some settings, in the order flash_writeConfig writes them.
ImageSwapped(s) ==
  <<Header, Text(s.ssid), Text(s.pass), Number(Len(s.chans))>> \o
  [k \in 1 .. 3 * Len(s.chans) |->
     LET c == s.chans[1 + ((k - 1) \div 3)]
     IN  CASE k % 3 = 1 -> Text(c.path)
           [] k % 3 = 2 -> Text(c.host)
           [] k % 3 = 0 -> Number(c.port)]
Image(s) ==
  <<Header, Text(s.ssid), Text(s.pass), Number(Len(s.chans))>> \o
  [k \in 1 .. 3 * Len(s.chans) |->
     LET c == s.chans[1 + ((k - 1) \div 3)]
     IN  CASE k % 3 = 1 -> Text(c.host)
           [] k % 3 = 2 -> Text(c.path)
           [] k % 3 = 0 -> Number(c.port)]

Settings == [ssid |-> ssid, pass |-> pass, chans |-> chans]

\* Can the p-th record be read as what is expected there?  A number always
\* can: where nothing was written it is ErasedInt.
IsText(p) == p \in {2, 3} \/ (p > 4 /\ p % 3 # 1)
CanRead(f, p) ==
  /\ p <= Capacity
  /\ IsText(p) => f[p].kind = "text" /\ f[p].text # "long"
NumberAt(f, p) == IF f[p].kind = "number" THEN f[p].number ELSE ErasedInt

\* flash_readConfig on flash f with settings s in memory: the settings after
\* it and whether it returned 0.  Every record up to the first one that cannot
\* be read is loaded; texts are decoded once more on the way, and a number of
\* channels that channel_setStreamCount refuses goes unnoticed.
Load(f, s) ==
  LET upto(p) == f[1] = Header /\ \A k \in 2..p : CanRead(f, k)
      refused == ~(upto(4) /\ ValidCount(NumberAt(f, 4)))
      old == IF refused THEN s.chans ELSE Fresh(NumberAt(f, 4))
      text(p, before) == IF upto(p) THEN Decode(f[p].text) ELSE before
      chan(i) == [host |-> text(3 * i + 2, old[i].host),
                  path |-> text(3 * i + 3, old[i].path),
                  port |-> IF upto(3 * i + 4) THEN NumberAt(f, 3 * i + 4)
                                              ELSE old[i].port]
  IN  [ssid |-> text(2, s.ssid), pass |-> text(3, s.pass),
       chans |-> [i \in 1 .. Len(old) |-> chan(i)],
       ok |-> upto(3 * Len(old) + 4)]

\* The settings in memory become s.
Become(s) == ssid' = s.ssid /\ pass' = s.pass /\ chans' = s.chans

Init ==
  /\ ssid = "" /\ pass = "" /\ chans = <<>>
  /\ flash = [p \in 1..Capacity |-> Erased]
  /\ spc = "off" /\ w = 0 /\ ret = 0 /\ cmds = 0
  /\ saving = Defaults /\ lastSave = "none"
-----------------------------------------------------------------------------
(* Start-up and loss of power                                              *)

\* tskconnect: the settings are loaded, or the defaults taken; then
\* channel_read divides by the number of channels.
Boot ==
  /\ spc = "off"
  /\ LET loaded == Load(flash, Settings)
     IN  Become(IF loaded.ok THEN loaded ELSE Defaults)
  /\ spc' = IF chans' = <<>> THEN "crash" ELSE "run"
  /\ UNCHANGED <<flash, w, ret, cmds, history>>

Down ==
  /\ ssid' = "" /\ pass' = "" /\ chans' = <<>>
  /\ spc' = "off" /\ w' = 0 /\ ret' = 0
  /\ UNCHANGED <<flash, cmds, saving>>

\* The division by zero resets the chip.
Reset == spc = "crash" /\ Down /\ UNCHANGED lastSave

PowerLoss ==
  /\ spc \in {"run", "save"}
  /\ lastSave' = IF spc = "save" THEN "cut" ELSE lastSave
  /\ Down
-----------------------------------------------------------------------------
(* parseCommand                                                            *)

Request == spc = "run" /\ cmds < MaxCmds /\ cmds' = cmds + 1

\* ?ssid=x and ?pass=x
SetSSID(x) ==
  /\ Request /\ ssid' = Decode(x)
  /\ UNCHANGED <<pass, chans, flash, spc, w, ret, history>>

SetPass(x) ==
  /\ Request /\ pass' = Decode(x)
  /\ UNCHANGED <<ssid, chans, flash, spc, w, ret, history>>

\* ?channel=count
SetCount(count) ==
  /\ Request
  /\ chans' = IF ValidCount(count) THEN Fresh(count) ELSE chans
  /\ UNCHANGED <<ssid, pass, flash, spc, w, ret, history>>

\* ?link<id>=host/path: a channel that is not there is refused.
SetLink(id, host, path) ==
  /\ Request
  /\ chans' = IF id <= Len(chans)
                THEN [chans EXCEPT ![id].host = Decode(host), ![id].path = Decode(path)]
                ELSE chans
  /\ UNCHANGED <<ssid, pass, flash, spc, w, ret, history>>

\* ?port<id>=port
SetPort(id, port) ==
  /\ Request
  /\ chans' = IF id <= Len(chans) THEN [chans EXCEPT ![id].port = port] ELSE chans
  /\ UNCHANGED <<ssid, pass, flash, spc, w, ret, history>>

\* ?flash=1: the sectors are erased, the one with the header first.
SaveUnerased ==
  /\ Request /\ spc' = "save" /\ w' = 0 /\ ret' = 0
  /\ UNCHANGED flash
  /\ saving' = Settings /\ lastSave' = "begun"
  /\ UNCHANGED ram
Save ==
  /\ Request /\ spc' = "save" /\ w' = 0 /\ ret' = 0
  /\ flash' = [p \in 1..Capacity |-> Erased]
  /\ saving' = Settings /\ lastSave' = "begun"
  /\ UNCHANGED ram

\* The next record is written, if it fits; a failure is noted, not acted on.
WriteRecord ==
  /\ spc = "save" /\ w < Len(Image(Settings))
  /\ w' = w + 1
  /\ IF w' <= Capacity
       THEN flash' = [flash EXCEPT ![w'] = Image(Settings)[w']] /\ UNCHANGED ret
       ELSE ret' = -1 /\ UNCHANGED flash
  /\ UNCHANGED <<ram, spc, cmds, history>>

\* All written: if nothing failed the flash is read back into memory.
SaveDoneBlind ==
  /\ spc = "save" /\ w = Len(Image(Settings))
  /\ spc' = "run" /\ w' = 0 /\ ret' = 0
  /\ lastSave' = IF ret = 0 /\ Load(flash, Settings).ok THEN "ok" ELSE "nok"
  /\ UNCHANGED <<ram, flash, cmds, saving>>
SaveDone ==
  /\ spc = "save" /\ w = Len(Image(Settings))
  /\ spc' = "run" /\ w' = 0 /\ ret' = 0
  /\ LET loaded == Load(flash, Settings)
     IN  IF ret = 0
           THEN Become(loaded) /\ lastSave' = IF loaded.ok THEN "ok" ELSE "nok"
           ELSE UNCHANGED ram /\ lastSave' = "nok"
  /\ UNCHANGED <<flash, cmds, saving>>
-----------------------------------------------------------------------------
Ids == 1..3

ChangeRequest ==
  \/ \E x \in Texts : SetSSID(x) \/ SetPass(x)
  \/ \E count \in Counts : SetCount(count)
  \/ \E id \in Ids, host, path \in Texts : SetLink(id, host, path)
  \/ \E id \in Ids, port \in Ports : SetPort(id, port)

Next == Boot \/ Reset \/ PowerLoss \/ ChangeRequest \/ Save \/ WriteRecord \/ SaveDone

Spec == Init /\ [][Next]_vars
-----------------------------------------------------------------------------
IsSettings(s) ==
  /\ s.ssid \in AllTexts /\ s.pass \in AllTexts
  /\ Len(s.chans) <= MaxCount
  /\ \A i \in 1 .. Len(s.chans) :
       /\ s.chans[i].host \in AllTexts /\ s.chans[i].path \in AllTexts
       /\ s.chans[i].port \in Int

TypeOK ==
  /\ IsSettings(Settings) /\ IsSettings(saving)
  /\ DOMAIN flash = 1..Capacity
  /\ \A p \in 1..Capacity : flash[p].kind \in {"erased", "header", "text", "number"}
  /\ spc \in {"off", "crash", "run", "save"}
  /\ w \in 0 .. 4 + 3 * MaxCount /\ ret \in {0, -1} /\ cmds \in 0..MaxCmds
  /\ lastSave \in {"none", "begun", "ok", "nok", "cut"}

\* The settings a radio that is switched on now comes up with.
NoSettings == [ssid |-> "", pass |-> "", chans |-> <<>>]
AtBoot ==
  LET loaded == Load(flash, NoSettings)
  IN  IF loaded.ok
        THEN [ssid |-> loaded.ssid, pass |-> loaded.pass, chans |-> loaded.chans]
        ELSE Defaults

Decoded(s) ==
  [ssid |-> Decode(s.ssid), pass |-> Decode(s.pass),
   chans |-> [i \in 1 .. Len(s.chans) |->
                [host |-> Decode(s.chans[i].host), path |-> Decode(s.chans[i].path),
                 port |-> s.chans[i].port]]]

(* A save that was answered with OK is kept through any number of power    *)
(* losses and refused requests: whenever the radio is switched on it comes *)
(* up with those settings, read as text once more (flash.c, lines 44-182). *)
SavedIsLoaded == lastSave = "ok" => AtBoot = Decoded(saving)

(* A save that failed or was cut off leaves no mixture: the next start has *)
(* the defaults, no channel at all, or the settings of that save, of which *)
(* nothing but the last port can be missing.                               *)
AllOrNothing ==
  lastSave \in {"begun", "nok", "cut"} =>
    \/ AtBoot = Defaults
    \/ AtBoot.chans = <<>>
    \/ /\ Len(AtBoot.chans) = Len(saving.chans)
       /\ \E port \in {ErasedInt, saving.chans[Len(saving.chans)].port} :
            AtBoot = [Decoded(saving) EXCEPT !.chans[Len(saving.chans)].port = port]

(* What the settings page shows right after a save that was answered with  *)
(* OK is what the next start has: it is read back from the flash ("Check,  *)
(* if data can be read", flash.c, line 108).                               *)
ShownIsStored == [][spc = "save" /\ lastSave' = "ok" => Settings' = AtBoot']_vars

(* Nothing but a loss of power in the middle of a save can keep the radio  *)
(* from starting: no sequence of requests, accepted or refused, leads to   *)
(* settings without a channel (flash.c, lines 148-155).                    *)
CrashNeedsCut == spc = "crash" => lastSave = "cut"

(* "If reading of flash failed (due to wrong header or other reason), set  *)
(* up default values" (user_main.c, line 260): a radio always starts.      *)
AlwaysStarts == spc # "crash"
=============================================================================
