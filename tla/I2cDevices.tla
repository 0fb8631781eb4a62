----------------------------- MODULE I2cDevices -----------------------------
(***************************************************************************)
(* The drivers of the small I2C devices (extdrv/): the RTC, the light, UV, *)
(* humidity, temperature and soil sensors.  A call of a driver is a list   *)
(* of transfers on the bus; any of them may be refused by the chip or cut  *)
(* after some bytes, and the chip may lose its power between two of them.  *)
(*                                                                         *)
(* A register holds the number of the call that wrote it, 0 after a reset. *)
(***************************************************************************)
EXTENDS Integers, Sequences

CONSTANTS
  Kinds,      \* the devices the board may carry
  MaxCalls,   \* bound: calls
  MaxLosses   \* bound: times the chip loses its power

I2cDevicesAssumption ==
  /\ Kinds \subseteq {"rtc", "tsl256x", "bme280", "tmp101", "veml6070", "chirp"}
  /\ MaxCalls \in Nat /\ MaxLosses \in Nat

VARIABLES
  kind,   \* the device
  conf,   \* its configuration structure in the driver
  chip,   \* the chip: its registers and the one its pointer is at
  call,   \* the call under way, or the last one
  count   \* calls and losses of power so far, whether a transfer failed

vars == <<kind, conf, chip, call, count>>

\* The registers of the chips, in groups that are written or read together.
Registers ==
  {"stop", "prescaler", "time_lo", "time_hi", "timestamps", "setup", "marker", "watchdog", "ram",
   "control", "timing", "id", "data", "calT", "calP", "calHa", "calHb",
   "temperature", "config", "high", "low", "value", "command"}

Reset == [reg |-> [r \in Registers |-> 0], ptr |-> "temperature"]

\* The steps a call is made of.
Write(parts) == [op |-> "write", what |-> parts]
Read(regs)   == [op |-> "read", what |-> regs]   \* writes the pointer first
Here(regs)   == [op |-> "here", what |-> regs]   \* reads where the pointer is

\* plan is what the call is made of after the probe; got is, for each step done,
\* the registers its bytes were of.
NoCall == [pc |-> "idle", name |-> "none", plan |-> <<>>, got |-> <<>>, seen |-> 0,
           ret |-> "none", lost |-> FALSE]

Init ==
  /\ kind \in Kinds
  /\ conf = [probe_ok |-> FALSE, time_set |-> FALSE, last |-> "temperature"]
  /\ chip = Reset
  /\ call = NoCall
  /\ count = [calls |-> 0, losses |-> 0, failed |-> FALSE]

-----------------------------------------------------------------------------
(* How a device is looked for, unless it answered before.                  *)

rtc_pcf85363_probe   == <<Here(<<>>)>>
tmp101_probe_sensor  == <<Here(<<>>)>>
chirp_probe_sensor   == <<Here(<<>>)>>
veml6070_probe_sensor == <<Here(<<"low">>)>>
bme280_probe_sensor  == <<Read(<<"id">>)>>
tsl256x_probe_sensor == <<Write(<<<<"control", count.calls>>>>), Read(<<"control">>)>>

Probe ==
  [rtc |-> rtc_pcf85363_probe, tmp101 |-> tmp101_probe_sensor, chirp |-> chirp_probe_sensor,
   veml6070 |-> veml6070_probe_sensor, bme280 |-> bme280_probe_sensor,
   tsl256x |-> tsl256x_probe_sensor][kind]

Begin(k, name, probes, steps) ==
  /\ kind = k /\ call.pc = "idle" /\ count.calls < MaxCalls
  /\ call' = [NoCall EXCEPT !.pc = IF probes /\ ~conf.probe_ok THEN "probe" ELSE "run",
                !.name = name, !.plan = steps]
  /\ count' = [count EXCEPT !.calls = @ + 1]
  /\ UNCHANGED <<kind, conf, chip>>

-----------------------------------------------------------------------------
(* The calls.  Arguments that are refused (-EINVAL) change nothing.        *)

Now == count.calls + 1

rtc_pcf85363_set_regs(name, parts) == Begin("rtc", name, TRUE, <<Write(parts)>>)
rtc_pcf85363_get_regs(name, regs)  == Begin("rtc", name, TRUE, <<Read(regs)>>)
rtc_pcf85363_time_read        == rtc_pcf85363_get_regs("time_read", <<"time_lo", "time_hi">>)
rtc_pcf85363_get_timestamp    == rtc_pcf85363_get_regs("get_timestamp", <<"timestamps">>)
rtc_pcf85363_erase_timestamps == rtc_pcf85363_set_regs("erase", <<<<"timestamps", 0>>>>)
rtc_pcf85363a_read_ram        == rtc_pcf85363_get_regs("read_ram", <<"ram">>)
rtc_pcf85363a_write_ram       == rtc_pcf85363_set_regs("write_ram", <<<<"ram", Now>>>>)
\* The clock is stopped, set and started again.
rtc_pcf85363_time_write ==
  Begin("rtc", "time_write", TRUE,
    <<Write(<<<<"stop", Now>>, <<"prescaler", Now>>>>),
      Write(<<<<"time_lo", Now>>, <<"time_hi", Now>>>>), Write(<<<<"stop", 0>>>>)>>)
rtc_pcf85363a_is_up  == rtc_pcf85363_get_regs("is_up", <<"marker">>)
rtc_pcf85363a_config == rtc_pcf85363_get_regs("config", <<"marker">>)

\* Mutant: the marker is the first register of the configuration.
ConfigMarkerFirst(n) == <<Write(<<<<"marker", n>>, <<"setup", n>>, <<"watchdog", n>>>>)>>
\* config[]: the control registers, then SINGLE_RAM with the marker.
ConfigRegs(n) == <<Write(<<<<"setup", n>>, <<"marker", n>>, <<"watchdog", n>>>>)>>

\* No probe in this one, only a failure is noted; the id is read only from a
\* device that answered.
tsl256x_sensor_read == Begin("tsl256x", "read", FALSE, <<Read(<<"data">>)>>)
tsl256x_read_id     == conf.probe_ok /\ Begin("tsl256x", "read_id", FALSE, <<Read(<<"id">>)>>)
tsl256x_configure   == Begin("tsl256x", "configure", TRUE, <<Write(<<<<"timing", Now>>>>)>>)

bme280_get_calibration_data ==
  <<Read(<<"calT">>), Read(<<"calP">>), Read(<<"calHa">>), Read(<<"calHb">>)>>
bme280_configure ==
  Begin("bme280", "configure", TRUE, <<Write(<<<<"control", Now>>, <<"config", Now>>>>)>>
                                        \o bme280_get_calibration_data)
bme280_sensor_read == Begin("bme280", "read", TRUE, <<Read(<<"data">>)>>)

\* The pointer is written only when the last register was another one.
tmp101_sensor_read ==
  Begin("tmp101", "read", TRUE,
    <<IF conf.last = "temperature" THEN Here(<<"temperature">>) ELSE Read(<<"temperature">>)>>)
tmp101_sensor_config == Begin("tmp101", "config", TRUE, <<Write(<<<<"config", Now>>>>)>>)
tmp101_sensor_start_conversion == Begin("tmp101", "start", TRUE, <<Write(<<<<"config", Now>>>>)>>)

veml6070_sensor_read == Begin("veml6070", "read", TRUE, <<Here(<<"high">>), Here(<<"low">>)>>)
veml6070_configure   == Begin("veml6070", "configure", TRUE, <<Write(<<<<"command", Now>>>>)>>)

chirp_sensor_read  == Begin("chirp", "read", TRUE, <<Read(<<"value">>)>>)
chirp_sensor_write == Begin("chirp", "write", TRUE, <<Write(<<<<"command", Now>>>>)>>)

-----------------------------------------------------------------------------
(* The transfers.                                                          *)

\* What the chip has after k of the bytes that follow the address, external:
\* with k = -1 it did not even take the pointer.
Stored(step, k) ==
  LET in == {i \in DOMAIN step.what : i <= k}
      last(r) == {i \in in : step.what[i][1] = r /\ \A j \in in : j > i => step.what[j][1] # r}
  IN  [r \in Registers |->
         IF last(r) = {} THEN chip.reg[r] ELSE step.what[CHOOSE i \in last(r) : TRUE][2]]

Taken(step, k) ==
  IF step.op = "here" \/ k = -1 THEN chip
  ELSE IF step.op = "read" THEN [chip EXCEPT !.ptr = step.what[1]]
  ELSE [reg |-> Stored(step, k), ptr |-> step.what[1][1]]

\* The registers a read gets its bytes from: the temperature sensor answers
\* from its pointer, the others without a pointer have one register.
Source(step) == IF step.op = "here" /\ kind = "tmp101" THEN [i \in DOMAIN step.what |-> chip.ptr]
                ELSE step.what

\* The last value a read brings.
Seen(step) == IF step.op = "write" \/ step.what = <<>> THEN 0
              ELSE chip.reg[Source(step)[Len(step.what)]]

Failed(step, k) == k < Len(step.what)

\* The register the temperature driver believes the pointer to be at, noted
\* before the result of the transfer is looked at.
LastRegister(step) ==
  IF step.op = "here" THEN conf.last
  ELSE IF step.op = "read" THEN step.what[1] ELSE step.what[1][1]

\* Only chirp_sensor_write leaves probe_ok after a failure.
ForgetsProbe == ~(kind = "chirp" /\ call.name = "write")

Steps == IF call.pc = "probe" THEN Probe ELSE call.plan
Over  == Len(call.got) = Len(Steps)

Transfer ==
  /\ call.pc \in {"probe", "run"} /\ ~Over
  /\ LET step == Steps[Len(call.got) + 1] IN
     \E k \in -1 .. Len(step.what) :
       /\ chip' = Taken(step, k)
       /\ conf' = [conf EXCEPT !.last = IF call.pc = "run" THEN LastRegister(step) ELSE @,
                     !.probe_ok = @ /\ ~(Failed(step, k) /\ ForgetsProbe)]
       /\ count' = [count EXCEPT !.failed = @ \/ Failed(step, k)]
       /\ call' = IF Failed(step, k)
                  THEN [call EXCEPT !.pc = "return", !.ret = "error"]
                  ELSE [call EXCEPT !.seen = Seen(step),
                          !.got = Append(@, IF step.op = "write" THEN <<>> ELSE Source(step))]
  /\ UNCHANGED kind

\* The probe is over; the humidity sensor's needs the right id.
Probed ==
  /\ call.pc = "probe" /\ Over
  /\ \E right \in IF kind = "bme280" THEN BOOLEAN ELSE {TRUE} :
       /\ conf' = [conf EXCEPT !.probe_ok = right]
       /\ call' = IF right
                  THEN [call EXCEPT !.pc = "run", !.got = <<>>]
                  ELSE [call EXCEPT !.pc = "return", !.ret = "error"]
  /\ UNCHANGED <<kind, chip, count>>

\* The values a call of the RTC decides on once it has read them: a clock that
\* was not set since it lost its power is older than any time of interest.
rtc_pcf85363a_time_cmp == IF call.seen > 0 THEN 1 ELSE -1

Decides == kind = "rtc" /\ call.name \in {"config", "is_up"} /\ Len(call.plan) = 1
Decide ==
  /\ call.pc = "run" /\ Over /\ Decides
  /\ LET ours == call.seen # 0
         more == IF call.name = "config" THEN ConfigRegs(count.calls)
                 ELSE <<Read(<<"time_lo", "time_hi">>)>>
     IN  call' = IF ours = (call.name = "is_up")
                 THEN [call EXCEPT !.plan = @ \o more]
                 ELSE [call EXCEPT !.pc = "return", !.ret = IF ours THEN "already" ELSE "no"]
  /\ UNCHANGED <<kind, conf, chip, count>>

Finish ==
  /\ call.pc = "run" /\ Over /\ ~Decides
  /\ LET old == call.name = "is_up" /\ rtc_pcf85363a_time_cmp <= 0 IN
       /\ conf' = [conf EXCEPT !.time_set =
                     @ \/ call.name = "time_write" \/ (call.name = "is_up" /\ ~old)]
       /\ call' = [call EXCEPT !.pc = "return", !.ret = IF old THEN "fault" ELSE "done"]
  /\ UNCHANGED <<kind, chip, count>>

Return ==
  /\ call.pc = "return"
  /\ call' = [call EXCEPT !.pc = "idle"]
  /\ UNCHANGED <<kind, conf, chip, count>>

\* The chip loses its power and comes back, external.
LosePower ==
  /\ count.losses < MaxLosses
  /\ chip' = Reset
  /\ count' = [count EXCEPT !.losses = @ + 1]
  /\ call' = [call EXCEPT !.lost = TRUE]
  /\ UNCHANGED <<kind, conf>>

Rtc ==
  \/ rtc_pcf85363_time_read \/ rtc_pcf85363_time_write \/ rtc_pcf85363_get_timestamp
  \/ rtc_pcf85363_erase_timestamps \/ rtc_pcf85363a_is_up \/ rtc_pcf85363a_read_ram
  \/ rtc_pcf85363a_write_ram \/ rtc_pcf85363a_config
Sensor ==
  \/ tsl256x_sensor_read \/ tsl256x_read_id \/ tsl256x_configure
  \/ bme280_configure \/ bme280_sensor_read
  \/ tmp101_sensor_read \/ tmp101_sensor_config \/ tmp101_sensor_start_conversion
  \/ veml6070_sensor_read \/ veml6070_configure \/ chirp_sensor_read \/ chirp_sensor_write

Next == Rtc \/ Sensor \/ Transfer \/ Probed \/ Decide \/ Finish \/ Return \/ LosePower

Spec == Init /\ [][Next]_vars

-----------------------------------------------------------------------------
(* Properties.                                                             *)

\* What the call writes, step by step and part by part; and what is the last it
\* writes to its register.
Writes  == {i \in DOMAIN call.plan : call.plan[i].op = "write"}
Parts   == UNION {{i} \X DOMAIN call.plan[i].what : i \in Writes}
Part(w) == call.plan[w[1]].what[w[2]]
Later(v, w) == v[1] > w[1] \/ (v[1] = w[1] /\ v[2] > w[2])
Wanted  == {w \in Parts : \A v \in Parts : Later(v, w) => Part(v)[1] # Part(w)[1]}
Asked   == [i \in DOMAIN call.plan |-> IF call.plan[i].op = "write" THEN <<>> ELSE call.plan[i].what]

\* A call that returns success did all it was asked: every register it was to
\* write holds its value and every byte it returns was read, whatever was
\* refused or cut in this call or an earlier one.  (Not if the chip lost its
\* power on the way; after a transfer that failed the temperature driver believes
\* the pointer of its chip where it is not, tmp101_temp_sensor.c:111.)
DoneMeansDone ==
  (call.pc = "idle" /\ call.ret = "done" /\ ~call.lost) =>
    /\ \A w \in Wanted : chip.reg[Part(w)[1]] = Part(w)[2]
    /\ Len(call.got) = Len(call.plan)
    /\ (count.failed /\ kind = "tmp101") \/ call.got = Asked

\* The marker in the RTC's RAM is only there with the configuration it stands
\* for: one that was cut is not taken for a configured clock after a restart
\* (rtc_pcf85363a_config).
MarkerMeansConfigured == chip.reg["marker"] # 0 => chip.reg["setup"] = chip.reg["marker"]

I2cDevicesSound == DoneMeansDone /\ MarkerMeansConfigured

=============================================================================
