---------------------------- MODULE SavestateCodec ----------------------------
(***************************************************************************)
(* The savestate file (savestate.cpp): the encoder and the decoder of each *)
(* section, written as two layouts because the code writes them twice, and *)
(* the container with its directory and checksums.                         *)
(*                                                                         *)
(* A byte has Byte values, so a 32-bit word is four digits of that base;   *)
(* arrays longer than Extent are cut to Extent elements and vectors hold   *)
(* two.  A 16-bit field is stored as 32 bits and narrowed on decode.       *)
(***************************************************************************)
EXTENDS Integers, Sequences

CONSTANTS Byte, Extent

VARIABLES section, values, payload, damaged,  \* one section
          file, harmed                        \* the container

fileVars == <<file, harmed>>

-----------------------------------------------------------------------------
(* Layouts: sequences of slots [kind, key].                                *)

Each(kind, names) == [i \in 1 .. Len(names) |->
                        [kind |-> kind, key |-> <<names[i]>>]]

RECURSIVE Concat(_)
Concat(seqs) == IF seqs = <<>> THEN <<>> ELSE Head(seqs) \o Concat(Tail(seqs))

\* An array, or the fields of each element of an array of structures.
Loop(fields, n) ==
  Concat([j \in 1 .. n |->
            [i \in 1 .. Len(fields) |->
               [fields[i] EXCEPT !.key = Append(@, j)]]])
Array(kind, names, n) ==
  Concat([i \in 1 .. Len(names) |-> Loop(Each(kind, <<names[i]>>), n)])
Pair(kind, names) == Array(kind, names, 2)

PutCpu == Array("u32", <<"R">>, Extent) \o Each("u32", <<"cpsr">>)
          \o Array("u32", <<"banked_sp", "banked_lr", "banked_spsr",
                            "r8_12_user", "r8_12_fiq">>, Extent)
ReadCpu == Array("u32", <<"R">>, Extent) \o Each("u32", <<"cpsr">>)
           \o Array("u32", <<"banked_sp", "banked_lr", "banked_spsr",
                             "r8_12_user", "r8_12_fiq">>, Extent)

EncodeIdentity == Each("vec8", <<"build_id", "rom_sha1">>)
DecodeIdentity == Each("vec8", <<"build_id", "rom_sha1">>)

EncodeScheduler ==
  Loop(PutCpu \o Each("u32", <<"crs_depth", "deferred_cycles">>)
       \o Each("u64", <<"cycles">>)
       \o Each("u8", <<"started", "terminal_halted">>)
       \o Array("u32", <<"crs">>, Extent), 2)
  \o Each("u64", <<"system_timestamp">>)
DecodeScheduler ==
  Loop(ReadCpu \o Each("u32", <<"crs_depth", "deferred_cycles">>)
       \o Each("u64", <<"cycles">>)
       \o Each("u8", <<"started", "terminal_halted">>)
       \o Array("u32", <<"crs">>, Extent), 2)
  \o Each("u64", <<"system_timestamp">>)

EncodeMemory ==
  Each("vec8", <<"main_ram", "itcm", "dtcm", "shared_wram", "arm7_wram",
                 "arm9_bios", "arm7_bios", "main_ram_written", "itcm_written",
                 "dtcm_written", "shared_wram_written", "arm7_wram_written">>)
  \o Each("vec32", <<"main_ram_generation", "itcm_generation",
                     "dtcm_generation", "shared_wram_generation",
                     "arm7_wram_generation">>)
DecodeMemory ==
  Each("vec8", <<"main_ram", "itcm", "dtcm", "shared_wram", "arm7_wram",
                 "arm9_bios", "arm7_bios", "main_ram_written", "itcm_written",
                 "dtcm_written", "shared_wram_written", "arm7_wram_written">>)
  \o Each("vec32", <<"main_ram_generation", "itcm_generation",
                     "dtcm_generation", "shared_wram_generation",
                     "arm7_wram_generation">>)

EncodeCp15 ==
  Each("u32", <<"control">>)
  \o Each("flag", <<"high_vectors", "itcm_enable", "dtcm_enable">>)
  \o Each("zero", <<"reserved">>)
  \o Each("u32", <<"itcm_size", "dtcm_base", "dtcm_size", "timing_generation">>)
  \o Array("u32", <<"mpu_region", "cache_cfg", "access_perm">>, Extent)
DecodeCp15 ==
  Each("u32", <<"control">>)
  \o Each("flag", <<"high_vectors", "itcm_enable", "dtcm_enable">>)
  \o Each("zero", <<"reserved">>)
  \o Each("u32", <<"itcm_size", "dtcm_base", "dtcm_size", "timing_generation">>)
  \o Array("u32", <<"mpu_region", "cache_cfg", "access_perm">>, Extent)

EncodeRuntime ==
  Pair("u64", <<"insn_count">>) \o Each("u64", <<"force_tier3_misses">>)
  \o Each("u32", <<"active_cpu", "force_tier3">>)
DecodeRuntime ==
  Pair("u64", <<"insn_count">>) \o Each("u64", <<"force_tier3_misses">>)
  \o Each("u32", <<"active_cpu", "force_tier3">>)

EncodeIoCore ==
  Pair("u16", <<"ipcsync_out">>) \o Pair("u8", <<"postflg">>)
  \o Pair("u16", <<"dispstat">>) \o Each("u16", <<"vcount", "next_vcount">>)
  \o Each("u8", <<"next_vcount_valid">>) \o Pair("u8", <<"vcount_match">>)
  \o Each("u8", <<"in_vblank">>) \o Each("u64", <<"display_last">>)
  \o Pair("u32", <<"ime", "ie", "irq_flags">>)
  \o Pair("u8", <<"haltcnt", "cpu_halted">>)
  \o Pair("u64", <<"halt_entry_cycle">>)
  \o Loop(Array("u32", <<"fifo">>, Extent), 2)
  \o Pair("u8", <<"fifo_count", "fifo_head">>)
  \o Pair("u16", <<"fifocnt">>) \o Pair("u32", <<"fifo_lastrx">>)
  \o Loop(Each("u32", <<"src", "dst", "cnt", "cur_src", "cur_dst",
                        "remaining">>)
          \o Each("s32", <<"src_inc", "dst_inc">>)
          \o Each("u16", <<"burst_index">>)
          \o Each("u8", <<"start_mode", "running", "in_progress",
                          "burst_start">>), Extent)
  \o Pair("u64", <<"dma_entry_cycle">>) \o Each("u8", <<"gxfifo_stall">>)
  \o Loop(Each("u16", <<"reload", "counter", "ctrl">>)
          \o Each("u64", <<"accum">>), Extent)
  \o Pair("u64", <<"timer_last">>) \o Each("u16", <<"divcnt">>)
  \o Pair("u32", <<"div_numer", "div_denom", "div_quot", "div_rem">>)
  \o Each("u64", <<"div_deadline">>) \o Each("u16", <<"sqrtcnt">>)
  \o Pair("u32", <<"sqrt_value">>) \o Each("u32", <<"sqrt_result">>)
  \o Each("u64", <<"sqrt_deadline">>) \o Pair("u16", <<"exmemcnt">>)
  \o Each("u16", <<"powercontrol7">>) \o Each("u32", <<"keyinput">>)
  \o Pair("u16", <<"keycnt">>) \o Each("u16", <<"rcnt">>)
  \o Each("u8", <<"wramcnt">>) \o Each("u16", <<"wifiwaitcnt">>)
  \o Each("u32", <<"biosprot">>) \o Each("u8", <<"pm_index">>)
  \o Array("u8", <<"pm_regs", "pm_masks">>, Extent)
  \o Each("u8", <<"pm_hold", "powered_off", "tsc_ctrl">>)
  \o Each("u16", <<"tsc_conv">>) \o Each("s32", <<"tsc_datapos">>)
  \o Each("u16", <<"tsc_x", "tsc_y">>) \o Array("u8", <<"io_mem">>, Extent)
DecodeIoCore ==
  Pair("u16", <<"ipcsync_out">>) \o Pair("u8", <<"postflg">>)
  \o Pair("u16", <<"dispstat">>) \o Each("u16", <<"vcount", "next_vcount">>)
  \o Each("u8", <<"next_vcount_valid">>) \o Pair("u8", <<"vcount_match">>)
  \o Each("u8", <<"in_vblank">>) \o Each("u64", <<"display_last">>)
  \o Pair("u32", <<"ime", "ie", "irq_flags">>)
  \o Pair("u8", <<"haltcnt", "cpu_halted">>)
  \o Pair("u64", <<"halt_entry_cycle">>)
  \o Loop(Array("u32", <<"fifo">>, Extent), 2)
  \o Pair("u8", <<"fifo_count", "fifo_head">>)
  \o Pair("u16", <<"fifocnt">>) \o Pair("u32", <<"fifo_lastrx">>)
  \o Loop(Each("u32", <<"src", "dst", "cnt", "cur_src", "cur_dst",
                        "remaining">>)
          \o Each("s32", <<"src_inc", "dst_inc">>)
          \o Each("u16", <<"burst_index">>)
          \o Each("u8", <<"start_mode", "running", "in_progress",
                          "burst_start">>), Extent)
  \o Pair("u64", <<"dma_entry_cycle">>) \o Each("u8", <<"gxfifo_stall">>)
  \o Loop(Each("u16", <<"reload", "counter", "ctrl">>)
          \o Each("u64", <<"accum">>), Extent)
  \o Pair("u64", <<"timer_last">>) \o Each("u16", <<"divcnt">>)
  \o Pair("u32", <<"div_numer", "div_denom", "div_quot", "div_rem">>)
  \o Each("u64", <<"div_deadline">>) \o Each("u16", <<"sqrtcnt">>)
  \o Pair("u32", <<"sqrt_value">>) \o Each("u32", <<"sqrt_result">>)
  \o Each("u64", <<"sqrt_deadline">>) \o Pair("u16", <<"exmemcnt">>)
  \o Each("u16", <<"powercontrol7">>) \o Each("u32", <<"keyinput">>)
  \o Pair("u16", <<"keycnt">>) \o Each("u16", <<"rcnt">>)
  \o Each("u8", <<"wramcnt">>) \o Each("u16", <<"wifiwaitcnt">>)
  \o Each("u32", <<"biosprot">>) \o Each("u8", <<"pm_index">>)
  \o Array("u8", <<"pm_regs", "pm_masks">>, Extent)
  \o Each("u8", <<"pm_hold", "powered_off", "tsc_ctrl">>)
  \o Each("u16", <<"tsc_conv">>) \o Each("s32", <<"tsc_datapos">>)
  \o Each("u16", <<"tsc_x", "tsc_y">>) \o Array("u8", <<"io_mem">>, Extent)

EncodePeripherals ==
  Each("u32", <<"romctrl", "card_transfer_pos", "card_transfer_len">>)
  \o Each("u64", <<"card_deadline">>)
  \o Each("u8", <<"card_end_event", "card_irq_cpu">>)
  \o Array("u8", <<"card_command">>, Extent)
  \o Each("u8", <<"card_command_mode">>) \o Each("u32", <<"card_data_mode">>)
  \o Each("vec8", <<"card_response">>)
  \o Array("u32", <<"key1_schedule">>, Extent)
  \o Each("u32", <<"card_chip_id">>)
  \o Each("u8", <<"key1_available", "card_has_ir">>)
  \o Each("u16", <<"auxspicnt">>) \o Each("u8", <<"auxspi_data", "auxspi_hold">>)
  \o Each("u32", <<"auxspi_pos">>) \o Each("u64", <<"auxspi_deadline">>)
  \o Each("u8", <<"cart_ir_cmd", "backup_type">>)
  \o Each("u32", <<"backup_size">>) \o Each("vec8", <<"backup_data">>)
  \o Each("u8", <<"backup_cmd", "backup_status">>)
  \o Each("u32", <<"backup_addr">>)
  \o Each("u8", <<"backup_dirty", "backup_persistence_detached">>)
  \o Each("u16", <<"spicnt">>) \o Each("u8", <<"spi_response">>)
  \o Each("u64", <<"spi_deadline">>) \o Each("vec8", <<"firmware_data">>)
  \o Each("u8", <<"firmware_dirty", "firmware_persistence_detached",
                  "firmware_hold", "firmware_cmd", "firmware_status">>)
  \o Each("u32", <<"firmware_addr", "firmware_data_pos">>)
  \o Each("u16", <<"rtc_io">>) \o Each("u8", <<"rtc_input">>)
  \o Each("u32", <<"rtc_inbit", "rtc_inpos">>)
  \o Array("u8", <<"rtc_output">>, Extent)
  \o Each("u32", <<"rtc_outbit", "rtc_outpos">>) \o Each("u8", <<"rtc_cmd">>)
  \o Array("u8", <<"rtc_datetime">>, Extent)
  \o Each("u8", <<"rtc_status1", "rtc_status2">>)
  \o Array("u8", <<"rtc_alarm1", "rtc_alarm2">>, Extent)
  \o Each("u8", <<"rtc_clock_adjust", "rtc_free", "rtc_irq_flag">>)
  \o Each("u32", <<"rtc_clock_count">>) \o Each("u64", <<"rtc_processed_ticks">>)
DecodePeripherals ==
  Each("u32", <<"romctrl", "card_transfer_pos", "card_transfer_len">>)
  \o Each("u64", <<"card_deadline">>)
  \o Each("u8", <<"card_end_event", "card_irq_cpu">>)
  \o Array("u8", <<"card_command">>, Extent)
  \o Each("u8", <<"card_command_mode">>) \o Each("u32", <<"card_data_mode">>)
  \o Each("vec8", <<"card_response">>)
  \o Array("u32", <<"key1_schedule">>, Extent)
  \o Each("u32", <<"card_chip_id">>)
  \o Each("u8", <<"key1_available", "card_has_ir">>)
  \o Each("u16", <<"auxspicnt">>) \o Each("u8", <<"auxspi_data", "auxspi_hold">>)
  \o Each("u32", <<"auxspi_pos">>) \o Each("u64", <<"auxspi_deadline">>)
  \o Each("u8", <<"cart_ir_cmd", "backup_type">>)
  \o Each("u32", <<"backup_size">>) \o Each("vec8", <<"backup_data">>)
  \o Each("u8", <<"backup_cmd", "backup_status">>)
  \o Each("u32", <<"backup_addr">>)
  \o Each("u8", <<"backup_dirty", "backup_persistence_detached">>)
  \o Each("u16", <<"spicnt">>) \o Each("u8", <<"spi_response">>)
  \o Each("u64", <<"spi_deadline">>) \o Each("vec8", <<"firmware_data">>)
  \o Each("u8", <<"firmware_dirty", "firmware_persistence_detached",
                  "firmware_hold", "firmware_cmd", "firmware_status">>)
  \o Each("u32", <<"firmware_addr", "firmware_data_pos">>)
  \o Each("u16", <<"rtc_io">>) \o Each("u8", <<"rtc_input">>)
  \o Each("u32", <<"rtc_inbit", "rtc_inpos">>)
  \o Array("u8", <<"rtc_output">>, Extent)
  \o Each("u32", <<"rtc_outbit", "rtc_outpos">>) \o Each("u8", <<"rtc_cmd">>)
  \o Array("u8", <<"rtc_datetime">>, Extent)
  \o Each("u8", <<"rtc_status1", "rtc_status2">>)
  \o Array("u8", <<"rtc_alarm1", "rtc_alarm2">>, Extent)
  \o Each("u8", <<"rtc_clock_adjust", "rtc_free", "rtc_irq_flag">>)
  \o Each("u32", <<"rtc_clock_count">>) \o Each("u64", <<"rtc_processed_ticks">>)

EncodeVram ==
  Each("vec8", <<"vram", "written">>) \o Each("vec32", <<"exec_generation">>)
  \o Each("vec8", <<"palette", "oam">>) \o Array("u8", <<"vramcnt">>, Extent)
  \o Each("u64", <<"texture_generation">>)
DecodeVram ==
  Each("vec8", <<"vram", "written">>) \o Each("vec32", <<"exec_generation">>)
  \o Each("vec8", <<"palette", "oam">>) \o Array("u8", <<"vramcnt">>, Extent)
  \o Each("u64", <<"texture_generation">>)

EncodeGpu2dUnit ==
  Each("u32", <<"dispcnt">>) \o Array("u16", <<"bgcnt", "bgx", "bgy">>, Extent)
  \o Array("s16", <<"pa", "pb", "pc", "pd">>, Extent)
  \o Array("s32", <<"refx", "refy">>, Extent)
  \o Array("u8", <<"win">>, Extent)
  \o Each("u8", <<"bg_mosaic_x", "bg_mosaic_y", "obj_mosaic_x",
                  "obj_mosaic_y">>)
  \o Each("u16", <<"bldcnt", "bldalpha">>) \o Each("u8", <<"eva", "evb", "evy">>)
  \o Array("s32", <<"refx_internal", "refy_internal">>, Extent)
  \o Each("u32", <<"capture">>) \o Each("u16", <<"master_bright">>)
  \o Each("u8", <<"capture_latch">>)
DecodeGpu2dUnit ==
  Each("u32", <<"dispcnt">>) \o Array("u16", <<"bgcnt", "bgx", "bgy">>, Extent)
  \o Array("s16", <<"pa", "pb", "pc", "pd">>, Extent)
  \o Array("s32", <<"refx", "refy">>, Extent)
  \o Array("u8", <<"win">>, Extent)
  \o Each("u8", <<"bg_mosaic_x", "bg_mosaic_y", "obj_mosaic_x",
                  "obj_mosaic_y">>)
  \o Each("u16", <<"bldcnt", "bldalpha">>) \o Each("u8", <<"eva", "evb", "evy">>)
  \o Array("s32", <<"refx_internal", "refy_internal">>, Extent)
  \o Each("u32", <<"capture">>) \o Each("u16", <<"master_bright">>)
  \o Each("u8", <<"capture_latch">>)

EncodeGpu2d ==
  Loop(EncodeGpu2dUnit, 2) \o Each("vec32", <<"framebuffers">>)
  \o Each("u8", <<"front", "frame_capture_active", "present_capture_active">>)
DecodeGpu2d ==
  Loop(DecodeGpu2dUnit, 2) \o Each("vec32", <<"framebuffers">>)
  \o Each("u8", <<"front", "frame_capture_active", "present_capture_active">>)

EncodeGpu3d == Each("vec8", <<"device">>) \o Each("u64", <<"arm9_timestamp">>)
DecodeGpu3d == Each("vec8", <<"device">>) \o Each("u64", <<"arm9_timestamp">>)

EncodeSpu ==
  Loop(Each("u32", <<"cnt", "src">>) \o Each("u16", <<"reload">>)
       \o Each("u32", <<"loop", "length">>) \o Each("u8", <<"key_on">>)
       \o Each("u32", <<"timer">>) \o Each("s32", <<"pos">>)
       \o Each("s16", <<"sample">>) \o Each("u16", <<"noise">>)
       \o Each("s32", <<"adpcm_value", "adpcm_index", "adpcm_loop_value",
                        "adpcm_loop_index">>)
       \o Each("u8", <<"adpcm_byte">>) \o Array("u8", <<"fifo">>, Extent)
       \o Each("u32", <<"fifo_read", "fifo_write", "source_offset",
                        "fifo_level">>), Extent)
  \o Loop(Each("u8", <<"capture.cnt">>) \o Each("u32", <<"capture.dst">>)
          \o Each("u16", <<"capture.reload">>)
          \o Each("u32", <<"capture.length", "capture.timer">>)
          \o Each("s32", <<"capture.pos">>)
          \o Array("u8", <<"capture.fifo">>, Extent)
          \o Each("u32", <<"capture.fifo_read", "capture.fifo_write",
                           "capture.write_offset", "capture.fifo_level">>), 2)
  \o Each("u16", <<"spu.cnt", "bias">>) \o Each("u64", <<"mix_count">>)
DecodeSpu ==
  Loop(Each("u32", <<"cnt", "src">>) \o Each("u16", <<"reload">>)
       \o Each("u32", <<"loop", "length">>) \o Each("u8", <<"key_on">>)
       \o Each("u32", <<"timer">>) \o Each("s32", <<"pos">>)
       \o Each("s16", <<"sample">>) \o Each("u16", <<"noise">>)
       \o Each("s32", <<"adpcm_value", "adpcm_index", "adpcm_loop_value",
                        "adpcm_loop_index">>)
       \o Each("u8", <<"adpcm_byte">>) \o Array("u8", <<"fifo">>, Extent)
       \o Each("u32", <<"fifo_read", "fifo_write", "source_offset",
                        "fifo_level">>), Extent)
  \o Loop(Each("u8", <<"capture.cnt">>) \o Each("u32", <<"capture.dst">>)
          \o Each("u16", <<"capture.reload">>)
          \o Each("u32", <<"capture.length", "capture.timer">>)
          \o Each("s32", <<"capture.pos">>)
          \o Array("u8", <<"capture.fifo">>, Extent)
          \o Each("u32", <<"capture.fifo_read", "capture.fifo_write",
                           "capture.write_offset", "capture.fifo_level">>), 2)
  \o Each("u16", <<"spu.cnt", "bias">>) \o Each("u64", <<"mix_count">>)

Encoder ==
  [IDEN |-> EncodeIdentity, SCHD |-> EncodeScheduler, MEMR |-> EncodeMemory,
   CP15 |-> EncodeCp15, RTIM |-> EncodeRuntime, IOCR |-> EncodeIoCore,
   IOPF |-> EncodePeripherals, VRAM |-> EncodeVram, GP2D |-> EncodeGpu2d,
   GP3D |-> EncodeGpu3d, SPU |-> EncodeSpu]
Decoder ==
  [IDEN |-> DecodeIdentity, SCHD |-> DecodeScheduler, MEMR |-> DecodeMemory,
   CP15 |-> DecodeCp15, RTIM |-> DecodeRuntime, IOCR |-> DecodeIoCore,
   IOPF |-> DecodePeripherals, VRAM |-> DecodeVram, GP2D |-> DecodeGpu2d,
   GP3D |-> DecodeGpu3d, SPU |-> DecodeSpu]
Tags == DOMAIN Encoder

-----------------------------------------------------------------------------
(* Bytes.                                                                  *)

PutWord(v, n) == [i \in 1 .. n |-> (v \div (Byte ^ (i - 1))) % Byte]
PutVector(vs, n) ==
  PutWord(Len(vs), 4) \o Concat([i \in 1 .. Len(vs) |-> PutWord(vs[i], n)])

\* A signed 16-bit value is cast to unsigned before it is widened.
Put(kind, v) ==
  CASE kind \in {"u8", "flag"} -> PutWord(v, 1)
    [] kind = "zero" -> <<0>>
    [] kind = "u16" -> PutWord(v, 4)
    [] kind = "s16" -> PutWord(v % (Byte ^ 2), 4)
    [] kind = "u32" -> PutWord(v, 4)
    [] kind = "s32" -> PutWord(v % (Byte ^ 4), 4)
    [] kind = "u64" -> PutWord(v, 8)
    [] kind = "vec8" -> PutVector(v, 1)
    [] kind = "vec32" -> PutVector(v, 4)

Encode(tag, vals) ==
  LET layout == Encoder[tag]
  IN  Concat([i \in 1 .. Len(layout) |->
                Put(layout[i].kind, vals[layout[i].key])])

RECURSIVE Word(_, _, _)
Word(bytes, pos, n) ==
  IF n = 0 THEN 0 ELSE bytes[pos] + Byte * Word(bytes, pos + 1, n - 1)
Left(bytes, pos) == Len(bytes) - pos + 1
Signed(v, range) == IF v < range \div 2 THEN v ELSE v - range

Width(kind) == CASE kind \in {"u8", "flag", "zero"} -> 1
                 [] kind \in {"u16", "s16", "u32", "s32"} -> 4
                 [] kind = "u64" -> 8
Element(kind) == IF kind = "vec8" THEN 1 ELSE 4

\* One read: {} when it fails, else {[value, pos]}.
Read(kind, bytes, pos) ==
  IF kind \in {"vec8", "vec32"}
  THEN IF Left(bytes, pos) < 4 THEN {}
       ELSE LET n == Word(bytes, pos, 4)
                w == Element(kind)
            IN  IF n > Left(bytes, pos + 4) \div w THEN {}
                ELSE {[value |-> [i \in 1 .. n |->
                                    Word(bytes, pos + 4 + w * (i - 1), w)],
                       pos |-> pos + 4 + w * n]}
  ELSE IF Left(bytes, pos) < Width(kind) THEN {}
       ELSE LET v == Word(bytes, pos, Width(kind))
                next == pos + Width(kind)
            IN  CASE kind \in {"u8", "u32", "u64"} ->
                       {[value |-> v, pos |-> next]}
                  [] kind = "u16" ->
                       IF v >= Byte ^ 2 THEN {}
                       ELSE {[value |-> v, pos |-> next]}
                  [] kind = "s16" ->
                       IF v >= Byte ^ 2 THEN {}
                       ELSE {[value |-> Signed(v, Byte ^ 2), pos |-> next]}
                  [] kind = "s32" ->
                       {[value |-> Signed(v, Byte ^ 4), pos |-> next]}
                  [] kind = "flag" ->
                       IF v > 1 THEN {} ELSE {[value |-> v, pos |-> next]}
                  [] kind = "zero" ->
                       IF v # 0 THEN {} ELSE {[value |-> 0, pos |-> next]}

\* Slots lo..hi of a layout, read one after the other from where [pos, got]
\* has come to; by halves, so that the evaluation stays shallow.
RECURSIVE Reads(_, _, _, _, _)
Reads(layout, lo, hi, bytes, from) ==
  IF lo = hi
  THEN {[pos |-> r.pos, got |-> Append(from.got, r.value)] :
          r \in Read(layout[lo].kind, bytes, from.pos)}
  ELSE LET mid == (lo + hi) \div 2
       IN UNION {Reads(layout, mid + 1, hi, bytes, f) :
                   f \in Reads(layout, lo, mid, bytes, from)}

\* {} when the decoder rejects the payload, else {the values by field}.
Decode(tag, bytes) ==
  LET layout == Decoder[tag]
      keys == {layout[i].key : i \in 1 .. Len(layout)}
      At == [k \in keys |-> CHOOSE i \in 1 .. Len(layout) : layout[i].key = k]
      ends == Reads(layout, 1, Len(layout), bytes, [pos |-> 1, got |-> <<>>])
  IN  {[k \in keys |-> e.got[At[k]]] : e \in {e \in ends : e.pos = Len(bytes) + 1}}

-----------------------------------------------------------------------------
(* One section, encoded with one field at a boundary of its type, and      *)
(* possibly damaged in one byte, cut short or extended.                    *)

Plain(kind, i) ==
  CASE kind = "zero" -> 0
    [] kind = "flag" -> i % 2
    [] kind \in {"vec8", "vec32"} -> <<i % Byte, (i + 1) % Byte>>
    [] OTHER -> i % Byte

Boundary(kind) ==
  CASE kind = "zero" -> {0}
    [] kind = "flag" -> {0, 1}
    [] kind = "u8" -> {Byte - 1}
    [] kind = "u16" -> {(Byte ^ 2) - 1}
    [] kind = "s16" -> {-1, -((Byte ^ 2) \div 2), (Byte ^ 2) \div 2 - 1}
    [] kind = "u32" -> {(Byte ^ 4) - 1}
    [] kind = "s32" -> {-1, -((Byte ^ 4) \div 2)}
    [] kind = "u64" -> {(Byte ^ 8) - 1}
    [] kind = "vec8" -> {<<>>, <<Byte - 1>>}
    [] kind = "vec32" -> {<<>>, <<(Byte ^ 4) - 1>>}

Background(tag) ==
  LET layout == Encoder[tag]
      keys == {layout[i].key : i \in 1 .. Len(layout)}
  IN  [k \in keys |->
         LET i == CHOOSE j \in 1 .. Len(layout) : layout[j].key = k
         IN  Plain(layout[i].kind, i)]

SectionInit ==
  /\ section \in Tags
  /\ values = Background(section)
  /\ payload = Encode(section, values)
  /\ damaged = FALSE

SetField ==
  /\ ~damaged
  /\ values = Background(section)
  /\ \E i \in 1 .. Len(Encoder[section]) :
       \E v \in Boundary(Encoder[section][i].kind) :
         values' = [values EXCEPT ![Encoder[section][i].key] = v]
  /\ payload' = Encode(section, values')
  /\ UNCHANGED <<section, damaged>>

Damage ==
  /\ ~damaged
  /\ values = Background(section)
  /\ \/ \E i \in 1 .. Len(payload), d \in 0 .. Byte - 1 :
          payload' = [payload EXCEPT ![i] = d]
     \/ payload' = SubSeq(payload, 1, Len(payload) - 1)
     \/ payload' = Append(payload, 0)
  /\ damaged' = TRUE
  /\ UNCHANGED <<section, values>>

SectionNext == SetField \/ Damage

\* The decoder reads back exactly what the encoder wrote, for every field at
\* the edges of its type; and a payload the decoder accepts, even a damaged
\* one, is the encoding of what it decoded, so nothing is narrowed, skipped
\* or left over (encode_* and decode_*).
CodecExact ==
  /\ ~damaged => Decode(section, payload) = {values}
  /\ \A got \in Decode(section, payload) : Encode(section, got) = payload

-----------------------------------------------------------------------------
(* The container, with three sections for the eleven, a header of two      *)
(* units and directory entries of one.  The checksum is modelled without   *)
(* collisions, as the bytes it covers.                                     *)

HeaderSize == 2
DirEntrySize == 1
Saved == <<[tag |-> "IDEN", payload |-> <<0>>],
           [tag |-> "SCHD", payload |-> <<1, 0>>],
           [tag |-> "MEMR", payload |-> <<1>>]>>
Required == Len(Saved)
DataStart == HeaderSize + Required * DirEntrySize

RECURSIVE SizeBefore(_)
SizeBefore(i) == IF i = 1 THEN 0 ELSE SizeBefore(i - 1) + Len(Saved[i - 1].payload)

BuildFile ==
  [magic |-> 0, format |-> 1, count |-> Required,
   dirBytes |-> Required * DirEntrySize, reserved |-> 0,
   dir |-> [i \in 1 .. Required |->
              [tag |-> Saved[i].tag, version |-> 1,
               offset |-> DataStart + SizeBefore(i),
               size |-> Len(Saved[i].payload), crc |-> Saved[i].payload,
               flags |-> 0]],
   data |-> Concat([i \in 1 .. Required |-> Saved[i].payload])]

KnownTags == {Saved[i].tag : i \in 1 .. Required}
FileSize(f) == DataStart + Len(f.data)
Payload(f, e) == SubSeq(f.data, e.offset - DataStart + 1,
                        e.offset - DataStart + e.size)

\* Sorted by offset, each section starts where the one before ends and the
\* last ends the file.
RECURSIVE PackedFrom(_, _, _)
PackedFrom(entries, offset, end) ==
  IF entries = {} THEN offset = end
  ELSE \E e \in entries :
         e.offset = offset /\ PackedFrom(entries \ {e}, offset + e.size, end)

EntryOk(f, e) ==
  /\ e.version = 1 /\ e.flags = 0 /\ e.size # 0 /\ e.tag \in KnownTags
  /\ e.offset >= DataStart
  /\ e.size <= FileSize(f) /\ e.offset <= FileSize(f) - e.size

ChecksumOk(f, e) == Payload(f, e) = e.crc

\* load_file: {} when the file is rejected, else {the payload by tag}.
LoadFile(f) ==
  LET entries == {f.dir[i] : i \in 1 .. Required}
      payloads == [t \in {e.tag : e \in entries} |->
                     Payload(f, CHOOSE e \in entries : e.tag = t)]
  IN  IF /\ f.magic = 0 /\ f.format = 1 /\ f.reserved = 0
         /\ f.count = Required /\ f.dirBytes = f.count * DirEntrySize
         /\ \A e \in entries : EntryOk(f, e)
         /\ \A i, j \in 1 .. Required : i # j => f.dir[i].tag # f.dir[j].tag
         /\ PackedFrom(entries, DataStart, FileSize(f))
         /\ \A e \in entries : ChecksumOk(f, e)
      THEN {payloads} ELSE {}

FileInit == file = BuildFile /\ harmed = FALSE

\* One word of the file changes, or the file is cut short or extended.
Harm ==
  /\ ~harmed
  /\ \/ \E v \in 0 .. 5 :
          \/ file' = [file EXCEPT !.magic = v]
          \/ file' = [file EXCEPT !.format = v]
          \/ file' = [file EXCEPT !.count = v]
          \/ file' = [file EXCEPT !.dirBytes = v]
          \/ file' = [file EXCEPT !.reserved = v]
     \/ \E i \in 1 .. Required, v \in 0 .. DataStart + 5 :
          \/ file' = [file EXCEPT !.dir[i].version = v]
          \/ file' = [file EXCEPT !.dir[i].flags = v]
          \/ file' = [file EXCEPT !.dir[i].offset = v]
          \/ file' = [file EXCEPT !.dir[i].size = v]
     \/ \E i \in 1 .. Required, t \in KnownTags \cup {"none"} :
          file' = [file EXCEPT !.dir[i].tag = t]
     \/ \E i \in 1 .. Required, c \in {<<>>, <<0>>, <<1>>, <<0, 1>>} :
          file' = [file EXCEPT !.dir[i].crc = c]
     \/ \E i \in DOMAIN file.data, v \in 0 .. 1 :
          file' = [file EXCEPT !.data[i] = v]
     \/ \E v \in 0 .. 1 : file' = [file EXCEPT !.data = Append(@, v)]
     \/ /\ file.data # <<>>
        /\ file' = [file EXCEPT !.data = SubSeq(@, 1, Len(@) - 1)]
  /\ harmed' = TRUE

\* The file is read back as written, and with one word damaged it is rejected
\* or still means what was saved (build_file, load_file).
FileExact ==
  /\ ~harmed => LoadFile(file) # {}
  /\ \A got \in LoadFile(file), i \in 1 .. Required :
       got[Saved[i].tag] = Saved[i].payload
=============================================================================
