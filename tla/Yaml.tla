-------------------------------- MODULE Yaml --------------------------------
(***************************************************************************)
(* The yaml of a shadow file: what famfs_emit_file_yaml() writes for a     *)
(* file of the log, and what famfs_parse_shadow_yaml() reads back.         *)
(*                                                                         *)
(* A file is the sequence of its libyaml events.  Each GET_YAML_EVENT of   *)
(* the parser is one step of an automaton whose state says which call the  *)
(* parser is in (at), who called the extent list parser (caller), and what *)
(* has been filled in.  A file without yaml has only the events of an      *)
(* empty stream.                                                           *)
(***************************************************************************)
EXTENDS Integers, Sequences

LOCAL INSTANCE SequencesExt

CONSTANT FAMFS_MAX_SIMPLE_EXTENTS

FAMFS_EXT_SIMPLE == "simple"
FAMFS_EXT_INTERLEAVE == "interleave"

Mark(type) == [type |-> type, val |-> 0, key |-> ""]
Key(k) == [type |-> "scalar", val |-> 0, key |-> k]
Val(n) == [type |-> "scalar", val |-> n, key |-> "number"]

(* sprintf() of a number in the notation that strtoull(_, 0, 0) recognises *)
(* by its prefix: "%lld", "0x%llx" and "0%o" are read in the base they     *)
(* were written in.                                                        *)
Pair(k, n) == <<Key(k), Val(n)>>
strtoull(e) == e.val

-----------------------------------------------------------------------------
(***************************************************************************)
(* Writing.                                                                *)
(***************************************************************************)
emit_yaml_simple_ext_list(se) ==
  <<Key("simple_ext_list"), Mark("sequence_start")>>
    \o FlattenSeq([i \in 1 .. Len(se) |->
         <<Mark("mapping_start")>> \o Pair("devindex", se[i].devindex)
           \o Pair("offset", se[i].offset) \o Pair("length", se[i].len)
           \o <<Mark("mapping_end")>>])
    \o <<Mark("sequence_end")>>

emit_yaml_striped_ext_list(ie) ==
  <<Key("striped_ext_list"), Mark("sequence_start")>>
    \o FlattenSeq([i \in 1 .. Len(ie) |->
         <<Mark("mapping_start")>> \o Pair("nstrips", Len(ie[i].strips))
           \o Pair("chunk_size", ie[i].chunk_size)
           \o emit_yaml_simple_ext_list(ie[i].strips)
           \o <<Mark("mapping_end")>>])
    \o <<Mark("sequence_end")>>

emit_yaml_file_section(fm) ==
  Pair("path", fm.relpath) \o Pair("size", fm.size) \o Pair("flags", fm.flags)
    \o Pair("mode", fm.mode) \o Pair("uid", fm.uid) \o Pair("gid", fm.gid)
    \o Pair("nextents", fm.nextents)
    \o IF fm.ext_type = FAMFS_EXT_SIMPLE
       THEN emit_yaml_simple_ext_list(fm.se)
       ELSE emit_yaml_striped_ext_list(fm.ie)

famfs_emit_file_yaml(fm) ==
  <<Mark("stream_start"), Mark("document_start"), Mark("mapping_start"),
    Key("file"), Mark("mapping_start")>>
    \o emit_yaml_file_section(fm)
    \o <<Mark("mapping_end"), Mark("mapping_end"), Mark("document_end"),
         Mark("stream_end")>>

(* The events of a file that was created and not written yet. *)
EmptyFile == <<Mark("stream_start"), Mark("stream_end")>>

-----------------------------------------------------------------------------
(***************************************************************************)
(* Reading.                                                                *)
(***************************************************************************)
NoExtent == [devindex |-> 0, offset |-> 0, len |-> 0]
FileKeys == {"path", "size", "flags", "mode", "uid", "gid", "nextents"}

Field(k) == IF k = "path" THEN "relpath" ELSE k

(* calloc'ed, and the call of famfs_parse_shadow_yaml. *)
ParserInit ==
  [at |-> "stream", caller |-> "file", key |-> "", got |-> {},
   list |-> <<>>, cur |-> NoExtent, nstrips |-> 0, chunk_size |-> 0,
   fm |-> [relpath |-> 0, size |-> 0, flags |-> 0, mode |-> 0, uid |-> 0,
           gid |-> 0, nextents |-> 0, ext_type |-> FAMFS_EXT_SIMPLE,
           se |-> <<>>, ie |-> <<>>]]

Fail(s) == [s EXCEPT !.at = "error"]
Expect(s, e, type, next) == IF e.type = type THEN [s EXCEPT !.at = next]
                                             ELSE Fail(s)

famfs_parse_shadow_yaml_step(s, e) ==
  CASE s.at = "stream" -> Expect(s, e, "stream_start", "document")
    [] s.at = "document" -> Expect(s, e, "document_start", "mapping")
    [] s.at = "mapping" -> Expect(s, e, "mapping_start", "stanza")
    [] s.at = "stanza" ->
         Expect(s, e, "scalar",
                IF e.key = "file" THEN "file_start" ELSE "document_end")
    [] s.at = "document_end" -> Expect(s, e, "document_end", "stream_end")
    [] s.at = "stream_end" -> Expect(s, e, "stream_end", "done")

(* The loop over the keys of the "file" stanza.  The extent lists consume  *)
(* the end of the mapping they are in, so the end this loop sees is that   *)
(* of the mapping around the stanza.                                       *)
famfs_parse_file_yaml_step(s, e) ==
  CASE s.at = "file_start" -> Expect(s, e, "mapping_start", "file")
    [] s.at = "file" /\ e.type = "scalar" ->
         CASE e.key \in FileKeys ->
                [s EXCEPT !.at = "file_val", !.key = e.key]
           [] e.key = "simple_ext_list" ->
                [s EXCEPT !.at = "list_seq", !.caller = "file",
                          !.fm.ext_type = FAMFS_EXT_SIMPLE]
           [] e.key = "striped_ext_list" ->
                [s EXCEPT !.at = "striped_seq",
                          !.fm.ext_type = FAMFS_EXT_INTERLEAVE]
           [] OTHER -> Fail(s)
    [] s.at = "file" /\ e.type = "mapping_end" ->
         [s EXCEPT !.at = "document_end"]
    [] s.at = "file" -> s
    [] s.at = "file_val" ->
         CASE e.type # "scalar" -> Fail(s)
           [] OTHER ->
                [s EXCEPT !.at = "file", !.fm[Field(s.key)] = strtoull(e)]

(* The return of famfs_parse_file_simple_ext_list to its caller, which     *)
(* compares the number of extents found with the number announced.         *)
list_returns(s) ==
  IF s.caller = "file"
  THEN IF Len(s.list) # s.fm.nextents
       THEN Fail(s)
       ELSE [s EXCEPT !.at = "file", !.fm.se = s.list]
  ELSE IF Len(s.list) # s.nstrips
       THEN Fail(s)
       ELSE [s EXCEPT !.at = "striped",
               !.fm.ie = Append(@, [chunk_size |-> s.chunk_size,
                                    strips |-> s.list])]

famfs_parse_file_simple_ext_list_step(s, e) ==
  CASE s.at = "list_seq" -> Expect(s, e, "sequence_start", "list_map")
    [] s.at = "list_map" ->
         Expect([s EXCEPT !.list = <<>>, !.got = {}, !.cur = NoExtent],
                e, "mapping_start", "list")
    [] s.at = "list" /\ e.type = "scalar" ->
         IF e.key \in {"devindex", "offset", "length"}
         THEN [s EXCEPT !.at = "list_val", !.key = e.key]
         ELSE s
    [] s.at = "list" /\ e.type = "mapping_start" ->
         IF Len(s.list) >= FAMFS_MAX_SIMPLE_EXTENTS THEN Fail(s) ELSE s
    [] s.at = "list" /\ e.type = "mapping_end" ->
         IF {"offset", "length"} \subseteq s.got
         THEN [s EXCEPT !.list = Append(@, s.cur), !.got = {},
                        !.cur = NoExtent]
         ELSE Fail(s)
    [] s.at = "list" /\ e.type = "sequence_end" ->
         [s EXCEPT !.at = "list_end"]
    [] s.at = "list" -> s
    [] s.at = "list_val" ->
         IF e.type # "scalar"
         THEN Fail(s)
         ELSE [s EXCEPT !.at = "list", !.got = @ \cup {s.key},
                 !.cur[IF s.key = "length" THEN "len" ELSE s.key]
                     = strtoull(e)]
    [] s.at = "list_end" ->
         IF e.type = "mapping_end" THEN list_returns(s) ELSE Fail(s)

famfs_parse_file_striped_ext_list_step(s, e) ==
  CASE s.at = "striped_seq" -> Expect(s, e, "sequence_start", "striped_map")
    [] s.at = "striped_map" -> Expect(s, e, "mapping_start", "striped")
    [] s.at = "striped" /\ e.type = "scalar" ->
         CASE e.key \in {"chunk_size", "nstrips"} ->
                [s EXCEPT !.at = "striped_val", !.key = e.key]
           [] e.key = "simple_ext_list" ->
                [s EXCEPT !.at = "list_seq", !.caller = "striped"]
           [] OTHER -> s
    [] s.at = "striped" /\ e.type = "mapping_start" ->
         IF Len(s.fm.ie) >= FAMFS_MAX_SIMPLE_EXTENTS THEN Fail(s) ELSE s
    [] s.at = "striped" /\ e.type = "mapping_end" ->
         [s EXCEPT !.fm.ie = Append(@, [chunk_size |-> s.chunk_size,
                                        strips |-> <<>>])]
    [] s.at = "striped" /\ e.type = "sequence_end" ->
         [s EXCEPT !.at = "striped_end"]
    [] s.at = "striped" -> s
    [] s.at = "striped_val" ->
         IF e.type # "scalar"
         THEN Fail(s)
         ELSE [s EXCEPT !.at = "striped", ![s.key] = strtoull(e)]
    [] s.at = "striped_end" -> Expect(s, e, "mapping_end", "file")

ParserStep(s, e) ==
  CASE s.at = "error" -> s
    [] s.at \in {"stream", "document", "mapping", "stanza", "document_end",
                 "stream_end"} -> famfs_parse_shadow_yaml_step(s, e)
    [] s.at \in {"file_start", "file", "file_val"} ->
         famfs_parse_file_yaml_step(s, e)
    [] s.at \in {"list_seq", "list_map", "list", "list_val", "list_end"} ->
         famfs_parse_file_simple_ext_list_step(s, e)
    [] OTHER -> famfs_parse_file_striped_ext_list_step(s, e)

(* The events are consumed one by one until an error or the end. *)
RECURSIVE ParserRun(_, _)
ParserRun(s, events) ==
  IF s.at \in {"error", "done"} \/ events = <<>>
  THEN s
  ELSE ParserRun(ParserStep(s, Head(events)), Tail(events))

(* What famfs_parse_shadow_yaml returns: rc, and the file meta. *)
famfs_parse_shadow_yaml(events) ==
  LET s == ParserRun(ParserInit, events)
  IN [ok |-> s.at = "done", fm |-> s.fm]
=============================================================================
