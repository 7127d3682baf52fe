------------------------------ MODULE ConfigFile ------------------------------
(***************************************************************************)
(* The configuration file: lines and their indentation (Indent.cc), the       *)
(* directives and the levels at which each is accepted (ConfDirective.cc),     *)
(* the hosts and volumes they make out of what is in force where their        *)
(* stanza begins (ConfBase.h, Host.h, Volume.cc), included files and          *)
(* validation (Conf.cc); and what --dump-config writes (Conf::write() and      *)
(* those it calls), read again by the same reader.                           *)
(*                                                                         *)
(* A value is the sequence of the arguments that write it. A node of the       *)
(* configuration is a pair of names: the global one <<"", "">>, a host         *)
(* <<h, "">>, a volume <<h, v>>.                                             *)
(***************************************************************************)
EXTENDS Integers, Sequences, FiniteSets, SequencesExt

CONSTANTS
  HostName,    \* the valid names of hosts
  VolumeName,  \* the valid names of volumes
  Word,        \* the directives that occur
  Subjects,    \* sets of lines: those a file may have
  Reading,     \* by form, what arguments denote, as they are written back
  Preset,      \* the defaults of Conf.h that are not empty
  Long,        \* arguments that do not fit on the line of another
  Spaced,      \* arguments that are no single word unless quoted
  MaxLines,    \* bound: the lines that are read
  MaxFiles     \* bound: the files that are read

VARIABLES
  subject,  \* the lines that the file may have
  phase,    \* reading, validating, writing, reading again, or over
  nodes,    \* Conf, Host and Volume objects
  stores,   \* Conf::stores, to whether they must be mounted
  devices,  \* Conf::devices
  files,    \* the files being read, the outermost first
  opened,   \* how many have been
  text,     \* history: the lines obeyed
  script,   \* what is left of the dump
  kept      \* history: the configuration that was dumped

reader == <<subject, phase, nodes, stores, devices, files, opened, text, script,
            kept>>

Root == <<"", "">>

Parent(p) == IF p[2] # "" THEN <<p[1], "">> ELSE Root

-----------------------------------------------------------------------------
(* The directives. A form says what arguments they take and what comes of      *)
(* them: of most, a value of the node. Many is INT_MAX: as many as there are.    *)
Many == 100

Directives(words, form, least, most, levels) ==
  [word : words, form : {form}, least : {least}, most : {most}, levels : {levels},
   opens : {0}]

GlobalDirectives ==
  Directives({"store"}, "store", 1, Many, {1})
    \cup Directives({"store-pattern"}, "store-pattern", 1, Many, {1})

PlainDirectives ==
  Directives({"stylesheet", "logs", "database", "lock", "sendmail", "rm"},
             "text", 1, 1, {1})
    \cup Directives({"color-good", "color-bad"}, "color", 1, 4, {1})
    \cup Directives({"device"}, "device", 1, 1, {1})
    \cup Directives({"max-usage", "max-file-usage"}, "percentage", 1, 1, {1})
    \cup Directives({"public"}, "boolean", 1, 1, {1})
    \cup Directives({"pre-device-hook", "post-device-hook"}, "list", 1, Many, {1})
    \cup Directives({"keep-prune-logs", "prune-timeout"}, "interval", 1, 1, {1})
    \cup Directives({"include"}, "include", 1, 1, {1})

GraphDirectives ==
  Directives({"color-graph-background", "color-graph-foreground",
              "color-month-guide", "color-host-guide", "color-volume-guide"},
             "color", 1, 4, {1})
    \cup Directives({"device-color-strategy"}, "strategy", 1, Many, {1})
    \cup Directives({"horizontal-padding", "vertical-padding",
                     "backup-indicator-width", "backup-indicator-height",
                     "graph-target-width", "backup-indicator-key-width"},
                    "measure", 0, Many, {1})
    \cup Directives({"host-name-font", "volume-name-font", "device-name-font",
                     "time-label-font"}, "text", 1, 1, {1})

LayoutDirectives == Directives({"report", "graph-layout"}, "appended", 0, Many, {1})

PolicyDirectives ==
  Directives({"max-age"}, "interval", 1, 1, 1 .. 3)
    \cup Directives({"backup-policy"}, "text", 1, 1, 1 .. 3)
    \cup Directives({"backup-parameter", "prune-parameter"}, "parameter", 2, 2, 1 .. 3)
    \cup Directives({"prune-policy"}, "policy", 1, 1, 1 .. 3)

HookDirectives ==
  Directives({"pre-volume-hook", "post-volume-hook"}, "list", 0, Many, 1 .. 3)
    \cup Directives({"backup-job-timeout", "rsync-io-timeout", "hook-timeout"},
                    "interval", 1, 1, 1 .. 3)
    \cup Directives({"host-check"}, "check", 1, Many, {1, 2})

RsyncDirectives ==
  Directives({"ssh-timeout"}, "interval", 1, 1, 1 .. 3)
    \cup Directives({"rsync-command", "rsync-remote"}, "text", 1, 1, 1 .. 3)
    \cup Directives({"rsync-link-dest"}, "boolean", 1, 1, 1 .. 3)
    \cup Directives({"rsync-base-options"}, "list", 1, Many, 1 .. 3)
    \cup Directives({"rsync-extra-options"}, "list", 0, Many, 1 .. 3)

TimeDirectives ==
  Directives({"backup-time"}, "times", 1, 1, 1 .. 3)
    \cup Directives({"group"}, "text", 1, 1, 1 .. 3)

HostDirectives ==
  [word : {"host"}, form : {"host"}, least : {1}, most : {1}, levels : {{1}},
   opens : {2}]
    \cup Directives({"hostname", "user"}, "text", 1, 1, {2})
    \cup Directives({"priority"}, "integer", 1, 1, {2})
    \cup Directives({"devices"}, "text", 1, 1, {2, 3})

VolumeDirectives ==
  [word : {"volume"}, form : {"volume"}, least : {2}, most : {2}, levels : {{2}},
   opens : {3}]
    \cup Directives({"exclude"}, "exclude", 1, 1, {3})
    \cup Directives({"traverse"}, "boolean", 0, 1, {3})
    \cup Directives({"check-file"}, "text", 1, 1, {3})
    \cup Directives({"check-mounted"}, "boolean", 1, 1, {3})

Inheritable == PolicyDirectives \cup HookDirectives \cup RsyncDirectives \cup TimeDirectives

AllDirectives ==
  GlobalDirectives \cup PlainDirectives \cup GraphDirectives \cup LayoutDirectives
    \cup Inheritable \cup HostDirectives \cup VolumeDirectives

(* ConfDirective::find()                                                    *)
DirectiveOf ==
  [w \in {d.word : d \in AllDirectives} |-> CHOOSE d \in AllDirectives : d.word = w]

Known(w) == w \in DOMAIN DirectiveOf

(* What a node takes over from its parent.                                   *)
Inherited == {d.word : d \in Inheritable} \cup {"devices"}

-----------------------------------------------------------------------------
(* Values. A Boolean without an argument is true; what has no value to read    *)
(* is an error.                                                             *)
Boolean == {<<"true">>, <<"false">>}

GetBoolean(args) == IF args = <<>> THEN <<"true">> ELSE args

Reads(form, args) ==
  CASE form \in {"text", "list"} -> TRUE
    [] form = "boolean" -> GetBoolean(args) \in Boolean
    [] form = "check" -> \/ args \in {<<"ssh">>, <<"always-up">>}
                         \/ args[1] = "command"
    [] form = "measure" -> SubSeq(args, 1, 1) \in DOMAIN Reading[form]
    [] OTHER -> args \in DOMAIN Reading[form]

Value(form, args) ==
  CASE form \in {"text", "list", "check"} -> args
    [] form = "boolean" -> GetBoolean(args)
    [] form = "measure" -> Reading[form][SubSeq(args, 1, 1)]
    [] OTHER -> Reading[form][args]

Assigned == {"text", "list", "boolean", "check", "color", "percentage", "interval",
             "integer", "strategy", "times", "measure"}

(* The defaults: of a Conf object, and what of a node is not inherited.        *)
Initially ==
  [w \in Word |->
     IF w \in {"pre-device-hook", "post-device-hook", "pre-volume-hook",
               "post-volume-hook", "exclude"}
       THEN <<>>
     ELSE IF w \in {"public", "traverse", "check-mounted"} THEN <<"false">>
     ELSE IF w = "rsync-link-dest" THEN <<"true">>
     ELSE IF w = "priority" THEN <<"0">>
     ELSE IF w \in {"backup-job-timeout", "rsync-io-timeout", "hook-timeout",
                    "prune-timeout"}
       THEN <<"0s">>
     ELSE IF w \in DOMAIN Preset THEN Preset[w]
     ELSE <<"">>]

NoParameter == [n \in {} |-> ""]

GlobalNode == [set |-> Initially, backup |-> NoParameter, prune |-> NoParameter]

HostNode(h, above) ==
  [above EXCEPT !.set = [w \in Word |-> IF w \in {"group", "hostname"} THEN <<h>>
                                        ELSE IF w \in Inherited THEN above.set[w]
                                        ELSE Initially[w]]]

VolumeNode(above) ==
  [above EXCEPT !.set = [w \in Word |-> IF w \in Inherited THEN above.set[w]
                                        ELSE Initially[w]]]

-----------------------------------------------------------------------------
(* Indentation: the depths of the blocks that are open, and the level that     *)
(* the last line opens, if it does.                                         *)
NewFile(n) == [stack |-> <<0>>, opens |-> 0, at |-> Root, file |-> n]

Current == files[Len(files)]

Depths == Current.stack

Fits(l) == \E i \in DOMAIN Depths : Depths[i] = l.indent

LevelOf(l) ==
  IF Fits(l) THEN CHOOSE i \in DOMAIN Depths : Depths[i] = l.indent
  ELSE IF l.indent > Depths[Len(Depths)] THEN Current.opens
  ELSE 0

(* Faulty: the blocks that a line leaves stay open.                          *)
OpenDepthsKept(l) == IF Fits(l) THEN Depths ELSE Append(Depths, l.indent)

OpenDepths(l) ==
  IF Fits(l) THEN SubSeq(Depths, 1, LevelOf(l)) ELSE Append(Depths, l.indent)

(* cc.context: what a line at its level is about.                            *)
Outer(p, level) ==
  IF level = 1 THEN Root ELSE IF level = 2 THEN <<p[1], "">> ELSE p

Here(l) == Outer(Current.at, LevelOf(l))

(* Each directive's check().                                                *)
Checks(d, l) ==
  /\ Len(l.args) >= d.least /\ (d.most = Many \/ Len(l.args) <= d.most)
  /\ d.form = "color" /\ Len(l.args) # 1 =>
       Len(l.args) = 4 /\ l.args[1] \in {"rgb", "hsv"}

(* The first argument of store that is no option, and whether it must be       *)
(* mounted: the last option says.                                           *)
StoreOptions == {"--mounted", "--no-mounted"}

StoreArgument(args) ==
  SelectInSeq(args, LAMBDA a : a \notin StoreOptions)

StoreMounted(args) ==
  StoreArgument(args) = 1 \/ args[StoreArgument(args) - 1] = "--mounted"

(* The name that backup-parameter and prune-parameter are about.             *)
ParameterName(args) == IF args[1] = "--remove" THEN args[2] ELSE args[1]

(* Each directive's set() may refuse what the check let through.              *)
Sensible(d, l) ==
  CASE d.form \in Assigned -> Reads(d.form, l.args)
    [] d.form = "parameter" -> <<ParameterName(l.args)>> \in DOMAIN Reading[d.form]
    [] d.form \in {"store", "store-pattern"} -> StoreArgument(l.args) # 0
    [] d.form = "host" -> /\ l.args[1] \in HostName
                          /\ <<l.args[1], "">> \notin DOMAIN nodes
    [] d.form = "volume" -> /\ l.args[1] \in VolumeName
                            /\ <<Here(l)[1], l.args[1]>> \notin DOMAIN nodes
    [] OTHER -> TRUE

(* report, graph-layout and the measures may lack the argument that they look   *)
(* at: it is read from beyond the end of the words of the line.               *)
Overruns(d, l) == d.form \in {"appended", "measure"} /\ l.args = <<>>

(* What is written of a value that has been read is read as that value; and      *)
(* so are the defaults, but for a list of hooks that must not be empty. No          *)
(* default is a path to a program, which has its own parameter.                *)
Settled(d, v) ==
  /\ Checks(d, [args |-> v]) /\ ~ Overruns(d, [args |-> v])
  /\ Reads(d.form, v) /\ Value(d.form, v) = v

Listed(s) == Len(s) \in Nat /\ s = [i \in 1 .. Len(s) |-> s[i]]

ASSUME ConfigAssumption ==
  /\ IsFiniteSet(Word) /\ \A w \in Word : Known(w)
  /\ \A w \in Word : LET d == DirectiveOf[w] IN d.form \in Assigned =>
       /\ Settled(d, Initially[w]) \/ w \in {"pre-device-hook", "post-device-hook"}
       /\ d.form \notin {"text", "list", "boolean", "check"} =>
            \A a \in DOMAIN Reading[d.form] : Settled(d, Reading[d.form][a])
  /\ {"backup-policy", "prune-policy"} \subseteq Word \cap DOMAIN Preset
  /\ {"database", "lock", "stylesheet", "rsync-remote", "user", "check-file"}
       \cap DOMAIN Preset = {}
  /\ Len(Preset["prune-policy"]) = 1
  /\ {<<"exec">>, Preset["prune-policy"]} \cap DOMAIN Reading["path"] = {}
  /\ DOMAIN Reading["path"] # {} => <<"path">> \in DOMAIN Reading["parameter"]
  /\ \A w \in Word : DirectiveOf[w].form = "appended" => Listed(Initially[w])
  /\ \A lines \in Subjects : \A l \in lines : l.indent \in Nat /\ Listed(l.args)
  /\ "" \notin HostName \cup VolumeName
  /\ MaxLines \in Nat /\ MaxFiles \in Nat

Placed(l) == Known(l.word) /\ LevelOf(l) \in DirectiveOf[l.word].levels

Obeys(l) ==
  /\ Placed(l)
  /\ Checks(DirectiveOf[l.word], l)
  /\ ~ Overruns(DirectiveOf[l.word], l)
  /\ Sensible(DirectiveOf[l.word], l)

Orders(l, forms) == Known(l.word) /\ DirectiveOf[l.word].form \in forms /\ Obeys(l)

-----------------------------------------------------------------------------
Offered ==
  IF phase = "reread" THEN {script[i] : i \in DOMAIN script \cap {1}}
  ELSE IF phase = "read" /\ Len(text) < MaxLines THEN subject
  ELSE {}

(* What reading a line does to the reader itself: the block it is in, the       *)
(* context it leaves behind, and the line is gone.                           *)
Advance(l, context) ==
  /\ files' = [files EXCEPT ![Len(files)] =
                 [stack |-> OpenDepths(l), opens |-> DirectiveOf[l.word].opens,
                  at |-> context, file |-> Current.file]]
  /\ script' = IF phase = "reread" THEN Tail(script) ELSE script
  /\ text' = IF phase = "read"
               THEN Append(text, [file |-> Current.file, indent |-> l.indent,
                                  word |-> l.word, args |-> l.args])
               ELSE text
  /\ UNCHANGED <<subject, phase, opened, kept>>

(* SyntaxError becomes ConfigError, and main() reports it and ends.           *)
Refuse(l) ==
  /\ ~ Obeys(l)
  /\ phase' = "failed"
  /\ UNCHANGED <<subject, nodes, stores, devices, files, opened, text, script, kept>>

SetValue(p, w, v) ==
  nodes' = [nodes EXCEPT ![p].set[w] = v]

Assign(l) ==
  /\ Orders(l, Assigned)
  /\ SetValue(Here(l), l.word, Value(DirectiveOf[l.word].form, l.args))
  /\ Advance(l, Here(l))
  /\ UNCHANGED <<stores, devices>>

Extend(l) ==
  /\ Orders(l, {"appended"})
  /\ SetValue(Root, l.word, IF l.args[1] = "+"
                          THEN nodes[Root].set[l.word] \o Tail(l.args)
                          ELSE l.args)
  /\ Advance(l, Here(l))
  /\ UNCHANGED <<stores, devices>>

(* What is beyond the end may be the + of an earlier line, which then appends    *)
(* a range that ends before it begins; another word; or a number.             *)
Overrun(l) ==
  /\ Placed(l)
  /\ Overruns(DirectiveOf[l.word], l)
  /\ \/ /\ DirectiveOf[l.word].form = "appended"
        /\ SetValue(Root, l.word, <<>>)
        /\ Advance(l, Here(l))
     \/ /\ DirectiveOf[l.word].form = "measure"
        /\ \E v \in DOMAIN Reading["measure"] :
             SetValue(Root, l.word, Reading["measure"][v])
        /\ Advance(l, Here(l))
  /\ UNCHANGED <<stores, devices>>

With(f, n, v) == [m \in DOMAIN f \cup {n} |-> IF m = n THEN v ELSE f[m]]

Without(f, n) == [m \in DOMAIN f \ {n} |-> f[m]]

Changed(f, args) ==
  IF args[1] = "--remove" THEN Without(f, args[2]) ELSE With(f, args[1], args[2])

SetParameter(l) ==
  /\ Orders(l, {"parameter"})
  /\ nodes' = IF l.word = "backup-parameter"
                THEN [nodes EXCEPT ![Here(l)].backup = Changed(@, l.args)]
                ELSE [nodes EXCEPT ![Here(l)].prune = Changed(@, l.args)]
  /\ Advance(l, Here(l))
  /\ UNCHANGED <<stores, devices>>

(* A path stands for the policy exec with that path. Its location is of use     *)
(* in messages only.                                                        *)
SetPrunePolicy(l) ==
  /\ Orders(l, {"policy"})
  /\ IF l.args \in DOMAIN Reading["path"]
       THEN nodes' = [nodes EXCEPT ![Here(l)].set[l.word] = <<"exec">>,
                                   ![Here(l)].prune = With(@, "path", l.args[1])]
       ELSE SetValue(Here(l), l.word, l.args)
  /\ Advance(l, Here(l))
  /\ UNCHANGED <<stores, devices>>

(* A pattern stands for the paths it matches, or for itself.                 *)
AddStore(l) ==
  /\ Orders(l, {"store", "store-pattern"})
  /\ LET path == l.args[StoreArgument(l.args)]
     IN  \E paths \in IF l.word = "store" THEN {{path}}
                      ELSE {{path}} \cup Reading["glob"][<<path>>] :
           stores' = [s \in DOMAIN stores \cup paths |->
                        IF s \in paths THEN StoreMounted(l.args) ELSE stores[s]]
  /\ Advance(l, Here(l))
  /\ UNCHANGED <<nodes, devices>>

AddDevice(l) ==
  /\ Orders(l, {"device"})
  /\ devices' = devices \cup {l.args[1]}
  /\ Advance(l, Here(l))
  /\ UNCHANGED <<nodes, stores>>

AddHost(l) ==
  /\ Orders(l, {"host"})
  /\ nodes' = With(nodes, <<l.args[1], "">>, HostNode(l.args[1], nodes[Root]))
  /\ Advance(l, <<l.args[1], "">>)
  /\ UNCHANGED <<stores, devices>>

AddVolume(l) ==
  /\ Orders(l, {"volume"})
  /\ LET p == <<Here(l)[1], l.args[1]>>
     IN  /\ nodes' = With(nodes, p, VolumeNode(nodes[Here(l)]))
         /\ Advance(l, p)
  /\ UNCHANGED <<stores, devices>>

AddExclude(l) ==
  /\ Orders(l, {"exclude"})
  /\ SetValue(Here(l), l.word, Append(nodes[Here(l)].set[l.word], l.args[1]))
  /\ Advance(l, Here(l))
  /\ UNCHANGED <<stores, devices>>

(* includeFile(): a file, or the files of a directory in order; none of them     *)
(* starts inside a block of the file that includes it. What cannot be read is   *)
(* an error.                                                                *)
Include(l) ==
  /\ Orders(l, {"include"})
  /\ phase = "read"
  /\ \/ phase' = "failed" /\ UNCHANGED <<files, opened, text>>
     \/ \E n \in 0 .. MaxFiles - opened :
          /\ files' = [files EXCEPT ![Len(files)] =
                         [stack |-> OpenDepths(l), opens |-> 0, at |-> Root,
                          file |-> Current.file]]
                        \o [i \in 1 .. n |-> NewFile(opened + n + 1 - i)]
          /\ opened' = opened + n
          /\ text' = Append(text, [file |-> Current.file, indent |-> l.indent,
                                   word |-> l.word, args |-> l.args])
          /\ UNCHANGED phase
  /\ UNCHANGED <<subject, nodes, stores, devices, script, kept>>

(* readOneFile() for one line that is not blank. What a line of the dump asks     *)
(* for is read in the same way.                                              *)
ReadLine(l) ==
  \/ Refuse(l) \/ Overrun(l) \/ Assign(l) \/ Extend(l) \/ SetParameter(l) \/ SetPrunePolicy(l)
  \/ AddStore(l) \/ AddDevice(l) \/ AddHost(l) \/ AddVolume(l) \/ AddExclude(l)
  \/ Include(l)

(* The end of a file; in the end, of the outermost.                          *)
EndFile ==
  /\ phase = "read" \/ (phase = "reread" /\ script = <<>>)
  /\ IF Len(files) > 1
       THEN files' = Front(files) /\ UNCHANGED phase
       ELSE /\ phase' = IF phase = "read" THEN "validate" ELSE "done"
            /\ UNCHANGED files
  /\ UNCHANGED <<subject, nodes, stores, devices, opened, text, script, kept>>

(* Conf::validate(): the policies of every volume exist and have the            *)
(* parameters they need, and a program gets only those it can be given. What      *)
(* their values may be is left out.                                          *)
Required ==
  [always |-> {}, daily |-> {}, interval |-> {"min-interval"},
   age |-> {}, decay |-> {}, never |-> {}, exec |-> {"path"}]

ValidNode(s) ==
  LET backup == s.set["backup-policy"][1]
      prune == s.set["prune-policy"][1]
  IN  /\ backup \in {"always", "daily", "interval"}
      /\ Required[backup] \subseteq DOMAIN s.backup
      /\ prune \in {"age", "decay", "exec", "never"}
      /\ Required[prune] \subseteq DOMAIN s.prune
      /\ prune = "exec" =>
           \A n \in DOMAIN s.prune : <<n>> \in DOMAIN Reading["variable"]

Volumes == {p \in DOMAIN nodes : p[2] # ""}

Validate ==
  /\ phase = "validate"
  /\ phase' = IF \A p \in Volumes : ValidNode(nodes[p]) THEN "valid" ELSE "failed"
  /\ UNCHANGED <<subject, nodes, stores, devices, files, opened, text, script, kept>>

-----------------------------------------------------------------------------
(* The dump. Values are quoted where they must be, but for those of some         *)
(* directives; a list goes on on another line where one is full, and a first      *)
(* element that does not fit leaves the first line without any.               *)
Fonts == {"host-name-font", "volume-name-font", "device-name-font", "time-label-font"}

Unquoted == Fonts \cup {"backup-policy", "prune-policy"}

Quoted(w, v) ==
  IF w \in Unquoted /\ v[1] \in Spaced THEN <<v[1], v[1]>> ELSE v

Row(p, w, args) ==
  [indent |-> IF p = Root THEN 0 ELSE IF p[2] = "" THEN 4 ELSE 8,
   word |-> w, args |-> args]

Breaks(v) == {i \in DOMAIN v : v[i] \in Long}

(* Where the line ends on which the element i begins.                        *)
BreakAfter(v, i) ==
  LET later == {j \in Breaks(v) : j > i} IN
  IF later = {} THEN Len(v) ELSE (CHOOSE j \in later : \A k \in later : j <= k) - 1

WriteVector(w, v) ==
  <<Row(Root, w, SubSeq(v, 1, BreakAfter(v, 0)))>>
    \o FlattenSeq([i \in DOMAIN v |->
                     IF i \in Breaks(v)
                       THEN <<Row(Root, w, <<"+">> \o SubSeq(v, i, BreakAfter(v, i)))>>
                     ELSE <<>>])

Held(p, w) == nodes[p].set[w]

Differs(p, w) == p # Root /\ Held(p, w) # Held(Parent(p), w)

(* ConfBase::write(): what it writes of every node, or where it is not the       *)
(* default or not what the parent has;                                       *)
BaseWritten(p) ==
  {"max-age", "backup-policy", "prune-policy", "ssh-timeout", "rsync-command",
   "rsync-base-options", "rsync-extra-options", "backup-time"}
    \cup {w \in {"backup-job-timeout", "rsync-io-timeout", "hook-timeout"} \cap Word :
            Held(p, w) # <<"0s">>}
    \cup {w \in {"pre-volume-hook", "post-volume-hook"} \cap Word :
            Held(p, w) # <<>> \/ Differs(p, w)}
    \cup {w \in {"rsync-link-dest"} \cap Word : Held(p, w) = <<"false">> \/ Differs(p, w)}
    \cup {w \in {"rsync-remote"} \cap Word : Held(p, w) # <<"">>}

(* Faulty: what the parent has and the node has not is not written.            *)
ParameterRowsOfNode(p, w, mine, its) ==
  {Row(p, w, <<n, mine[n]>>) : n \in DOMAIN mine}

(* parameters, those removed from what the parent has included;               *)
ParameterRows(p, w, mine, its) ==
  {Row(p, w, <<n, mine[n]>>) : n \in DOMAIN mine}
    \cup {Row(p, w, <<"--remove", n>>) : n \in DOMAIN its \ DOMAIN mine}

(* Conf::write(), of the global node: paths, hooks and times;                 *)
GlobalWritten ==
  {"public", "logs", "keep-prune-logs", "prune-timeout", "color-good", "color-bad",
   "sendmail", "host-check"}
    \cup {w \in {"database", "lock", "stylesheet"} \cap Word : Held(Root, w) # <<"">>}
    \cup {w \in {"pre-device-hook", "post-device-hook"} \cap Word : Held(Root, w) # <<>>}
    \cup {w \in {"rm"} \cap Word : Held(Root, w) # Initially[w]}

(* the graph, but for lists;                                                *)
GraphWritten == {d.word : d \in GraphDirectives}

(* Host::write() and Volume::write().                                       *)
HostWritten(p) ==
  {"hostname", "priority", "host-check"}
    \cup {w \in {"group"} \cap Word : Held(p, w) # <<p[1]>>}
    \cup {w \in {"user", "devices"} \cap Word : Held(p, w) # <<"">>}

VolumeWritten(p) ==
  {"traverse", "check-mounted"}
    \cup {w \in {"group"} \cap Word : Differs(p, w)}
    \cup {w \in {"devices", "check-file"} \cap Word : Held(p, w) # <<"">>}

Written(p) ==
  BaseWritten(p)
    \cup (IF p = Root THEN GlobalWritten \cup GraphWritten
          ELSE IF p[2] = "" THEN HostWritten(p)
          ELSE VolumeWritten(p))

(* Words that no line of the file can set keep their defaults and are left out.  *)
Rows(p) ==
  LET parent == IF p = Root THEN GlobalNode ELSE nodes[Parent(p)]
      values == {Row(p, w, Quoted(w, Held(p, w))) :
                   w \in Written(p) \cap Word \cap {l.word : l \in subject}}
      exclude == IF "exclude" \in Word /\ p \in Volumes THEN Held(p, "exclude") ELSE <<>>
  IN  SetToSeq(values)
        \o SetToSeq(ParameterRows(p, "backup-parameter", nodes[p].backup,
                                  IF p = Root THEN NoParameter ELSE parent.backup))
        \o SetToSeq(ParameterRows(p, "prune-parameter", nodes[p].prune,
                                  IF p = Root THEN NoParameter ELSE parent.prune))
        \o [i \in DOMAIN exclude |-> Row(p, "exclude", <<exclude[i]>>)]

(* The stanzas, a host's before those of its volumes.                         *)
Stanza(p) ==
  (IF p[2] = "" THEN <<[indent |-> 0, word |-> "host", args |-> <<p[1]>>]>>
   ELSE <<[indent |-> 4, word |-> "volume", args |-> <<p[2], "path">>]>>)
    \o Rows(p)

HostStanzas(h) ==
  Stanza(<<h, "">>) \o
    FlattenSeq([i \in DOMAIN SetToSeq({p \in Volumes : p[1] = h}) |->
                  Stanza(SetToSeq({p \in Volumes : p[1] = h})[i])])

Hosts == {h \in HostName : <<h, "">> \in DOMAIN nodes}

Lists == {"report", "graph-layout"} \cap Word

ConfWrite ==
  Rows(Root)
    \o FlattenSeq([i \in DOMAIN SetToSeq(devices) |->
                     <<Row(Root, "device", <<SetToSeq(devices)[i]>>)>>])
    \o FlattenSeq([i \in DOMAIN SetToSeq(Lists) |->
                     WriteVector(SetToSeq(Lists)[i], Held(Root, SetToSeq(Lists)[i]))])
    \o FlattenSeq([i \in DOMAIN SetToSeq(Hosts) |-> HostStanzas(SetToSeq(Hosts)[i])])

(* --dump-config; and another run, that reads what it wrote.                  *)
Dump ==
  /\ phase = "valid"
  /\ phase' = "reread"
  /\ script' = ConfWrite
  /\ kept' = [nodes |-> nodes, devices |-> devices, stores |-> stores]
  /\ nodes' = [p \in {Root} |-> GlobalNode]
  /\ stores' = [s \in {} |-> TRUE]
  /\ devices' = {}
  /\ files' = <<NewFile(1)>>
  /\ text' = <<>>
  /\ UNCHANGED <<subject, opened>>

-----------------------------------------------------------------------------
ReadInit ==
  /\ subject \in Subjects
  /\ phase = "read"
  /\ nodes = [p \in {Root} |-> GlobalNode]
  /\ stores = [s \in {} |-> TRUE]
  /\ devices = {}
  /\ files = <<NewFile(1)>>
  /\ opened = 1
  /\ text = <<>>
  /\ script = <<>>
  /\ kept = [nodes |-> [p \in {} |-> GlobalNode], devices |-> {},
             stores |-> [s \in {} |-> TRUE]]

ReadingOver == phase \in {"failed", "done"} /\ UNCHANGED reader

ReadNext ==
  \/ \E l \in Offered : ReadLine(l)
  \/ EndFile \/ Validate \/ Dump
  \/ ReadingOver

ReadSpec == ReadInit /\ [][ReadNext]_reader

-----------------------------------------------------------------------------
(* What a line is about, told from the text alone: the last line before it in    *)
(* its file that is indented less opens its block.                           *)
Outside(k) ==
  {j \in 1 .. k - 1 : text[j].file = text[k].file /\ text[j].indent < text[k].indent}

Greatest(S) == CHOOSE k \in S : \A j \in S : j <= k

Opener(k) == text[Greatest(Outside(k))]

BlockOf(k) ==
  IF Outside(k) = {} THEN Root
  ELSE IF Opener(k).word = "host" THEN <<Opener(k).args[1], "">>
  ELSE <<text[Greatest(Outside(Greatest(Outside(k))))].args[1], Opener(k).args[1]>>

Made(k, p) ==
  \/ text[k].word = "host" /\ p = <<text[k].args[1], "">>
  \/ text[k].word = "volume" /\ p = <<BlockOf(k)[1], text[k].args[1]>>

Beginning(p) == Greatest({k \in DOMAIN text : Made(k, p)})

(* The last of the first n lines that sets w in the block p, or 0.             *)
LastSetting(w, p, n) ==
  Greatest({0} \cup {k \in 1 .. n : text[k].word = w /\ BlockOf(k) = p})

(* What is in force in p after n lines: the last that p says, or else what was     *)
(* in force around p where p began.                                         *)
GlobalInForce(w, n) ==
  LET k == LastSetting(w, Root, n) IN
  IF k = 0 THEN Initially[w] ELSE Value(DirectiveOf[w].form, text[k].args)

HostInForce(w, h, n) ==
  LET k == LastSetting(w, <<h, "">>, n) IN
  IF k # 0 THEN Value(DirectiveOf[w].form, text[k].args)
  ELSE IF w \in {"group", "hostname"} THEN <<h>>
  ELSE IF w \in Inherited THEN GlobalInForce(w, Beginning(<<h, "">>))
  ELSE Initially[w]

VolumeInForce(w, p, n) ==
  LET k == LastSetting(w, p, n) IN
  IF k # 0 THEN Value(DirectiveOf[w].form, text[k].args)
  ELSE IF w \in Inherited THEN HostInForce(w, p[1], Beginning(p))
  ELSE Initially[w]

InForce(w, p) ==
  IF p = Root THEN GlobalInForce(w, Len(text))
  ELSE IF p[2] = "" THEN HostInForce(w, p[1], Len(text))
  ELSE VolumeInForce(w, p, Len(text))

(* A line that is accepted at its level finds the host or the volume that it is   *)
(* about: readOneFile() and set() do not look whether there is one.            *)
ContextKnown ==
  \A l \in Offered :
    Placed(l) => /\ Here(l) \in DOMAIN nodes
                 /\ LevelOf(l) >= 2 <=> Here(l)[1] # ""
                 /\ LevelOf(l) = 3 <=> Here(l)[2] # ""

(* A line applies to the block its indentation shows, and to nothing else; every  *)
(* node was made by one line, and every setting of it is the last of its stanza  *)
(* or what was in force around the stanza where it began, not what is said       *)
(* later, whatever files the lines come from. No line is without its node.      *)
SettingsInForce ==
  phase \in {"read", "validate", "valid"} =>
    /\ ContextKnown
    /\ \A k \in DOMAIN text :
         Outside(k) # {} => Opener(k).word \in {"host", "volume"}
    /\ \A p \in DOMAIN nodes \ {Root} :
         Cardinality({k \in DOMAIN text : Made(k, p)}) = 1
    /\ \A p \in DOMAIN nodes : \A w \in Word :
         \/ DirectiveOf[w].form \notin Assigned
         \/ \E k \in DOMAIN text : text[k].word = w /\ Overruns(DirectiveOf[w], text[k])
         \/ Held(p, w) = InForce(w, p)

(* What --dump-config does not write, and what it writes only where it is not      *)
(* nothing: there a node that has nothing comes back with what its parent has.    *)
Unwritten == {"max-usage", "max-file-usage"}

OmittedAsNothing(p, w) ==
  /\ w \in {"backup-job-timeout", "rsync-io-timeout", "hook-timeout", "rsync-remote",
            "devices"}
  /\ p # Root
  /\ kept.nodes[p].set[w] \in {<<"0s">>, <<"">>}

Lost(p, w) ==
  \/ w \in Unwritten
  \/ w = "group" /\ p = Root
  \/ w = "host-check" /\ p[2] # ""
  \/ OmittedAsNothing(p, w)

(* A dump that is read otherwise, or not at all: a font or a policy that is no        *)
(* single word, a list whose first element fills a line, or is what appends to      *)
(* it, or one that is empty.                                                 *)
Unreadable(all) ==
  \/ \E w \in Fonts \cap Word : all[Root].set[w][1] \in Spaced
  \/ \E p \in DOMAIN all : \E w \in {"backup-policy", "prune-policy"} :
       all[p].set[w][1] \in Spaced
  \/ \E w \in Lists : \/ all[Root].set[w] = <<>>
                      \/ all[Root].set[w][1] \in Long \cup {"+"}

(* The dump of a valid configuration is read again, and gives the same hosts,       *)
(* volumes, devices, parameters and settings: but for the stores and a few         *)
(* settings that are never written, and settings reset to nothing.            *)
DumpReadsBack ==
  /\ phase = "failed" /\ DOMAIN kept.nodes # {} => Unreadable(kept.nodes)
  /\ phase = "done" /\ ~ Unreadable(kept.nodes) =>
       /\ DOMAIN nodes = DOMAIN kept.nodes
       /\ devices = kept.devices
       /\ \A p \in DOMAIN nodes :
            /\ nodes[p].backup = kept.nodes[p].backup
            /\ nodes[p].prune = kept.nodes[p].prune
            /\ \A w \in Word : Lost(p, w) \/ Held(p, w) = kept.nodes[p].set[w]
=============================================================================
