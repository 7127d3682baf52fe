---------------------------- MODULE MCConfigFile ----------------------------
EXTENDS ConfigFile

At(indent, word, args) == [indent |-> indent, word |-> word, args |-> args]

Stanzas == {At(0, "host", <<"h">>), At(4, "volume", <<"v", "path">>)}

Everywhere(words, arguments) ==
  {At(i, w, a) : i \in {0, 4, 8}, w \in words, a \in arguments}

MCSubjects ==
  {Stanzas \cup Everywhere({"hook-timeout"}, {<<"0s">>, <<"24h">>}),
   Stanzas \cup Everywhere({"backup-parameter"}, {<<"min-interval", "1d">>, <<"--remove", "min-interval">>})
     \cup {At(4, "backup-policy", <<"interval">>)},
   Stanzas \cup Everywhere({"pre-volume-hook"}, {<<>>, <<"x", "y">>})
     \cup {At(0, "rsync-remote", <<"x">>), At(8, "rsync-remote", <<"">>)},
   Stanzas \cup {At(4, "devices", <<"x">>), At(8, "devices", <<"">>),
                 At(0, "group", <<"x">>), At(4, "group", <<"y">>),
                 At(8, "group", <<"h">>), At(8, "exclude", <<"x">>)},
   {At(0, "report", <<>>), At(0, "report", <<"+", "x">>), At(0, "report", <<"long">>),
    At(0, "report", <<"+", "+">>),
    At(0, "report", <<"x", "long", "y">>), At(0, "host-name-font", <<"two words">>),
    At(0, "max-usage", <<"90">>), At(0, "max-usage", <<"101">>),
    At(0, "store", <<"--no-mounted", "s">>), At(0, "store-pattern", <<"g">>),
    At(0, "store", <<"--mounted">>), At(0, "device", <<"d">>),
    At(0, "horizontal-padding", <<>>), At(0, "color-good", <<"rgb", "0", "1", "0">>),
    At(0, "host-check", <<"ssh", "x">>)},
   {At(0, "host", <<"h">>), At(0, "host", <<"i">>), At(2, "host", <<"i">>), At(0, "include", <<"f">>),
    At(4, "include", <<"f">>)}
     \cup {At(i, "max-age", <<"1d">>) : i \in {0, 2, 4}} \cup {At(2, "volume", <<"v", "path">>)}
     \cup {At(2, "prune-policy", <<"two words">>)},
   Stanzas \cup {At(0, "prune-policy", <<"/program">>), At(8, "prune-policy", <<"exec">>),
                 At(4, "prune-policy", <<"age">>), At(4, "prune-parameter", <<"--remove", "path">>),
                 At(0, "prune-parameter", <<"prune-age", "1d">>), At(8, "traverse", <<>>)}}

MCWord ==
  {w \in {l.word : l \in UNION MCSubjects} \cup {"backup-policy", "prune-policy"} :
     DirectiveOf[w].form \in Assigned \cup {"appended", "exclude", "policy"}}

Same(S) == [a \in S |-> a]

MCReading ==
  [interval |-> [a \in {<<"0s">>, <<"1d">>, <<"24h">>, <<"3d">>} |->
                   IF a = <<"24h">> THEN <<"1d">> ELSE a],
   percentage |-> Same({<<"80">>, <<"90">>}),
   measure |-> Same({<<"8">>, <<"9">>}),
   color |-> [a \in {<<"rgb", "0", "1", "0">>, <<"0x00ff00">>, <<"0xe0ffe0">>} |->
                IF Len(a) = 4 THEN <<"0x00ff00">> ELSE a],
   parameter |-> Same({<<"min-interval">>, <<"prune-age">>, <<"path">>}),
   variable |-> Same({<<"path">>}),
   path |-> Same({<<"/program">>}),
   glob |-> [a \in {<<"g">>} |-> {{"s", "t"}}]]

MCPreset ==
  ("max-age" :> <<"3d">>) @@ ("backup-policy" :> <<"daily">>)
    @@ ("prune-policy" :> <<"age">>) @@ ("devices" :> <<"*">>)
    @@ ("report" :> <<"x">>) @@ ("host-name-font" :> <<"Normal">>)
    @@ ("max-usage" :> <<"80">>) @@ ("horizontal-padding" :> <<"8">>)
    @@ ("color-good" :> <<"0xe0ffe0">>) @@ ("host-check" :> <<"ssh">>)
=============================================================================
