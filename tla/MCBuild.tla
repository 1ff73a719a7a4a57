------------------------------ MODULE MCBuild ------------------------------
(***************************************************************************)
(* IncrementalBuild for TLC: what the runs put for its constants.          *)
(***************************************************************************)
EXTENDS IncrementalBuild, TLC

\* A server repository, which can be held open, and a browser repository.
CONSTANTS api, web

\* The files of a repository: its module file, and a handler that imports a
\* helper and a model nobody touches.
CONSTANTS main, handler, helper, model

CONSTANTS packages, around, conf0, watcher, cli, absent, none

MCIncremental == {api}
MCGlobal == {main}
MCImporters == [f \in Files |-> IF f = helper THEN {handler} ELSE {}]

MCAll == {Services}
MCSelections == {{web}, Services}

\* n saves, each of a text never seen before.
Plain(n) == [r \in 0 .. n |-> r]
PlainText(last) == [i \in DOMAIN last |-> Plain(last[i])]

\* Four files, two of which are ever saved: one of four is a partial reading.
FourFiles == {main, handler, helper, model}
FourInputs == FourFiles \union {packages, around, conf0}
LastFour == [i \in FourInputs |->
                IF i = handler THEN 2 ELSE IF i = helper THEN 1 ELSE 0]
TextFour == PlainText(LastFour)

\* The second save of the handler takes the first one back.
TextUndone == [TextFour EXCEPT ![handler] = (0 :> "old" @@ 1 :> "new" @@ 2 :> "old")]

\* The handler is created by its first save.
TextCreated == [TextFour EXCEPT ![handler] = (0 :> absent @@ 1 :> 1 @@ 2 :> 2)]

\* Two files: every save is a whole reading.
TwoFiles == {main, handler}
TwoInputs == TwoFiles \union {packages, around, conf0}
LastTwo == [i \in TwoInputs |-> IF i \in {handler, around, conf0} THEN 1 ELSE 0]
TextTwo == PlainText(LastTwo)

\* One file is saved, and the configuration.
LastBoth == [i \in TwoInputs |-> IF i \in {handler, conf0} THEN 1 ELSE 0]
TextBoth == PlainText(LastBoth)

\* Only an installed package is edited.
LastInstalled == [i \in TwoInputs |-> IF i = packages THEN 1 ELSE 0]
TextInstalled == PlainText(LastInstalled)

\* Only the configuration is saved.
LastConfig == [i \in TwoInputs |-> IF i = conf0 THEN 1 ELSE 0]
TextConfig == PlainText(LastConfig)
=============================================================================
