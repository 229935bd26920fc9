----------------------------- MODULE MCAnalysis -----------------------------
(* Workspaces, scans and tools of the instance of StaticAnalysis in MCServices. *)
EXTENDS Naturals

L(kind, name, version) == [kind |-> kind, name |-> name, version |-> version]
File(reader, format, manifest, lines) ==
    [reader |-> reader, format |-> format, manifest |-> manifest, lines |-> lines]

LowerCase == [n \in {"foo", "Foo", "bar", "python", ""} |-> IF n = "Foo" THEN "foo" ELSE n]
KnownVersions == [n \in {"foo", "Foo", "bar", "python", ""} |-> CASE n = "foo" -> {"1"} [] n = "bar" -> {"2"} [] OTHER -> {}]
Versions == {"", " ", "v", "v1", "w", "1", "2", "3"}
Strip == [v \in Versions |-> IF v = " " THEN "" ELSE v]
StripV == [v \in Versions |-> CASE v = "v" -> "" [] v = "v1" -> "1" [] OTHER -> v]

\* Files in blocks: every sequence of up to five of these lines.
BlockLines == {L("block", "", ""), L("name", "foo", ""), L("name", "bar", ""), L("version", "", "1"), L("version", "", "2")}
YarnLines == {L("block", "foo", ""), L("block", "", ""), L("version", "", "1"), L("version", "", "2")}
BlockFiles ==
    {<<File("poetry", "PyPI", "poetry.lock", lines)>> : lines \in UNION {[1..n -> BlockLines] : n \in 0..5}}
    \cup {<<File("yarn", "npm", "yarn.lock", lines)>> : lines \in UNION {[1..n -> YarnLines] : n \in 0..4}}

Requirements == File("requirements", "PyPI", "requirements.txt",
    <<L(">=", "bar", ""), L("==", "Foo", "1"), L("==", "foo", "1"), L("==", "bar", "2")>>)
Pyproject == File("pyproject", "PyPI", "pyproject.toml", <<L("poetry", "python", "3"), L("poetry", "bar", "2"), L("poetry", "foo", "")>>)
Go == File("go", "Go", "go.mod", <<L("module", "foo", "1"), L("require", "bar", "1"), L("exclude", "bar", "2"), L("in block", "foo", "2")>>)
Npm == File("npm", "npm", "package-lock.json", <<L("node_modules", "foo", ""), L("nested", "foo", "1")>>)
Pnpm == File("pnpm", "npm", "pnpm-lock.yaml", <<L("entry", "foo", "1"), L("entry", "bar", "2")>>)
Composer == File("composer", "Packagist", "composer.lock", <<L("packages", "bar", ""), L("packages-dev", "bar", "2")>>)
NpmBlank == File("npm", "npm", "package-lock.json", <<L("node_modules", "bar", "2"), L("nested", "Foo", " "), L("nested", "foo", "1")>>)
ComposerV == File("composer", "Packagist", "composer.lock", <<L("packages", "Foo", "v"), L("packages", "foo", "v1"), L("packages-dev", "bar", "2")>>)
Cargo == File("cargo", "crates.io", "Cargo.lock", <<L("block", "", ""), L("name", "foo", ""), L("version", "", "1"), L("block", "", "")>>)
Maven == File("maven", "Maven", "pom.xml", <<L("property", "v", "2"), L("reference", "bar", "v"), L("reference", "foo", "w"), L("dependency", "foo", "1")>>)

Case(workspace, scans, tools) == [workspace |-> workspace, scans |-> scans, tools |-> tools]

\* One scan of each file in blocks, three scans of a workspace with several manifests, two of
\* one with versions that the strip empties, and tools.
AllScenarios ==
    {Case(w, <<"pipeline">>, <<>>) : w \in BlockFiles}
    \cup {Case(w, <<"pipeline", "pipeline", "api">>, <<>>) :
            w \in {<<Requirements, Pyproject>>, <<Go, Maven>>, <<Npm, Pnpm, Composer, Cargo>>}}
    \cup {Case(w, <<"pipeline", "api">>, <<>>) : w \in {<<NpmBlank>>, <<ComposerV>>, <<NpmBlank, ComposerV>>}}
    \cup {Case(<<>>, <<>>, <<"semgrep", "semgrep", "syft", "codeql", "codeql">>)}
=============================================================================
