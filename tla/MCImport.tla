------------------------------ MODULE MCImport ------------------------------
(* Imports and cleanups of the instance of ProjectImport in MCServices. *)
EXTENDS Naturals

Kinds == {"package", "upload", "workspace", "snapshot"}

Host(name, private) == [name |-> name, private |-> private]
Url(scheme, host) == [form |-> "url", scheme |-> scheme, host |-> host]
Public == Host("git.example.org", FALSE)
Zip(entries, files, large) == [entries |-> entries, files |-> files, large |-> large]

Git(p, url) == [kind |-> "git", project |-> p, url |-> url]
Upload(p, archive) == [kind |-> "zip", project |-> p, archive |-> archive]
Manual(p) == [kind |-> "manual", project |-> p]
Clean(zero, max, dry) == [kind |-> "cleanup", zero |-> zero, max |-> max, dry_run |-> dry]

Good == Zip({"file", "dir"}, 2, FALSE)
Old == Clean({}, 3, FALSE)

\* Two imports of one name; imports and cleanups of each kind; sources that are refused.
Scenes == {
    <<Git("a", Url("https", Public)), Upload("a", Good), Old, Old>>,
    <<Git("a", Url("https", Public)), Upload("b", Good), Old, Clean({"workspace", "snapshot"}, 1, FALSE)>>,
    <<Upload("a", Good), Upload("b", Zip({"file", "oversized"}, 1, FALSE)), Old, Clean(Kinds, 9, FALSE)>>,
    <<Git("a", [form |-> "scp", scheme |-> "", host |-> Public]), Git("b", Url("https", Host("10.0.0.1", TRUE))),
      Old, Clean({"upload"}, 9, TRUE)>>,
    <<Upload("a", Zip({"file"}, 9, FALSE)), Upload("b", Zip({"file"}, 1, TRUE)), Old, Old>>,
    <<Manual("a"), Git("a", Url("http", Public)), Git("b", [form |-> "broken"]), Old>>}
=============================================================================
