--------------------------- MODULE EntityApplyMC ---------------------------
(* Values of the constants of EntityApply for TLC. *)
EXTENDS EntityApply, TLC

CONSTANTS user, sync,                          \* callers
          family, branch, ann, bob,            \* two groups and two individuals
          f1, f2, f3, f4, f5, f6, f7, f8, f9,  \* forms of a server
          g1, g2, g3, g4, g5, g6, g7           \* forms of a device

\* A server with one caller: a family with a nested branch, which come first, and
\* what takes them apart again, in any order.
ServerForms == {f1, f2, f3, f4, f5, f6, f7, f8, f9}
ServerType == f1 :> "group" @@ f2 :> "add" @@ f3 :> "add" @@ f4 :> "remove" @@ f5 :> "heal" @@
              f6 :> "delete" @@ f7 :> "merge" @@ f8 :> "add" @@ f9 :> "group"
ServerTarget == f1 :> family @@ f2 :> family @@ f3 :> branch @@ f4 :> family @@ f5 :> family @@
                f6 :> family @@ f7 :> bob @@ f8 :> branch @@ f9 :> family
ServerOthers == f1 :> {ann} @@ f2 :> {branch} @@ f3 :> {bob} @@ f4 :> {branch} @@ f5 :> {} @@
                f6 :> {} @@ f7 :> {ann} @@ f8 :> {family} @@ f9 :> {}

\* A device: its user submits g1 to g3, its download loop g4 to g7.
DeviceForms == {g1, g2, g3, g4, g5, g6, g7}
DeviceType == g1 :> "individual" @@ g2 :> "add" @@ g3 :> "remove" @@
              g4 :> "group" @@ g5 :> "individual" @@ g6 :> "individual" @@ g7 :> "delete"
DeviceTarget == g1 :> ann @@ g2 :> family @@ g3 :> family @@
                g4 :> family @@ g5 :> ann @@ g6 :> ann @@ g7 :> ann
DeviceOthers == g1 :> {} @@ g2 :> {bob} @@ g3 :> {bob} @@
                g4 :> {ann} @@ g5 :> {} @@ g6 :> {} @@ g7 :> {}

\* The store of the one or of the other; at one caller forms with a lower stamp go first.
ServerOrDevice == {ServerForms, DeviceForms}
AllForms == ServerForms \cup DeviceForms
AllBy == [f \in AllForms |-> IF f \in {g4, g5, g6, g7} THEN sync ELSE user]
AllType == ServerType @@ DeviceType
AllTarget == ServerTarget @@ DeviceTarget
AllOthers == ServerOthers @@ DeviceOthers
AllStamp == [f \in AllForms |-> IF f = f1 THEN 0
                               ELSE IF f \in {f2, f3, g1, g2, g4, g5} THEN 1 ELSE 2]
AllAlike == [e \in {family, branch, ann, bob} |-> IF e \in {ann, bob} THEN {ann, bob} ELSE {}]

\* A page that a device pulls: a record and two updates of it.
PageForms == {f1, f2, f3}
WholePage == {PageForms}
PageBy == [f \in PageForms |-> sync]
PageType == [f \in PageForms |-> "individual"]
PageTarget == [f \in PageForms |-> ann]
PageOthers == [f \in PageForms |-> {}]
PageStamp == f1 :> 1 @@ f2 :> 2 @@ f3 :> 3
PageAlike == [e \in {ann} |-> {}]

=============================================================================
