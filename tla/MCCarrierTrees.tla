--------------------------- MODULE MCCarrierTrees ---------------------------
\* Trees with an operator's bundle and a file or a link, or two files of which
\* one is a link, and perhaps with a CarrierLab bundle and an earlier preserved
\* one; two seconds for builds.
EXTENDS CarrierTrees, TLC

File(content) == [kind |-> "file", data |-> content]
Dir == [kind |-> "dir", data |-> ""]
Link(name) == [kind |-> "link", data |-> name]

Bundle(name, content) ==
  (<<name>> :> Dir) @@ (<<name, "Info.plist">> :> File(content))

Operator == Bundle("MTS_ru.bundle", "operator")

\* A file that is named like a preserved bundle, and is none; a link to a file,
\* one that leads nowhere; and a link at the top, without an operator.
Others ==
  { Operator @@ (<<"CarrierLab-preserved-notes.txt">> :> File("notes")),
    Operator @@ (<<"MTS_ru.bundle", "carrier.plist">> :> Link("Info.plist")),
    Operator @@ (<<"MTS_ru.bundle", "carrier.plist">> :> Link("missing.plist")),
    (<<"version.plist">> :> File("v1")) @@ (<<"latest.plist">> :> Link("version.plist")) }

MCLab == "CarrierLab.bundle"
MCPreserved == {"CarrierLab-preserved-1.bundle", "CarrierLab-preserved-2.bundle"}

MCBundleName == MCPreserved \cup {MCLab, "MTS_ru.bundle"}

MCAllowedName == MCPreserved \cup {MCLab, "CarrierLab-preserved-notes.txt"}

MCAsset == Bundle(MCLab, "new")

MCInitial ==
  { o @@ l @@ q : o \in Others, l \in {<<>>, Bundle(MCLab, "old")},
      q \in {<<>>, Bundle("CarrierLab-preserved-1.bundle", "older")} }
=============================================================================
