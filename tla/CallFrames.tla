------------------------------- MODULE CallFrames -------------------------------
(***************************************************************************)
(* What a call frame is counted under: its function, file and package, and *)
(* the category its package belongs to (v8profile/package.go, keysFor).    *)
(*                                                                         *)
(* A frame is [name, script, url]; its name stands for name and line.  How *)
(* DerivePackage reads a url is data: UrlKind and PackageOf.               *)
(***************************************************************************)
CONSTANTS
  Urls,      \* urls of scripts; "" is none of them
  UrlKind,   \* UrlKind[u]: "npm", "app", "builtin" or "eval"
  PackageOf  \* PackageOf[u]: name of the npm package or top directory

ASSUME FrameAssumption ==
  /\ "" \notin Urls
  /\ UrlKind \in [Urls -> {"npm", "app", "builtin", "eval"}]
  /\ DOMAIN PackageOf = Urls

Categories == {"native", "node_modules", "user", "idle"}

Kind(f) == IF f.url = "" THEN "native" ELSE UrlKind[f.url]

(* The frames V8 makes up keep their names, others without url share one. *)
Package(f) ==
  CASE Kind(f) = "native" ->
         IF f.name \in {"(root)", "(program)", "(idle)", "(garbage collector)", "(gc)"}
         THEN f.name
         ELSE IF f.name = "" THEN "(program)" ELSE "(native)"
    [] Kind(f) = "builtin" -> "node:builtin"
    [] Kind(f) = "eval" -> "(eval)"
    [] OTHER -> PackageOf[f.url]

Category(f) ==
  CASE Kind(f) = "npm" -> "node_modules"
    [] Kind(f) \in {"app", "eval"} -> "user"
    [] Kind(f) = "native" /\ Package(f) = "(idle)" -> "idle"
    [] OTHER -> "native"

(* The granularities of an aggregation. *)
Levels == {"function", "file", "package"}

(* Functions are told apart by script id, which counts the scripts that a  *)
(* process has loaded: it need not mean the same script in another one.    *)
FnKey(f) == <<IF f.script # "" THEN f.script ELSE f.url, f.name>>

FileKey(f) == IF f.url = "" THEN "(native)" ELSE f.url

KeyAt(f, level) ==
  CASE level = "function" -> FnKey(f)
    [] level = "file" -> FileKey(f)
    [] OTHER -> Package(f)
=============================================================================
