--------------------------- MODULE WorkshopProofs ---------------------------
(***************************************************************************)
(* Type correctness and the safety properties of the workshop manager, for *)
(* any items.                                                              *)
(***************************************************************************)
EXTENDS Workshop, TLAPS

Folders ==
    /\ installed \subseteq Items /\ posted \subseteq Items
    /\ paths \subseteq Items /\ skins \in [Items -> 0 .. 1] /\ reloadPending \in BOOLEAN
    /\ loaded \subseteq Content
Records ==
    /\ tracked \subseteq Items /\ browse \subseteq Items
    /\ listed \subseteq Items /\ recently \subseteq Items /\ refreshQueued \in BOOLEAN
    /\ browsing \in BOOLEAN /\ deleting \in Items \cup {None}
    /\ disabled \subseteq Items /\ saved \subseteq Items

LEMMA TypeParts == TypeOK <=> Folders /\ Records
  BY DEF TypeOK, Folders, Records

-----------------------------------------------------------------------------
(* What the helpers do. *)

LEMMA UntrackedType ==
  ASSUME Folders, NEW f \in Items
  PROVE  /\ Untracked(f) \in [Items -> 0 .. 1]
         /\ Untracked(f)[f] = 0
         /\ \A g \in Items : g # f => Untracked(f)[g] = skins[g]
  BY DEF Folders, Untracked

LEMMA AddSearchPathsType ==
  ASSUME Folders, NEW M, M \subseteq Items, AddSearchPaths(M)
  PROVE  /\ paths' \subseteq Items /\ paths' = paths \cup M
         /\ skins' \in [Items -> 0 .. 1]
         /\ \A f \in M \cap Content : skins'[f] = 1
         /\ \A f \in Items : skins[f] = 1 => skins'[f] = 1
  BY DEF Folders, AddSearchPaths, TrackedAsSkin

LEMMA UnmountedShrinks ==
  ASSUME NEW f, paths' \in Unmounted(f)
  PROVE  /\ paths' \subseteq paths
         /\ f \in installed => paths' = paths \ {f}
         /\ f \notin installed /\ f \notin tracked => paths' = paths
  BY DEF Unmounted

LEMMA MountableOfSubset ==
  ASSUME NEW S
  PROVE  /\ MountableOf(S) \subseteq S /\ MountableOf(S) \cap disabled = {}
         /\ MountableOf(S) \subseteq installed
         /\ \A f \in S : f \in installed /\ f \notin disabled => f \in MountableOf(S)
  BY DEF MountableOf, Mountable

LEMMA SkinsToMountSubset ==
  ASSUME Folders, NEW S \in SkinsToMount
  PROVE  S \subseteq Items /\ S \subseteq Content /\ S \subseteq installed
  BY ItemAssumption DEF SkinsToMount, Folders

-----------------------------------------------------------------------------
(* The inductive invariant: content on the search path is in the list of      *)
(* mounted skins, which is what unmounting goes by when it asks for a reload. *)

MountedContent ==
    \A f \in Content \ Vanishing : f \in paths => f \in installed /\ skins[f] = 1
FoldersInv == Folders /\ MountedContent
RecordsInv == Records /\ BrowsedItemsLive /\ disabled = saved
WorkshopInv == FoldersInv /\ RecordsInv

\* Mounting installed items.
LEMMA MountKeeps ==
  ASSUME FoldersInv, NEW M, M \subseteq Items, M \subseteq installed,
         AddSearchPaths(M), UNCHANGED steam, loaded' \subseteq Content, reloadPending' \in BOOLEAN
  PROVE  FoldersInv'
<1>1. Folders'
  BY AddSearchPathsType DEF Folders, FoldersInv, steam
<1>2. MountedContent'
  <2> SUFFICES ASSUME NEW f \in Content \ Vanishing, f \in paths'
               PROVE  f \in installed' /\ skins'[f] = 1
    BY DEF MountedContent
  <2>1. f \in Items
    BY ItemAssumption
  <2>2. CASE f \in M
    BY <2>1, <2>2, AddSearchPathsType DEF FoldersInv, steam
  <2>3. CASE f \in paths
    BY <2>1, <2>3, AddSearchPathsType DEF FoldersInv, MountedContent, steam
  <2> QED  BY <2>2, <2>3, AddSearchPathsType DEF FoldersInv
<1> QED  BY <1>1, <1>2 DEF FoldersInv

\* Unmounting an item, one way or the other.
LEMMA UnmountKeeps ==
  ASSUME FoldersInv, NEW f \in Items, paths' \subseteq paths, skins' = Untracked(f),
         f \in installed => f \notin paths',
         UNCHANGED steam, loaded' \subseteq Content, reloadPending' \in BOOLEAN
  PROVE  FoldersInv'
<1>1. Folders'
  BY UntrackedType DEF Folders, FoldersInv, steam
<1>2. MountedContent'
  <2> SUFFICES ASSUME NEW g \in Content \ Vanishing, g \in paths'
               PROVE  g \in installed' /\ skins'[g] = 1
    BY DEF MountedContent
  <2>1. g \in Items /\ g \in installed /\ skins[g] = 1 /\ g # f
    BY ItemAssumption DEF FoldersInv, MountedContent
  <2> QED  BY <2>1, UntrackedType DEF FoldersInv, steam
<1> QED  BY <1>1, <1>2 DEF FoldersInv

\* A refresh, by Update or at once.
LEMMA RefreshKeeps ==
  ASSUME FoldersInv, RecordsInv, NEW L \in SUBSET Items, RefreshSubscriptions(L), UNCHANGED steam,
         loaded' \subseteq Content, reloadPending' \in BOOLEAN
  PROVE  /\ FoldersInv'
         /\ listed' \subseteq Items /\ recently' \subseteq Items /\ tracked' \subseteq Items
         /\ tracked \subseteq tracked'
<1>1. MountableOf(ToMount(L)) \subseteq Items /\ MountableOf(ToMount(L)) \subseteq installed
  BY MountableOfSubset DEF ToMount
<1> QED  BY <1>1, MountKeeps DEF RefreshSubscriptions, RecordsInv, Records

LEMMA NoItemType == NoItem \in [Items -> 0 .. 1]
  BY DEF NoItem

LEMMA InitInv == Init => WorkshopInv
  BY NoItemType DEF Init, WorkshopInv, FoldersInv, RecordsInv, Folders, Records, MountedContent, BrowsedItemsLive

LEMMA FoldersStep == WorkshopInv /\ [Next]_vars => FoldersInv'
<1> SUFFICES ASSUME WorkshopInv, [Next]_vars
             PROVE  FoldersInv'
  OBVIOUS
<1> USE DEF WorkshopInv
<1>0. FoldersInv /\ UNCHANGED <<steam, mounts, loaded>> => FoldersInv'
  BY DEF FoldersInv, Folders, MountedContent, steam, mounts
<1>1. CASE \E f \in Items : ItemSteps(f)
  <2> PICK f \in Items : ItemSteps(f)
    BY <1>1
  <2>1. CASE AddItem(f) \/ DeleteItem(f)
    BY <2>1, <1>0 DEF AddItem, DeleteItem
  <2>2. CASE SetItemEnabled(f, TRUE)
    BY <2>2, MountKeeps DEF SetItemEnabled, FoldersInv, Folders
  <2>3. CASE SetItemEnabled(f, FALSE)
    BY <2>3, UnmountKeeps, UnmountedShrinks DEF SetItemEnabled, FoldersInv, Folders
  <2>4. CASE MountWeaponSkin(f)
    BY <2>4, MountKeeps DEF MountWeaponSkin, MountItems, ReloadAsked, FoldersInv, Folders
  <2>5. CASE UnmountWeaponSkin(f)
    BY <2>5, UnmountKeeps DEF UnmountWeaponSkin, FoldersInv, Folders
  <2> QED  BY <2>1, <2>2, <2>3, <2>4, <2>5 DEF ItemSteps
<1>2. CASE \E f \in Items : SteamSteps(f)
  <2> PICK f \in Items : SteamSteps(f)
    BY <1>2
  <2>0. MountableOf({f}) \subseteq Items /\ MountableOf({f}) \subseteq installed
    BY MountableOfSubset
  <2>1. CASE SteamInstalls(f)
    BY <2>1 DEF SteamInstalls, FoldersInv, Folders, MountedContent, mounts
  <2>2. CASE SteamRemovesFiles(f)
    BY <2>2 DEF SteamRemovesFiles, FoldersInv, Folders, MountedContent, mounts
  <2>3. CASE Steam_OnItemInstalled(f)
    <3>1. Folders'
      BY <2>0, <2>3, AddSearchPathsType
      DEF Steam_OnItemInstalled, MountItems, ToldInstalled, ReloadAsked, FoldersInv, Folders
    <3>2. MountedContent'
      <4> SUFFICES ASSUME NEW g \in Content \ Vanishing, g \in paths'
                   PROVE  g \in installed' /\ skins'[g] = 1
        BY DEF MountedContent
      <4>1. g \in Items /\ g \in paths \cup MountableOf({f})
        BY <2>0, <2>3, ItemAssumption, AddSearchPathsType
        DEF Steam_OnItemInstalled, MountItems, ToldInstalled, FoldersInv
      <4>2. installed' = installed
        BY <2>3 DEF Steam_OnItemInstalled
      <4> QED
        BY <2>0, <2>3, <4>1, <4>2, AddSearchPathsType
        DEF Steam_OnItemInstalled, MountItems, ToldInstalled, FoldersInv, MountedContent
    <3> QED  BY <3>1, <3>2 DEF FoldersInv
  <2>4. CASE Steam_OnDownloadItem(f) \/ Steam_OnSubscribeItem(f)
    BY <2>0, <2>4, MountKeeps
    DEF Steam_OnDownloadItem, Steam_OnSubscribeItem, MountItems, ReloadAsked, FoldersInv, Folders
  <2>5. CASE Steam_OnUnsubscribeItem(f)
    BY <2>5, UnmountKeeps, UnmountedShrinks DEF Steam_OnUnsubscribeItem, Unmount, WasContentMod, FoldersInv, Folders
  <2> QED  BY <2>1, <2>2, <2>3, <2>4, <2>5 DEF SteamSteps
<1>3. CASE \E ok \in BOOLEAN : Steam_OnDeleteItem(ok)
  BY <1>0, <1>3 DEF Steam_OnDeleteItem
<1>4. CASE Update
  <2> PICK L \in SUBSET Items, ready \in BOOLEAN :
        /\ IF refreshQueued THEN RefreshSubscriptions(L) ELSE UNCHANGED <<listed, recently, tracked, paths, skins>>
        /\ reloadPending' \in BOOLEAN
        /\ loaded' = loaded \/ loaded' = paths' \cap Content
        /\ UNCHANGED steam
    BY <1>4 DEF Update, ReloadAsked, FoldersInv, Folders
  <2>1. loaded' \subseteq Content
    BY DEF FoldersInv, Folders
  <2>2. CASE refreshQueued
    BY <2>1, <2>2, RefreshKeeps
  <2>3. CASE ~refreshQueued
    BY <2>1, <2>3 DEF FoldersInv, Folders, MountedContent, steam
  <2> QED  BY <2>2, <2>3
<1>5. CASE RefreshNow
  BY <1>5, RefreshKeeps DEF RefreshNow, ReloadAsked, FoldersInv, Folders
<1>6. CASE MountAllWeaponSkins
  <2> PICK S \in SkinsToMount : MountItems({f \in S : skins[f] = 0}) /\ UNCHANGED <<steam, loaded>>
    BY <1>6 DEF MountAllWeaponSkins
  <2> QED
    BY SkinsToMountSubset, MountKeeps DEF MountItems, ReloadAsked, FoldersInv, Folders
<1>7. CASE RefreshWeaponSkins
  <2> PICK S \in SkinsToMount :
        /\ paths' = (paths \ {f \in installed : skins[f] > 0}) \cup S
        /\ skins' = [f \in Items |-> IF f \in S THEN 1 ELSE 0]
        /\ reloadPending' = ReloadAsked(S)
        /\ UNCHANGED <<steam, loaded>>
    BY <1>7 DEF RefreshWeaponSkins
  <2>1. S \subseteq Items /\ S \subseteq installed
    BY SkinsToMountSubset DEF FoldersInv
  <2>2. Folders'
    BY <2>1 DEF FoldersInv, Folders, ReloadAsked, steam
  <2>3. MountedContent'
    BY <2>1, ItemAssumption DEF FoldersInv, Folders, MountedContent, steam
  <2> QED  BY <2>2, <2>3 DEF FoldersInv
<1>8. CASE QueryRecentItems \/ SearchWorkshop \/ QueryFails \/ Steam_OnQueryCompleted \/ ClearBrowseableItems
  BY <1>0, <1>8 DEF QueryRecentItems, SearchWorkshop, QueryFails, Steam_OnQueryCompleted, ClearBrowseableItems
<1>9. CASE Restart
  BY <1>9, NoItemType DEF Restart, FoldersInv, Folders, MountedContent
<1>10. CASE UNCHANGED vars
  BY <1>0, <1>10 DEF vars
<1> QED
  BY <1>1, <1>2, <1>3, <1>4, <1>5, <1>6, <1>7, <1>8, <1>9, <1>10 DEF Next

LEMMA RecordsStep == WorkshopInv /\ [Next]_vars => RecordsInv'
<1> SUFFICES ASSUME WorkshopInv, [Next]_vars
             PROVE  RecordsInv'
  OBVIOUS
<1> USE DEF WorkshopInv, RecordsInv, Records, BrowsedItemsLive, lists, calls, toggles
<1>1. CASE \E f \in Items : ItemSteps(f)
  BY <1>1 DEF ItemSteps, AddItem, DeleteItem, SetItemEnabled, MountWeaponSkin, UnmountWeaponSkin
<1>2. CASE \E f \in Items : SteamSteps(f)
  BY <1>2 DEF SteamSteps, SteamInstalls, SteamRemovesFiles, Steam_OnItemInstalled, Steam_OnDownloadItem,
              Steam_OnSubscribeItem, Steam_OnUnsubscribeItem, RemoveItem
<1>3. CASE \E ok \in BOOLEAN : Steam_OnDeleteItem(ok)
  BY <1>3 DEF Steam_OnDeleteItem, RemoveItem
<1>4. CASE Update
  BY <1>4 DEF Update, RefreshSubscriptions
<1>5. CASE RefreshNow
  BY <1>5 DEF RefreshNow, RefreshSubscriptions
<1>6. CASE MountAllWeaponSkins \/ RefreshWeaponSkins
  BY <1>6 DEF MountAllWeaponSkins, RefreshWeaponSkins
<1>7. CASE QueryRecentItems \/ SearchWorkshop \/ QueryFails \/ Steam_OnQueryCompleted \/ ClearBrowseableItems
  BY <1>7 DEF QueryRecentItems, SearchWorkshop, QueryFails, Steam_OnQueryCompleted, ClearBrowseableItems
<1>8. CASE Restart
  BY <1>8 DEF Restart
<1>9. CASE UNCHANGED vars
  BY <1>9 DEF vars
<1> QED
  BY <1>1, <1>2, <1>3, <1>4, <1>5, <1>6, <1>7, <1>8, <1>9 DEF Next

LEMMA InvStep == WorkshopInv /\ [Next]_vars => WorkshopInv'
  BY FoldersStep, RecordsStep DEF WorkshopInv

-----------------------------------------------------------------------------
(* Content stays up to date. *)

LEMMA MountUpToDate ==
  ASSUME FoldersInv, NEW M, paths' = paths \cup M, reloadPending' = ReloadAsked(M), loaded' = loaded,
         NEW f \in Content, UpToDate(f)
  PROVE  UpToDate(f)'
  BY DEF UpToDate, ReloadAsked

\* The unmounting of any item whose path is known.
LEMMA UnmountUpToDate ==
  ASSUME WorkshopInv, NEW f \in Items, Unmount(f), f \in installed \/ f \notin tracked, loaded' = loaded,
         NEW g \in Content \ Vanishing, UpToDate(g)
  PROVE  UpToDate(g)'
<1>1. CASE g = f
  <2>1. CASE f \in paths
    <3>1. f \in installed /\ skins[f] = 1
      BY <1>1, <2>1 DEF WorkshopInv, FoldersInv, MountedContent
    <3>2. WasContentMod(f)
      BY <3>1 DEF WasContentMod
    <3>3. reloadPending'
      BY <3>1, <3>2, Zenon DEF Unmount
    <3> QED  BY <3>3 DEF UpToDate
  <2>2. CASE f \notin paths
    <3>1. f \notin paths' /\ (reloadPending => reloadPending')
      BY <2>2, UnmountedShrinks DEF Unmount
    <3> QED  BY <1>1, <2>2, <3>1 DEF UpToDate
  <2> QED  BY <2>1, <2>2
<1>2. CASE g # f
  <2>1. g \in paths' <=> g \in paths
    BY <1>2, UnmountedShrinks DEF Unmount
  <2>2. reloadPending => reloadPending'
    BY DEF Unmount
  <2> QED  BY <2>1, <2>2 DEF UpToDate
<1> QED  BY <1>1, <1>2

LEMMA UpToDateStep == WorkshopInv /\ [Next]_vars => StaysUpToDate
<1> SUFFICES ASSUME WorkshopInv, [Next]_vars, NEW f \in Content \ Vanishing, UpToDate(f),
                    ~RefreshWeaponSkins, ~PathUnknown
             PROVE  UpToDate(f)'
  BY DEF StaysUpToDate
<1> USE DEF WorkshopInv
<1>0. UNCHANGED <<mounts, loaded>> => UpToDate(f)'
  BY DEF UpToDate, mounts
<1>1. CASE \E g \in Items : ItemSteps(g)
  <2> PICK g \in Items : ItemSteps(g)
    BY <1>1
  <2>1. CASE AddItem(g) \/ DeleteItem(g)
    BY <2>1, <1>0 DEF AddItem, DeleteItem
  <2>2. CASE \E enabled \in BOOLEAN : SetItemEnabled(g, enabled)
    BY <2>2 DEF SetItemEnabled, UpToDate
  <2>3. CASE MountWeaponSkin(g)
    BY <2>3, MountUpToDate DEF MountWeaponSkin, MountItems, AddSearchPaths
  <2>4. CASE UnmountWeaponSkin(g)
    BY <2>4 DEF UnmountWeaponSkin, UpToDate
  <2> QED  BY <2>1, <2>2, <2>3, <2>4 DEF ItemSteps
<1>2. CASE \E g \in Items : SteamSteps(g)
  <2> PICK g \in Items : SteamSteps(g)
    BY <1>2
  <2>1. CASE SteamInstalls(g) \/ SteamRemovesFiles(g)
    BY <2>1, <1>0 DEF SteamInstalls, SteamRemovesFiles
  <2>2. CASE Steam_OnItemInstalled(g) \/ Steam_OnDownloadItem(g) \/ Steam_OnSubscribeItem(g)
    BY <2>2, MountUpToDate
    DEF Steam_OnItemInstalled, Steam_OnDownloadItem, Steam_OnSubscribeItem, MountItems, AddSearchPaths
  <2>3. CASE Steam_OnUnsubscribeItem(g)
    <3>1. g \in installed \/ g \notin tracked
      BY <2>3 DEF PathUnknown
    <3> QED  BY <2>3, <3>1, UnmountUpToDate DEF Steam_OnUnsubscribeItem
  <2> QED  BY <2>1, <2>2, <2>3 DEF SteamSteps
<1>3. CASE \E ok \in BOOLEAN : Steam_OnDeleteItem(ok)
  BY <1>0, <1>3 DEF Steam_OnDeleteItem
<1>4. CASE Update
  <2> PICK L \in SUBSET Items, ready \in BOOLEAN :
        LET pending == ReloadAsked(IF refreshQueued THEN MountableOf(ToMount(L)) ELSE {})
        IN  /\ IF refreshQueued THEN RefreshSubscriptions(L) ELSE UNCHANGED paths
            /\ reloadPending' = (pending /\ ~ready)
            /\ loaded' = IF pending /\ ready THEN paths' \cap Content ELSE loaded
    BY <1>4 DEF Update
  <2> DEFINE M == IF refreshQueued THEN MountableOf(ToMount(L)) ELSE {}
  <2>1. paths' = paths \cup M
    BY DEF RefreshSubscriptions, AddSearchPaths
  <2>2. CASE ReloadAsked(M) /\ ready
    BY <2>2 DEF UpToDate
  <2>3. CASE ~(ReloadAsked(M) /\ ready)
    <3>1. reloadPending' = ReloadAsked(M) /\ loaded' = loaded
      BY <2>3 DEF ReloadAsked, FoldersInv, Folders
    <3> HIDE DEF M
    <3> QED  BY <2>1, <3>1, MountUpToDate
  <2> QED  BY <2>2, <2>3
<1>5. CASE RefreshNow
  BY <1>5, MountUpToDate DEF RefreshNow, RefreshSubscriptions, AddSearchPaths
<1>6. CASE MountAllWeaponSkins
  BY <1>6, MountUpToDate DEF MountAllWeaponSkins, MountItems, AddSearchPaths
<1>7. CASE QueryRecentItems \/ SearchWorkshop \/ QueryFails \/ Steam_OnQueryCompleted \/ ClearBrowseableItems
  BY <1>0, <1>7 DEF QueryRecentItems, SearchWorkshop, QueryFails, Steam_OnQueryCompleted, ClearBrowseableItems
<1>8. CASE Restart
  BY <1>8 DEF Restart, UpToDate
<1>9. CASE UNCHANGED vars
  BY <1>0, <1>9 DEF vars
<1> QED
  BY <1>1, <1>2, <1>3, <1>4, <1>5, <1>6, <1>7, <1>8, <1>9 DEF Next

-----------------------------------------------------------------------------
(* What the player has disabled. *)

\* Mounting does not mount what is disabled.
LEMMA MountNotDisabled ==
  ASSUME NEW S, AddSearchPaths(MountableOf(S)), disabled' = disabled, NEW f
  PROVE  DisabledMounted(f)' => DisabledMounted(f)
  BY MountableOfSubset DEF AddSearchPaths, DisabledMounted

LEMMA DisabledStep == [Next]_vars => StaysDisabled
<1> SUFFICES ASSUME [Next]_vars, NEW f \in Items, DisabledMounted(f)', f \in installed,
                    ~MountWeaponSkin(f), ~MountAllWeaponSkins, ~RefreshWeaponSkins
             PROVE  DisabledMounted(f)
  BY DEF StaysDisabled
<1>0. UNCHANGED <<mounts, toggles>> => DisabledMounted(f)
  BY DEF mounts, toggles, DisabledMounted
<1>1. CASE \E g \in Items : ItemSteps(g)
  <2> PICK g \in Items : ItemSteps(g)
    BY <1>1
  <2>1. CASE AddItem(g) \/ DeleteItem(g)
    BY <1>0, <2>1 DEF AddItem, DeleteItem
  <2>2. CASE SetItemEnabled(g, TRUE)
    BY <2>2 DEF SetItemEnabled, AddSearchPaths, DisabledMounted
  <2>3. CASE SetItemEnabled(g, FALSE)
    BY <2>3, UnmountedShrinks DEF SetItemEnabled, DisabledMounted
  <2>4. CASE MountWeaponSkin(g)
    BY <2>4 DEF MountWeaponSkin, MountItems, AddSearchPaths, DisabledMounted, toggles
  <2>5. CASE UnmountWeaponSkin(g)
    BY <2>5 DEF UnmountWeaponSkin, DisabledMounted, toggles
  <2> QED  BY <2>1, <2>2, <2>3, <2>4, <2>5 DEF ItemSteps
<1>2. CASE \E g \in Items : SteamSteps(g)
  <2> PICK g \in Items : SteamSteps(g)
    BY <1>2
  <2>1. CASE SteamInstalls(g) \/ SteamRemovesFiles(g)
    BY <1>0, <2>1 DEF SteamInstalls, SteamRemovesFiles
  <2>2. CASE Steam_OnItemInstalled(g) \/ Steam_OnDownloadItem(g) \/ Steam_OnSubscribeItem(g)
    BY <2>2, MountNotDisabled
    DEF Steam_OnItemInstalled, Steam_OnDownloadItem, Steam_OnSubscribeItem, MountItems, ToldInstalled, toggles
  <2>3. CASE Steam_OnUnsubscribeItem(g)
    BY <2>3, UnmountedShrinks DEF Steam_OnUnsubscribeItem, Unmount, DisabledMounted, toggles
  <2> QED  BY <2>1, <2>2, <2>3 DEF SteamSteps
<1>3. CASE \E ok \in BOOLEAN : Steam_OnDeleteItem(ok)
  BY <1>0, <1>3 DEF Steam_OnDeleteItem
<1>4. CASE Update
  <2>1. CASE refreshQueued
    BY <1>4, <2>1, MountNotDisabled DEF Update, RefreshSubscriptions, toggles
  <2>2. CASE ~refreshQueued
    BY <1>4, <2>2 DEF Update, toggles, DisabledMounted
  <2> QED  BY <2>1, <2>2
<1>5. CASE RefreshNow
  BY <1>5, MountNotDisabled DEF RefreshNow, RefreshSubscriptions, toggles
<1>7. CASE QueryRecentItems \/ SearchWorkshop \/ QueryFails \/ Steam_OnQueryCompleted \/ ClearBrowseableItems
  BY <1>0, <1>7 DEF QueryRecentItems, SearchWorkshop, QueryFails, Steam_OnQueryCompleted, ClearBrowseableItems
<1>8. CASE Restart
  BY <1>8 DEF Restart, DisabledMounted
<1>9. CASE UNCHANGED vars
  BY <1>0, <1>9 DEF vars
<1> QED
  BY <1>1, <1>2, <1>3, <1>4, <1>5, <1>7, <1>8, <1>9 DEF Next

\* The list in memory is the one on disk, so that a restart forgets nothing.
LEMMA ChoiceStep == WorkshopInv /\ [Next]_vars => ChoiceKept
<1> SUFFICES ASSUME WorkshopInv, [Next]_vars, NEW f \in Items, f \in disabled, f \notin disabled'
             PROVE  SetItemEnabled(f, TRUE)
  BY DEF ChoiceKept
<1>1. ASSUME NEW g \in Items, ItemSteps(g)
      PROVE  SetItemEnabled(f, TRUE)
  <2>1. CASE AddItem(g) \/ DeleteItem(g) \/ MountWeaponSkin(g) \/ UnmountWeaponSkin(g)
    BY <2>1 DEF AddItem, DeleteItem, MountWeaponSkin, UnmountWeaponSkin, toggles
  <2>2. ASSUME NEW enabled \in BOOLEAN, SetItemEnabled(g, enabled)
        PROVE  SetItemEnabled(f, TRUE)
    <3>1. disabled' = IF enabled THEN disabled \ {g} ELSE disabled \cup {g}
      BY <2>2 DEF SetItemEnabled
    <3>2. enabled = TRUE /\ g = f
      BY <3>1
    <3> QED  BY <2>2, <3>2
  <2> QED  BY <1>1, <2>1, <2>2 DEF ItemSteps
<1>2. CASE \E g \in Items : SteamSteps(g)
  BY <1>2 DEF SteamSteps, SteamInstalls, SteamRemovesFiles, Steam_OnItemInstalled, Steam_OnDownloadItem,
              Steam_OnSubscribeItem, Steam_OnUnsubscribeItem, toggles
<1>3. CASE (\E ok \in BOOLEAN : Steam_OnDeleteItem(ok)) \/ Update \/ RefreshNow
  BY <1>3 DEF Steam_OnDeleteItem, Update, RefreshNow, toggles
<1>4. CASE MountAllWeaponSkins \/ RefreshWeaponSkins
  BY <1>4 DEF MountAllWeaponSkins, RefreshWeaponSkins, toggles
<1>5. CASE QueryRecentItems \/ SearchWorkshop \/ QueryFails \/ Steam_OnQueryCompleted \/ ClearBrowseableItems
  BY <1>5 DEF QueryRecentItems, SearchWorkshop, QueryFails, Steam_OnQueryCompleted, ClearBrowseableItems, toggles
<1>6. CASE Restart
  BY <1>6 DEF Restart, WorkshopInv, RecordsInv
<1>7. CASE UNCHANGED vars
  BY <1>7 DEF vars, toggles
<1> QED
  BY <1>1, <1>2, <1>3, <1>4, <1>5, <1>6, <1>7 DEF Next

-----------------------------------------------------------------------------
(* What is listed, enabled and installed is mounted. *)

LEMMA MountNotLeftOut ==
  ASSUME NEW S, AddSearchPaths(MountableOf(S)), disabled' = disabled, installed' = installed,
         listed' = listed, posted' = posted \ S, NEW f, LeftOut(f)'
  PROVE  LeftOut(f)
  BY MountableOfSubset DEF AddSearchPaths, LeftOut

LEMMA RefreshNotLeftOut ==
  ASSUME NEW L, RefreshSubscriptions(L), UNCHANGED <<steam, toggles>>, NEW f, LeftOut(f)'
  PROVE  LeftOut(f) \/ f \in recently
  BY MountableOfSubset DEF RefreshSubscriptions, AddSearchPaths, ToMount, LeftOut, steam, toggles

LEMMA LeftOutStep == [Next]_vars => NoneLeftOut
<1> SUFFICES ASSUME [Next]_vars, NEW f \in Items, LeftOut(f)', f \notin recently,
                    ~UnmountWeaponSkin(f), ~RefreshWeaponSkins, ~PathUnknown
             PROVE  LeftOut(f)
  BY DEF NoneLeftOut
<1>0. UNCHANGED <<steam, mounts, lists, toggles>> => LeftOut(f)
  BY DEF steam, mounts, lists, toggles, LeftOut
<1>1. CASE \E g \in Items : ItemSteps(g)
  <2> PICK g \in Items : ItemSteps(g)
    BY <1>1
  <2>1. CASE AddItem(g) \/ DeleteItem(g)
    BY <1>0, <2>1 DEF AddItem, DeleteItem
  <2>2. CASE SetItemEnabled(g, TRUE)
    BY <2>2 DEF SetItemEnabled, AddSearchPaths, LeftOut, steam, lists
  <2>3. CASE SetItemEnabled(g, FALSE)
    <3>1. g \in installed \/ g \notin tracked
      BY <2>3 DEF PathUnknown
    <3> QED  BY <2>3, <3>1, UnmountedShrinks DEF SetItemEnabled, LeftOut, steam, lists
  <2>4. CASE MountWeaponSkin(g)
    BY <2>4 DEF MountWeaponSkin, MountItems, AddSearchPaths, LeftOut, steam, lists, toggles
  <2>5. CASE UnmountWeaponSkin(g)
    BY <2>5 DEF UnmountWeaponSkin, LeftOut, steam, lists, toggles
  <2> QED  BY <2>1, <2>2, <2>3, <2>4, <2>5 DEF ItemSteps
<1>2. CASE \E g \in Items : SteamSteps(g)
  <2> PICK g \in Items : SteamSteps(g)
    BY <1>2
  <2>1. CASE SteamInstalls(g) \/ SteamRemovesFiles(g)
    BY <2>1 DEF SteamInstalls, SteamRemovesFiles, LeftOut, mounts, lists, toggles
  <2>2. CASE Steam_OnItemInstalled(g)
    BY <2>2, MountNotLeftOut DEF Steam_OnItemInstalled, MountItems, ToldInstalled, lists, toggles
  <2>3. CASE Steam_OnDownloadItem(g) \/ Steam_OnSubscribeItem(g)
    BY <2>3
    DEF Steam_OnDownloadItem, Steam_OnSubscribeItem, MountItems, AddSearchPaths, LeftOut, steam, lists, toggles
  <2>4. CASE Steam_OnUnsubscribeItem(g)
    <3>1. g \in installed \/ g \notin tracked
      BY <2>4 DEF PathUnknown
    <3> QED  BY <2>4, <3>1, UnmountedShrinks DEF Steam_OnUnsubscribeItem, Unmount, LeftOut, steam, toggles
  <2> QED  BY <2>1, <2>2, <2>3, <2>4 DEF SteamSteps
<1>3. CASE \E ok \in BOOLEAN : Steam_OnDeleteItem(ok)
  BY <1>0, <1>3 DEF Steam_OnDeleteItem
<1>4. CASE Update
  <2>1. CASE refreshQueued
    BY <1>4, <2>1, RefreshNotLeftOut DEF Update
  <2>2. CASE ~refreshQueued
    BY <1>4, <2>2 DEF Update, steam, toggles, LeftOut
  <2> QED  BY <2>1, <2>2
<1>5. CASE RefreshNow
  BY <1>5, RefreshNotLeftOut DEF RefreshNow
<1>6. CASE MountAllWeaponSkins
  BY <1>6 DEF MountAllWeaponSkins, MountItems, AddSearchPaths, LeftOut, steam, lists, toggles
<1>7. CASE QueryRecentItems \/ SearchWorkshop \/ QueryFails \/ Steam_OnQueryCompleted \/ ClearBrowseableItems
  BY <1>0, <1>7 DEF QueryRecentItems, SearchWorkshop, QueryFails, Steam_OnQueryCompleted, ClearBrowseableItems
<1>8. CASE Restart
  BY <1>8 DEF Restart, LeftOut
<1>9. CASE UNCHANGED vars
  BY <1>0, <1>9 DEF vars
<1> QED
  BY <1>1, <1>2, <1>3, <1>4, <1>5, <1>6, <1>7, <1>8, <1>9 DEF Next

-----------------------------------------------------------------------------
(* The theorems. *)

LEMMA WorkshopInvariant == Spec => []WorkshopInv
  BY InitInv, InvStep, PTL DEF Spec

\* Every list of the manager holds items only, and no content item is twice in
\* the list of mounted skins.
THEOREM WorkshopTypeCorrect == Spec => []TypeOK
<1>1. WorkshopInv => TypeOK
  BY TypeParts DEF WorkshopInv, FoldersInv, RecordsInv
<1> QED  BY <1>1, WorkshopInvariant, PTL

\* The entries of the browser are items that exist.
THEOREM BrowsedItemsLiveAlways == Spec => []BrowsedItemsLive
<1>1. WorkshopInv => BrowsedItemsLive
  BY DEF WorkshopInv, RecordsInv
<1> QED  BY <1>1, WorkshopInvariant, PTL

\* Content that is mounted or unmounted is reloaded, or a reload is pending.
THEOREM ContentStaysUpToDateAlways == Spec => ContentStaysUpToDate
<1>1. WorkshopInv /\ [Next]_vars => [StaysUpToDate]_vars
  BY UpToDateStep
<1> QED  BY <1>1, WorkshopInvariant, PTL DEF Spec, ContentStaysUpToDate

\* Only the player enables what the player has disabled, and nothing but the console
\* mounts it.
THEOREM DisabledStaysUnmountedAlways == Spec => DisabledStaysUnmounted
<1>1. WorkshopInv /\ [Next]_vars => [ChoiceKept /\ StaysDisabled]_vars
  BY DisabledStep, ChoiceStep
<1> QED  BY <1>1, WorkshopInvariant, PTL DEF Spec, DisabledStaysUnmounted

\* Subscriptions that are installed and enabled are mounted, but for the named
\* exceptions.
THEOREM ListedItemsMountedAlways == Spec => ListedItemsMounted
<1>1. [Next]_vars => [NoneLeftOut]_vars
  BY LeftOutStep
<1> QED  BY <1>1, PTL DEF Spec, ListedItemsMounted
=============================================================================
